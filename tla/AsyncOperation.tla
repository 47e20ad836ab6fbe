--------------------------- MODULE AsyncOperation ---------------------------
(***************************************************************************)
(* Common::AsyncOperation: operations that begin other operations as their *)
(* children, complete once, and cancel their children when they are        *)
(* cancelled.  OperationLifecycle, which AsyncOperationState implements,   *)
(* stands for the state word of each operation: one step per member        *)
(* function.                                                               *)
(*                                                                         *)
(* Calls nest: Start runs OnStart, which begins a child; completing the    *)
(* child runs its callback, which ends it and completes the parent; Cancel *)
(* calls Cancel on the children.  Each thread has a stack of frames, the   *)
(* innermost first, and one step of the thread is a step of that frame.    *)
(* The bodies of OnStart, callback and Begin are those of the operations   *)
(* in tests/fabric_common_tests/fabric_common_test.cpp.                    *)
(***************************************************************************)
EXTENDS Naturals, Sequences, SequencesExt

CONSTANTS
    Op,        \* the operations
    Root,      \* the one that the user begins
    Steps,     \* the children an operation begins, each after the last succeeded
    Host,      \* AsyncOperationRoot objects: parents that are never started
    Skip,      \* operations with skipCompleteOnCancel_
    User,      \* the thread that begins Root
    Worker,    \* the thread on which asynchronous leaf operations finish
    Cancellers,\* threads that cancel one operation each
    Targets,   \* the operations that they cancel
    NoThread

Thread == {User, Worker} \cup Cancellers
Error == {"Success", "Failure", "OperationCanceled"}

IsChild(c, p) == \E i \in DOMAIN Steps[p] : Steps[p][i] = c
HasParent(c) == \E p \in Op : IsChild(c, p)
Parent(c) == CHOOSE p \in Op : IsChild(c, p)
IsLeaf(op) == Steps[op] = <<>>

ASSUME TreeAssumption ==
    /\ Root \in Op \ Host /\ Host \subseteq Op /\ Skip \subseteq Op /\ Targets \subseteq Op
    /\ Steps \in [Op -> Seq(Op)]
    /\ HasParent(Root) => Parent(Root) \in Host
    /\ \A c \in Op : HasParent(c) => c \notin Host
    /\ \A c, p, q \in Op : IsChild(c, p) /\ IsChild(c, q) => p = q
    /\ \A p \in Op : \A i, j \in DOMAIN Steps[p] : Steps[p][i] = Steps[p][j] => i = j

ASSUME ThreadAssumption ==
    User # Worker /\ {User, Worker} \cap Cancellers = {} /\ NoThread \notin Thread

VARIABLES
    lifecycle, observed, cancelRequested, \* state_ of each operation
    error_, children_, childLock_,        \* its other members
    stack,       \* the frames of each thread
    handedOver,  \* leaf operations whose work goes on in another thread
    fresh,       \* cancellers that have not called Cancel yet
    onStarted,   \* operations whose OnStart has been called
    refused,     \* operations that their parent did not attach
    early,       \* operations on which Cancel took effect before OnStart
    asserts      \* the asserts that were false

word == <<lifecycle, observed, cancelRequested>>
tree == <<children_, childLock_>>
history == <<onStarted, refused, early>>
vars == <<word, error_, tree, stack, handedOver, fresh, history, asserts>>

\* A frame: where the thread is, in a member function of which operation, and
\* the locals error, attachToParentSucceeded, forceComplete and children.
Frame(at, op) ==
    [at |-> at, op |-> op, err |-> "Success", attached |-> TRUE,
     force |-> FALSE, kids |-> {}]

InitMembers ==
    /\ lifecycle = [op \in Op |-> "Created"]
    /\ observed = [op \in Op |-> FALSE]
    /\ cancelRequested = [op \in Op |-> FALSE]
    /\ error_ = [op \in Op |-> "Success"]
    /\ children_ = [op \in Op |-> {}]
    /\ childLock_ = [op \in Op |-> NoThread]
    /\ handedOver = {}
    /\ fresh = Cancellers
    /\ onStarted = {}
    /\ refused = {}
    /\ early = {}
    /\ asserts = {}

\* The user calls something first.
FirstCall(frame) == stack = [t \in Thread |-> IF t = User THEN <<frame>> ELSE <<>>]

Init == InitMembers /\ FirstCall(Frame("Begin", Root))
-----------------------------------------------------------------------------
\* Thread t is at this place, the innermost of its frames being f.
At(t, at) == stack[t] # <<>> /\ Head(stack[t]).at = at
Top(t) == Head(stack[t])

\* It goes on at another place, calls, or returns from the function it is in.
Goto(t, frame) == stack' = [stack EXCEPT ![t] = <<frame>> \o Tail(@)]
Call(t, frame, callee) == stack' = [stack EXCEPT ![t] = <<callee, frame>> \o Tail(@)]
Return(t) == stack' = [stack EXCEPT ![t] = Tail(@)]

Free(op) == childLock_[op] = NoThread

\* A transition of state_, with the assert of the Transition functions.
Transition(op, from, to, name) ==
    /\ lifecycle' = IF lifecycle[op] = from THEN [lifecycle EXCEPT ![op] = to]
                                            ELSE lifecycle
    /\ asserts' = IF lifecycle[op] = from THEN asserts ELSE asserts \cup {name}
    /\ UNCHANGED <<observed, cancelRequested>>

\* ObserveState; the answer is CompletedSynchronously.
Observe(op) ==
    observed' = [observed EXCEPT ![op] = @ \/ lifecycle[op] \in {"Started", "Completing"}]
CompletedSynchronously(op) ==
    ~observed[op] /\ lifecycle[op] \notin {"Started", "Completing"}

CompletingOrCompleted(op) == lifecycle[op] \in {"Completing", "Completed", "Ended"}
-----------------------------------------------------------------------------
(***************************************************************************)
(* Start.                                                                  *)
(***************************************************************************)
Start(t) ==
    /\ At(t, "Start")
    /\ LET op == Top(t).op IN
       /\ Transition(op, "Created", "Started", "TransitionStarted")
       /\ Goto(t, Frame(IF HasParent(op) THEN "Attach" ELSE "OnStart", op))
    /\ UNCHANGED <<error_, tree, handedOver, fresh, history>>

\* AttachChild takes the lock of the parent, and looks at its state_ under it.
AttachChild(t) ==
    /\ At(t, "Attach")
    /\ LET op == Top(t).op
           p == Parent(op)
       IN /\ Free(p)
          /\ IF ~CompletingOrCompleted(p) /\ ~cancelRequested[p]
             THEN /\ childLock_' = [childLock_ EXCEPT ![p] = t]
                  /\ Goto(t, Frame("AttachPush", op))
                  /\ UNCHANGED refused
             ELSE /\ Goto(t, [Frame("OnStart", op) EXCEPT !.attached = FALSE])
                  /\ refused' = refused \cup {op}
                  /\ UNCHANGED childLock_
    /\ UNCHANGED <<word, error_, children_, handedOver, fresh, onStarted, early, asserts>>

AttachPush(t) ==
    /\ At(t, "AttachPush")
    /\ LET op == Top(t).op
           p == Parent(op)
       IN /\ children_' = [children_ EXCEPT ![p] = @ \cup {op}]
          /\ childLock_' = [childLock_ EXCEPT ![p] = NoThread]
          /\ Goto(t, Frame("OnStart", op))
    /\ UNCHANGED <<word, error_, handedOver, fresh, history, asserts>>

\* OnStart begins the first child.  A leaf completes itself, or leaves the work
\* to another thread.
OnStart(t) ==
    /\ At(t, "OnStart")
    /\ LET op == Top(t).op
           started == [Top(t) EXCEPT !.at = "StartReturns"]
       IN /\ onStarted' = onStarted \cup {op}
          /\ \/ /\ ~IsLeaf(op)
                /\ Call(t, started, Frame("Begin", Head(Steps[op])))
                /\ UNCHANGED handedOver
             \/ /\ IsLeaf(op)
                /\ \E e \in {"Success", "Failure"} :
                      Call(t, started, [Frame("TryComplete", op) EXCEPT !.err = e])
                /\ UNCHANGED handedOver
             \/ /\ IsLeaf(op)
                /\ Goto(t, started)
                /\ handedOver' = handedOver \cup {op}
    /\ UNCHANGED <<word, error_, tree, fresh, refused, early, asserts>>

\* The end of Start, where a refused attachment is an assert(false).
StartReturns(t) ==
    /\ At(t, "StartReturns")
    /\ asserts' = IF Top(t).attached THEN asserts ELSE asserts \cup {"attach"}
    /\ Return(t)
    /\ UNCHANGED <<word, error_, tree, handedOver, fresh, history>>
-----------------------------------------------------------------------------
(***************************************************************************)
(* The code that uses an operation: Begin, its continuation, the callback, *)
(* and what both do when it is their turn to end the operation.            *)
(***************************************************************************)
Begin(t) ==
    /\ At(t, "Begin")
    /\ Call(t, [Top(t) EXCEPT !.at = "Begun"], Frame("Start", Top(t).op))
    /\ UNCHANGED <<word, error_, tree, handedOver, fresh, history, asserts>>

Begun(t) ==
    /\ At(t, "Begun")
    /\ LET op == Top(t).op IN
       /\ Observe(op)
       /\ IF CompletedSynchronously(op) THEN Goto(t, Frame("Finish", op)) ELSE Return(t)
    /\ UNCHANGED <<lifecycle, cancelRequested, error_, tree, handedOver, fresh,
                   history, asserts>>

\* Mutants: the callback ends the operation in any case, or never does.
MutantCallbackAlwaysEnds(t) ==
    /\ At(t, "Callback")
    /\ Observe(Top(t).op)
    /\ Goto(t, Frame("Finish", Top(t).op))
    /\ UNCHANGED <<lifecycle, cancelRequested, error_, tree, handedOver, fresh,
                   history, asserts>>

MutantCallbackNeverEnds(t) ==
    /\ At(t, "Callback")
    /\ Return(t)
    /\ UNCHANGED <<word, error_, tree, handedOver, fresh, history, asserts>>

Callback(t) ==
    /\ At(t, "Callback")
    /\ LET op == Top(t).op IN
       /\ Observe(op)
       /\ IF CompletedSynchronously(op) THEN Return(t) ELSE Goto(t, Frame("Finish", op))
    /\ UNCHANGED <<lifecycle, cancelRequested, error_, tree, handedOver, fresh,
                   history, asserts>>

\* The child that its parent begins after op.
Successors(op) ==
    LET s == Steps[Parent(op)]
        i == CHOOSE j \in DOMAIN s : s[j] = op
    IN SubSeq(s, i + 1, Len(s))

\* Mutant: the return after a failure is missing, so the parent is completed and
\* begins the next child all the same.
MutantFinish(t) ==
    /\ At(t, "Finish")
    /\ LET op == Top(t).op
           next == Frame("Begin", Head(Successors(op)))
           over == [Frame("TryComplete", Parent(op)) EXCEPT !.err = error_[op]]
       IN /\ Transition(op, "Completed", "Ended", "TransitionEnded")
          /\ IF ~HasParent(op) THEN Return(t)
             ELSE IF Successors(op) = <<>> THEN Goto(t, over)
             ELSE IF error_[op] = "Success" THEN Goto(t, next) ELSE Call(t, next, over)
    /\ UNCHANGED <<error_, tree, handedOver, fresh, history>>

\* End, then begin the next child or complete the parent with the result.
Finish(t) ==
    /\ At(t, "Finish")
    /\ LET op == Top(t).op IN
       /\ Transition(op, "Completed", "Ended", "TransitionEnded")
       /\ IF ~HasParent(op) THEN Return(t)
          ELSE IF error_[op] = "Success" /\ Successors(op) # <<>>
          THEN Goto(t, Frame("Begin", Head(Successors(op))))
          ELSE Goto(t, [Frame("TryComplete", Parent(op)) EXCEPT !.err = error_[op]])
    /\ UNCHANGED <<error_, tree, handedOver, fresh, history>>

\* Another thread finishes the work of a leaf operation, well or badly.
WorkDone(t) ==
    /\ t = Worker /\ stack[t] = <<>>
    /\ \E op \in handedOver, e \in {"Success", "Failure"} :
          /\ handedOver' = handedOver \ {op}
          /\ stack' = [stack EXCEPT ![t] = <<[Frame("TryComplete", op) EXCEPT !.err = e]>>]
    /\ UNCHANGED <<word, error_, tree, fresh, history, asserts>>
-----------------------------------------------------------------------------
(***************************************************************************)
(* Completion.                                                             *)
(***************************************************************************)
TryComplete(t) ==
    /\ At(t, "TryComplete")
    /\ LET op == Top(t).op IN
       IF lifecycle[op] = "Started"
       THEN /\ lifecycle' = [lifecycle EXCEPT ![op] = "Completing"]
            /\ Goto(t, [Top(t) EXCEPT !.at = "FinishComplete"])
       ELSE Return(t) /\ UNCHANGED lifecycle
    /\ UNCHANGED <<observed, cancelRequested, error_, tree, handedOver, fresh,
                   history, asserts>>

\* Mutant: the error is not stored.
MutantFinishComplete(t) ==
    /\ At(t, "FinishComplete")
    /\ LET op == Top(t).op IN
       /\ Transition(op, "Completing", "Completed", "TransitionCompleted")
       /\ Call(t, Frame("Cleanup", op), Frame("Callback", op))
    /\ UNCHANGED <<error_, tree, handedOver, fresh, history>>

\* FinishComplete stores the error and calls the callback in state Completed.
FinishComplete(t) ==
    /\ At(t, "FinishComplete")
    /\ LET op == Top(t).op IN
       /\ error_' = [error_ EXCEPT ![op] = Top(t).err]
       /\ Transition(op, "Completing", "Completed", "TransitionCompleted")
       /\ Call(t, Frame("Cleanup", op), Frame("Callback", op))
    /\ UNCHANGED <<tree, handedOver, fresh, history>>

\* Mutant: Cleanup does not detach the operation from its parent.
MutantCleanup(t) ==
    /\ At(t, "Cleanup")
    /\ Free(Top(t).op)
    /\ children_' = [children_ EXCEPT ![Top(t).op] = {}]
    /\ Return(t)
    /\ UNCHANGED <<word, error_, childLock_, handedOver, fresh, history, asserts>>

Cleanup(t) ==
    /\ At(t, "Cleanup")
    /\ LET op == Top(t).op IN
       /\ Free(op)
       /\ children_' = [children_ EXCEPT ![op] = {}]
       /\ IF HasParent(op) THEN Goto(t, Frame("Detach", op)) ELSE Return(t)
    /\ UNCHANGED <<word, error_, childLock_, handedOver, fresh, history, asserts>>

DetachChild(t) ==
    /\ At(t, "Detach")
    /\ LET op == Top(t).op
           p == Parent(op)
       IN /\ Free(p)
          /\ children_' = [children_ EXCEPT ![p] = @ \ {op}]
    /\ Return(t)
    /\ UNCHANGED <<word, error_, childLock_, handedOver, fresh, history, asserts>>
-----------------------------------------------------------------------------
(***************************************************************************)
(* Cancel.                                                                 *)
(***************************************************************************)
\* A user cancels an operation it got hold of in OnStart or from Begin, or a
\* host of its own.  Only Cancel with skipCompleteOnCancel_ reads forceComplete.
CallCancel(t) ==
    /\ t \in fresh
    /\ \E op \in Targets \cap (onStarted \cup Host), force \in BOOLEAN :
          /\ force => op \in Skip
          /\ stack' = [stack EXCEPT ![t] = <<[Frame("Cancel", op) EXCEPT !.force = force]>>]
    /\ fresh' = fresh \ {t}
    /\ UNCHANGED <<word, error_, tree, handedOver, history, asserts>>

\* Only the first request goes on.
Cancel(t) ==
    /\ At(t, "Cancel")
    /\ LET op == Top(t).op IN
       IF cancelRequested[op]
       THEN Return(t) /\ UNCHANGED <<cancelRequested, early>>
       ELSE /\ cancelRequested' = [cancelRequested EXCEPT ![op] = TRUE]
            /\ early' = IF op \in onStarted \cup Host THEN early ELSE early \cup {op}
            /\ Goto(t, [Top(t) EXCEPT !.at = "CancelCollect"])
    /\ UNCHANGED <<lifecycle, observed, error_, tree, handedOver, fresh, onStarted,
                   refused, asserts>>

\* Mutant: the list is cleared before it is read.
MutantCancelCollect(t) ==
    /\ At(t, "CancelCollect")
    /\ LET op == Top(t).op IN
       /\ Free(op)
       /\ children_' = [children_ EXCEPT ![op] = {}]
       /\ Goto(t, [Top(t) EXCEPT !.at = "CancelChildren", !.kids = children_'[op]])
    /\ UNCHANGED <<word, error_, childLock_, handedOver, fresh, history, asserts>>

\* Take the children out of the list under the lock.
CancelCollect(t) ==
    /\ At(t, "CancelCollect")
    /\ LET op == Top(t).op IN
       /\ Free(op)
       /\ children_' = [children_ EXCEPT ![op] = {}]
       /\ Goto(t, [Top(t) EXCEPT !.at = "CancelChildren", !.kids = children_[op]])
    /\ UNCHANGED <<word, error_, childLock_, handedOver, fresh, history, asserts>>

CancelChild(t) ==
    /\ At(t, "CancelChildren")
    /\ \E kid \in Top(t).kids :
          Call(t, [Top(t) EXCEPT !.kids = @ \ {kid}], Frame("Cancel", kid))
    /\ UNCHANGED <<word, error_, tree, handedOver, fresh, history, asserts>>

\* Where Cancel is only a signal, OnCancel may react to it by completing the
\* operation, or leave that to the work that is going on.
CancelSignals(t) ==
    /\ At(t, "CancelChildren") /\ Top(t).kids = {}
    /\ LET op == Top(t).op IN
       /\ ~Top(t).force /\ op \in Skip
       /\ \/ Goto(t, [Frame("TryComplete", op) EXCEPT !.err = "OperationCanceled"])
          \/ Return(t)
    /\ UNCHANGED <<word, error_, tree, handedOver, fresh, history, asserts>>

\* Mutant: Cancel only signals.
MutantCancelCompletes(t) ==
    /\ At(t, "CancelChildren") /\ Top(t).kids = {}
    /\ Return(t)
    /\ UNCHANGED <<word, error_, tree, handedOver, fresh, history, asserts>>

CancelCompletes(t) ==
    /\ At(t, "CancelChildren") /\ Top(t).kids = {}
    /\ LET op == Top(t).op IN
       /\ Top(t).force \/ op \notin Skip
       /\ Goto(t, [Frame("TryComplete", op) EXCEPT !.err = "OperationCanceled"])
    /\ UNCHANGED <<word, error_, tree, handedOver, fresh, history, asserts>>
-----------------------------------------------------------------------------
\* The steps a thread takes without anything from outside.
Proceed(t) ==
    \/ Start(t) \/ AttachChild(t) \/ AttachPush(t) \/ OnStart(t) \/ StartReturns(t)
    \/ Begin(t) \/ Begun(t) \/ Callback(t) \/ Finish(t)
    \/ TryComplete(t) \/ FinishComplete(t) \/ Cleanup(t) \/ DetachChild(t)
    \/ Cancel(t) \/ CancelCollect(t) \/ CancelChild(t) \/ CancelSignals(t)
    \/ CancelCompletes(t)

\* Every thread has returned, and nobody is left to complete or cancel.
Quiescent == handedOver = {} /\ fresh = {} /\ \A t \in Thread : stack[t] = <<>>

Next ==
    \/ \E t \in Thread : Proceed(t) \/ WorkDone(t) \/ CallCancel(t)
    \/ Quiescent /\ UNCHANGED vars

Spec == Init /\ [][Next]_vars

\* Threads keep running.  Nobody has to cancel, and the work of a leaf operation
\* may take for ever.
FairSpec == Spec /\ \A t \in Thread : WF_vars(Proceed(t))
-----------------------------------------------------------------------------
\* Some thread is at one of these places of operation op.
Someone(at, op) ==
    \E t \in Thread : \E i \in DOMAIN stack[t] :
        stack[t][i].op = op /\ stack[t][i].at \in at

(***************************************************************************)
(* However starts, completions and cancellations interleave, no operation  *)
(* is started, completed or ended twice, or ended before it has completed: *)
(* the asserts of the Transition functions hold.  Both Begin and the       *)
(* callback ask CompletedSynchronously, and exactly one calls End.         *)
(***************************************************************************)
TransitionAssertsHold ==
    asserts \cap {"TransitionStarted", "TransitionCompleted", "TransitionEnded"} = {}

(***************************************************************************)
(* The comment in AttachChild: "either we see that this is canceled, or    *)
(* Cancel sees the child attached".  When Cancel of an operation has dealt *)
(* with the children, before it completes the operation itself, every      *)
(* attached child that has not begun to complete was asked to cancel.      *)
(***************************************************************************)
CancelReachesChildren ==
    \A p, c \in Op :
        /\ IsChild(c, p)
        /\ cancelRequested[p] /\ ~Someone({"CancelCollect", "CancelChildren"}, p)
        /\ lifecycle[c] = "Started" /\ c \notin refused
        /\ ~Someone({"Attach", "AttachPush"}, c)
        => cancelRequested[c]

(***************************************************************************)
(* A parent refuses a child, and Start runs into its assert(false), only   *)
(* after a Cancel of the parent: no completion, by a child before it or by *)
(* a thread of its own, is ever followed by the begin of another child.    *)
(* After a Cancel it does happen, and the child runs on without being      *)
(* cancelled ("do not handle this for now", AsyncOperation.cpp:72).        *)
(***************************************************************************)
RefusedOnlyAfterCancel ==
    /\ \A c \in refused : cancelRequested[Parent(c)]
    /\ "attach" \in asserts => refused # {}

(***************************************************************************)
(* The results an operation reports are those of its children: it succeeds *)
(* only if all the operations it begins were ended with success, and it is *)
(* cancelled only if it, or the child it reports on, was.                  *)
(***************************************************************************)
ResultsPropagate ==
    \A p \in Op : CompletingOrCompleted(p) /\ lifecycle[p] # "Completing" =>
        /\ error_[p] = "Success" => \A c \in Op : IsChild(c, p) =>
                                        lifecycle[c] = "Ended" /\ error_[c] = "Success"
        /\ error_[p] = "OperationCanceled" =>
              \/ cancelRequested[p]
              \/ \E c \in Op : IsChild(c, p) /\ error_[c] = "OperationCanceled"

(***************************************************************************)
(* The list of children holds no operation that is over, and a parent that *)
(* is over keeps no list: whoever completes an operation is still on the   *)
(* way to Cleanup and DetachChild as long as there is something to remove. *)
(***************************************************************************)
ListIsCleaned ==
    \A p \in Op : \A c \in children_[p] :
        /\ lifecycle[c] \in {"Completed", "Ended"} => Someone({"Cleanup", "Detach"}, c)
        /\ lifecycle[p] \in {"Completed", "Ended"} => Someone({"Cleanup"}, p)

(***************************************************************************)
(* If the work that is left to other threads always comes to an end, every *)
(* operation that was started is ended, by the code that began it or by    *)
(* its callback, whoever completes or cancels it: a continuation is never  *)
(* lost.                                                                   *)
(***************************************************************************)
StartedIsEnded ==
    []<>(handedOver = {}) =>
        \A op \in Op : lifecycle[op] = "Started" ~> lifecycle[op] = "Ended"

(***************************************************************************)
(* A request to cancel an operation for which cancelling is more than a    *)
(* signal completes it, even if its work never comes to an end.            *)
(***************************************************************************)
CancelledCompletes ==
    \A op \in Op \ (Skip \cup Host) :
        cancelRequested[op] ~> lifecycle[op] \in {"Completed", "Ended"}

(***************************************************************************)
(* The comment at AsyncOperation.cpp:54-55: "ALWAYS Call OnStart() before  *)
(* attempting to cancel the operation as it is a contract many components  *)
(* depend on".                                                             *)
(***************************************************************************)
OnStartBeforeCancel == early = {}
=============================================================================
