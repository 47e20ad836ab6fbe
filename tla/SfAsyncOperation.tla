-------------------------- MODULE SfAsyncOperation --------------------------
(***************************************************************************)
(* sf::AsyncOperation, the second implementation of asynchronous           *)
(* operations (libs/fabric_ext2): one lock and one child per operation,    *)
(* and a Cancel that takes the callback away instead of completing the     *)
(* operation.  An operation writes child_ of its parent without the lock   *)
(* of the parent, so what happens to child_ between the steps of Cancel,   *)
(* which does hold that lock, is where the interleavings are.              *)
(*                                                                         *)
(* A thread has a stack of frames, the innermost first.  The critical      *)
(* sections are one step each, except where another thread can come in     *)
(* between: at an access to child_ and at the call of Cancel of the child. *)
(* The bodies of OnStart and of the callbacks are those of the tests in    *)
(* tests/fabric_ext2_tests, and of operations that begin such operations.  *)
(***************************************************************************)
EXTENDS Naturals, Sequences, SequencesExt

CONSTANTS
    Op,          \* the operations
    Root,        \* the AsyncOperationRoot
    Steps,       \* the children an operation begins, each after the last is over
    Targets,     \* operations that a thread of the user may cancel
    User,        \* the thread that starts Root and then its children
    Worker,      \* the thread on which asynchronous operations complete
    Cancellers,  \* threads that call Cancel once
    Nobody       \* neither an operation nor a thread

Thread == {User, Worker} \cup Cancellers
IsChild(c, p) == \E i \in DOMAIN Steps[p] : Steps[p][i] = c
Parent(c) == CHOOSE p \in Op : IsChild(c, p)
IsLeaf(op) == Steps[op] = <<>>
Children == {c \in Op : \E p \in Op : IsChild(c, p)}

ASSUME OperationsAssumption ==
    /\ Root \in Op \ Children /\ Targets \subseteq Op /\ Nobody \notin Op
    /\ Steps \in [Op -> Seq(Op)] /\ Steps[Root] # <<>>
    /\ Children = Op \ {Root}
    /\ \A c, p, q \in Op : IsChild(c, p) /\ IsChild(c, q) => p = q
    /\ \A p \in Op : \A i, j \in DOMAIN Steps[p] : Steps[p][i] = Steps[p][j] => i = j

ASSUME ThreadsAssumption ==
    User # Worker /\ {User, Worker} \cap Cancellers = {} /\ Nobody \notin Thread

VARIABLES
    state_, child_, mtx_, ec_, completedSynchronously_, \* the members
    parent_,     \* operations that still have their parent
    stack,       \* the frames of each thread
    handedOver,  \* operations that another thread completes
    fresh,       \* cancellers that have not called Cancel yet
    cancelled,   \* operations on which a user has called Cancel
    callbacks,   \* how often the callback of an operation was called
    results,     \* what End returned to the callback
    asserts      \* the asserts that were false

members == <<state_, child_, mtx_, ec_, completedSynchronously_, parent_>>
user == <<handedOver, fresh, cancelled>>
vars == <<members, stack, user, callbacks, results, asserts>>

Frame(at, op) == [at |-> at, op |-> op, ec |-> "ok"]

Init ==
    /\ state_ = [op \in Op |-> "idle"]
    /\ child_ = [op \in Op |-> Nobody]
    /\ mtx_ = [op \in Op |-> Nobody]
    /\ ec_ = [op \in Op |-> "ok"]
    /\ completedSynchronously_ = [op \in Op |-> FALSE]
    /\ parent_ = Children
    /\ stack = [t \in Thread |-> IF t = User THEN <<Frame("Start", Root)>> ELSE <<>>]
    /\ handedOver = {}
    /\ fresh = Cancellers
    /\ cancelled = {}
    /\ callbacks = [op \in Op |-> 0]
    /\ results = [op \in Op |-> "none"]
    /\ asserts = {}
-----------------------------------------------------------------------------
At(t, at) == stack[t] # <<>> /\ Head(stack[t]).at = at
Top(t) == Head(stack[t])
Goto(t, frame) == stack' = [stack EXCEPT ![t] = <<frame>> \o Tail(@)]
Call(t, frame, callee) == stack' = [stack EXCEPT ![t] = <<callee, frame>> \o Tail(@)]
Return(t) == stack' = [stack EXCEPT ![t] = Tail(@)]

Free(op) == mtx_[op] = Nobody
Check(holds, name) == asserts' = IF holds THEN asserts ELSE asserts \cup {name}
-----------------------------------------------------------------------------
(***************************************************************************)
(* Start.                                                                  *)
(***************************************************************************)
Start(t) ==
    /\ At(t, "Start")
    /\ LET op == Top(t).op IN
       /\ Free(op)
       /\ state_' = [state_ EXCEPT ![op] = "started"]
       /\ IF op \in parent_
          THEN /\ Check(state_[op] = "idle" /\ child_[Parent(op)] = Nobody, "attach")
               /\ child_' = [child_ EXCEPT ![Parent(op)] = op]
          ELSE Check(state_[op] = "idle", "start") /\ UNCHANGED child_
       /\ Goto(t, Frame("OnStart", op))
    /\ UNCHANGED <<mtx_, ec_, completedSynchronously_, parent_, user, callbacks, results>>

\* A root does nothing, an operation with children begins the first one, and
\* the others complete at once or in another thread.
OnStart(t) ==
    /\ At(t, "OnStart")
    /\ LET op == Top(t).op
           started == Frame("StartReturns", op)
       IN \/ /\ op = Root
             /\ Goto(t, started)
             /\ UNCHANGED handedOver
          \/ /\ op # Root /\ ~IsLeaf(op)
             /\ Call(t, started, Frame("Start", Head(Steps[op])))
             /\ UNCHANGED handedOver
          \/ /\ IsLeaf(op)
             /\ \E ec \in {"ok", "failure"} :
                   Call(t, started, [Frame("Complete", op) EXCEPT !.ec = ec])
             /\ UNCHANGED handedOver
          \/ /\ IsLeaf(op)
             /\ Goto(t, started)
             /\ handedOver' = handedOver \cup {op}
    /\ UNCHANGED <<members, fresh, cancelled, callbacks, results, asserts>>

StartReturns(t) ==
    /\ At(t, "StartReturns")
    /\ LET op == Top(t).op IN
       /\ Free(op)
       /\ completedSynchronously_' =
             [completedSynchronously_ EXCEPT ![op] = state_[op] = "completed"]
    /\ Return(t)
    /\ UNCHANGED <<state_, child_, mtx_, ec_, parent_, user, callbacks, results, asserts>>
-----------------------------------------------------------------------------
(***************************************************************************)
(* Complete.                                                               *)
(***************************************************************************)
\* A slip: a cancelled operation is completed as well.
MutantComplete(t) ==
    /\ At(t, "Complete")
    /\ LET op == Top(t).op IN
       /\ Free(op)
       /\ mtx_' = [mtx_ EXCEPT ![op] = t]
       /\ ec_' = [ec_ EXCEPT ![op] = Top(t).ec]
       /\ Goto(t, [Top(t) EXCEPT !.at = "Completed"])
    /\ UNCHANGED <<state_, child_, completedSynchronously_, parent_, user, callbacks,
                   results, asserts>>

Complete(t) ==
    /\ At(t, "Complete")
    /\ LET op == Top(t).op IN
       /\ Free(op)
       /\ \/ /\ state_[op] = "started"
             /\ mtx_' = [mtx_ EXCEPT ![op] = t]
             /\ ec_' = [ec_ EXCEPT ![op] = Top(t).ec]
             /\ Check(child_[op] = Nobody, "child not finished")
             /\ Goto(t, [Top(t) EXCEPT !.at = "Completed"])
          \/ /\ state_[op] \in {"cancelling", "cancelled"}
             /\ ec_' = [ec_ EXCEPT ![op] = IF @ = "ok" THEN "canceled" ELSE @]
             /\ Return(t)
             /\ UNCHANGED <<mtx_, asserts>>
          \/ /\ state_[op] \in {"idle", "completed"}
             /\ Check(FALSE, "complete twice")
             /\ Return(t)
             /\ UNCHANGED <<mtx_, ec_>>
    /\ UNCHANGED <<state_, child_, completedSynchronously_, parent_, user, callbacks, results>>

\* DetachFromParent, in the parts of it that change something.
Detach(op) ==
    /\ child_' = IF op \in parent_ THEN [child_ EXCEPT ![Parent(op)] = Nobody] ELSE child_
    /\ parent_' = parent_ \ {op}

\* A slip: the operation is not detached.
MutantCompleted(t) ==
    /\ At(t, "Completed")
    /\ LET op == Top(t).op IN
       /\ state_' = [state_ EXCEPT ![op] = "completed"]
       /\ mtx_' = [mtx_ EXCEPT ![op] = Nobody]
       /\ Goto(t, Frame("Callback", op))
    /\ UNCHANGED <<child_, ec_, completedSynchronously_, parent_, user, callbacks,
                   results, asserts>>

\* Detach from the parent, then complete and release the lock: the callback is
\* called without it.
Completed(t) ==
    /\ At(t, "Completed")
    /\ LET op == Top(t).op IN
       /\ Detach(op)
       /\ state_' = [state_ EXCEPT ![op] = "completed"]
       /\ mtx_' = [mtx_ EXCEPT ![op] = Nobody]
       /\ Goto(t, Frame("Callback", op))
    /\ UNCHANGED <<ec_, completedSynchronously_, user, callbacks, results, asserts>>

\* What End returns.
End(op) ==
    CASE state_[op] \in {"idle", "cancelling"} -> "not supported"
      [] state_[op] = "started" -> "in progress"
      [] state_[op] = "completed" -> ec_[op]
      [] OTHER -> "canceled"

\* The children of the parent that come after op.
Successors(op) ==
    LET s == Steps[Parent(op)]
        i == CHOOSE j \in DOMAIN s : s[j] = op
    IN SubSeq(s, i + 1, Len(s))

\* A slip: the callback does not look at what End returns.
MutantCallbackSucceeds(t) ==
    /\ At(t, "Callback")
    /\ LET op == Top(t).op
           p == Parent(op)
       IN /\ Free(op)
          /\ callbacks' = [callbacks EXCEPT ![op] = @ + 1]
          /\ results' = [results EXCEPT ![op] = End(op)]
          /\ IF p = Root THEN Return(t)
             ELSE IF Successors(op) # <<>>
             THEN Goto(t, Frame("Start", Head(Successors(op))))
             ELSE Goto(t, Frame("Complete", p))
    /\ UNCHANGED <<members, user, asserts>>

\* A slip: the callback forgets the parent when the child failed.
MutantCallbackForgets(t) ==
    /\ At(t, "Callback")
    /\ LET op == Top(t).op
           p == Parent(op)
       IN /\ Free(op)
          /\ callbacks' = [callbacks EXCEPT ![op] = @ + 1]
          /\ results' = [results EXCEPT ![op] = End(op)]
          /\ IF p = Root \/ End(op) # "ok" THEN Return(t)
             ELSE IF Successors(op) # <<>>
             THEN Goto(t, Frame("Start", Head(Successors(op))))
             ELSE Goto(t, Frame("Complete", p))
    /\ UNCHANGED <<members, user, asserts>>

\* The callback ends the operation.  For a child of another operation it begins
\* the next child or completes the parent; the user finds out from IsCompleted.
Callback(t) ==
    /\ At(t, "Callback")
    /\ LET op == Top(t).op
           p == Parent(op)
       IN /\ Free(op)
          /\ callbacks' = [callbacks EXCEPT ![op] = @ + 1]
          /\ results' = [results EXCEPT ![op] = End(op)]
          /\ IF p = Root THEN Return(t)
             ELSE IF End(op) = "ok" /\ Successors(op) # <<>>
             THEN Goto(t, Frame("Start", Head(Successors(op))))
             ELSE Goto(t, [Frame("Complete", p) EXCEPT !.ec = End(op)])
    /\ UNCHANGED <<members, user, asserts>>

\* Another thread completes an operation.
WorkDone(t) ==
    /\ t = Worker /\ stack[t] = <<>>
    /\ \E op \in handedOver, ec \in {"ok", "failure"} :
          /\ handedOver' = handedOver \ {op}
          /\ stack' = [stack EXCEPT ![t] = <<[Frame("Complete", op) EXCEPT !.ec = ec]>>]
    /\ UNCHANGED <<members, fresh, cancelled, callbacks, results, asserts>>
-----------------------------------------------------------------------------
(***************************************************************************)
(* Cancel.                                                                 *)
(***************************************************************************)
CallCancel(t) ==
    /\ t \in fresh
    /\ \E op \in Targets \ cancelled :
          /\ state_[op] # "idle"
          /\ cancelled' = cancelled \cup {op}
          /\ stack' = [stack EXCEPT ![t] = <<Frame("Cancel", op)>>]
    /\ fresh' = fresh \ {t}
    /\ UNCHANGED <<members, handedOver, callbacks, results, asserts>>

\* The first critical section, up to the call of Cancel of the child, which is
\* made with the lock held.
Cancel(t) ==
    /\ At(t, "Cancel")
    /\ LET op == Top(t).op IN
       /\ Free(op)
       /\ \/ /\ state_[op] = "started" /\ child_[op] # Nobody
             /\ mtx_' = [mtx_ EXCEPT ![op] = t]
             /\ Call(t, Frame("CancelledChild", op), Frame("Cancel", child_[op]))
             /\ UNCHANGED <<state_, asserts>>
          \/ /\ state_[op] = "started" /\ child_[op] = Nobody
             /\ state_' = [state_ EXCEPT ![op] = "cancelling"]
             /\ Goto(t, Frame("OnCancel", op))
             /\ UNCHANGED <<mtx_, asserts>>
          \/ /\ state_[op] \in {"idle", "cancelling", "cancelled"}
             /\ Check(FALSE, "cancel twice")
             /\ Return(t)
             /\ UNCHANGED <<state_, mtx_>>
          \/ /\ state_[op] = "completed"
             /\ Check(child_[op] = Nobody, "child not finished")
             /\ Return(t)
             /\ UNCHANGED <<state_, mtx_>>
    /\ UNCHANGED <<child_, ec_, completedSynchronously_, parent_, user, callbacks, results>>

CancelledChild(t) ==
    /\ At(t, "CancelledChild")
    /\ LET op == Top(t).op IN
       /\ child_' = [child_ EXCEPT ![op] = Nobody]
       /\ state_' = [state_ EXCEPT ![op] = "cancelling"]
       /\ mtx_' = [mtx_ EXCEPT ![op] = Nobody]
       /\ Goto(t, Frame("OnCancel", op))
    /\ UNCHANGED <<ec_, completedSynchronously_, parent_, user, callbacks, results, asserts>>

\* OnCancel does nothing, or completes the operation as in the older library.
OnCancel(t) ==
    /\ At(t, "OnCancel")
    /\ LET cancelling == [Top(t) EXCEPT !.at = "Cancelling"] IN
       \/ Goto(t, cancelling)
       \/ /\ IsLeaf(Top(t).op)
          /\ Call(t, cancelling, [Frame("Complete", Top(t).op) EXCEPT !.ec = "canceled"])
    /\ UNCHANGED <<members, user, callbacks, results, asserts>>

\* The second critical section.
Cancelling(t) ==
    /\ At(t, "Cancelling")
    /\ LET op == Top(t).op IN
       /\ Free(op)
       /\ Check(state_[op] \in {"cancelling", "completed"}, "cancel")
       /\ state_' = IF state_[op] = "cancelling"
                    THEN [state_ EXCEPT ![op] = "cancelled"] ELSE state_
       /\ Goto(t, Frame("CancelDetach", op))
    /\ UNCHANGED <<child_, mtx_, ec_, completedSynchronously_, parent_, user, callbacks, results>>

CancelDetach(t) ==
    /\ At(t, "CancelDetach")
    /\ Detach(Top(t).op)
    /\ Return(t)
    /\ UNCHANGED <<state_, mtx_, ec_, completedSynchronously_, user, callbacks, results, asserts>>
-----------------------------------------------------------------------------
\* Some thread is in one of these places of operation op.
Someone(places, op) ==
    \E t \in Thread : \E i \in DOMAIN stack[t] :
        stack[t][i].op = op /\ stack[t][i].at \in places
InCancel == {"Cancel", "CancelledChild", "OnCancel", "Cancelling", "CancelDetach"}

\* The user begins the children of the root one after the other: the next one
\* when IsCompleted or IsCancelled answers yes for the last one and Cancel has
\* returned.
UserBegins ==
    /\ stack[User] = <<>>
    /\ \E i \in DOMAIN Steps[Root] :
          /\ state_[Steps[Root][i]] = "idle"
          /\ \A j \in 1..(i - 1) :
                /\ Free(Steps[Root][j])
                /\ state_[Steps[Root][j]] \in {"cancelling", "cancelled", "completed"}
                /\ ~Someone(InCancel, Steps[Root][j]) /\ ~Someone(InCancel, Root)
          /\ stack' = [stack EXCEPT ![User] = <<Frame("Start", Steps[Root][i])>>]
    /\ UNCHANGED <<members, user, callbacks, results, asserts>>

\* A hasty user does not wait for that, as nothing in the library tells when
\* another thread has returned from Cancel.
HastyBegins ==
    /\ stack[User] = <<>>
    /\ \E i \in DOMAIN Steps[Root] :
          /\ state_[Steps[Root][i]] = "idle"
          /\ \A j \in 1..(i - 1) :
                /\ Free(Steps[Root][j])
                /\ state_[Steps[Root][j]] \in {"cancelling", "cancelled", "completed"}
          /\ stack' = [stack EXCEPT ![User] = <<Frame("Start", Steps[Root][i])>>]
    /\ UNCHANGED <<members, user, callbacks, results, asserts>>

Proceed(t) ==
    \/ Start(t) \/ OnStart(t) \/ StartReturns(t)
    \/ Complete(t) \/ Completed(t) \/ Callback(t)
    \/ Cancel(t) \/ CancelledChild(t) \/ OnCancel(t) \/ Cancelling(t) \/ CancelDetach(t)

\* Nobody has anything left to do.
Quiescent ==
    /\ handedOver = {} /\ \A t \in Thread : stack[t] = <<>>
    /\ \A i \in DOMAIN Steps[Root] : state_[Steps[Root][i]] # "idle"

Next ==
    \/ \E t \in Thread : Proceed(t) \/ WorkDone(t) \/ CallCancel(t)
    \/ UserBegins
    \/ Quiescent /\ UNCHANGED vars

Spec == Init /\ [][Next]_vars

\* The same with a hasty user.
HastyNext == Next \/ HastyBegins
HastySpec == Init /\ [][HastyNext]_vars

\* Threads keep running and work comes to an end; the user goes on.
FairSpec == Spec /\ WF_vars(UserBegins) /\ WF_vars(WorkDone(Worker))
                 /\ \A t \in Thread : WF_vars(Proceed(t))
-----------------------------------------------------------------------------
(***************************************************************************)
(* Complete and Cancel exclude each other: the callback is called at most  *)
(* once, never for an operation that was cancelled first, and for one that *)
(* completed its turn comes or has come.                                   *)
(***************************************************************************)
CallbackExactlyOnce ==
    \A op \in Children :
        /\ callbacks[op] <= 1
        /\ callbacks[op] = 1 => state_[op] = "completed"
        /\ state_[op] = "completed" => callbacks[op] = 1 \/ Someone({"Callback"}, op)

(***************************************************************************)
(* An operation succeeds only if all its children completed with success:  *)
(* a cancelled child is never taken for a completed one.                   *)
(***************************************************************************)
ResultsPropagate ==
    \A op \in Children :
        state_[op] = "completed" /\ ec_[op] = "ok" =>
            \A c \in Op : IsChild(c, op) => state_[c] = "completed" /\ results[c] = "ok"

(***************************************************************************)
(* The link from the parent: an operation that is over has been taken out  *)
(* of child_ when its callback is called and when its Cancel returns, and  *)
(* a running one is still there as long as its parent runs, although       *)
(* children write child_ without the lock and without looking what is in   *)
(* it (the TODO in DetachFromParent).  AttachChild finds no other child in *)
(* it, and Complete none ("child must be detached and finished"): the only *)
(* assert that can fail is that of CancelledOnce.  For a user who waits    *)
(* for Cancel; LastChildReleased is about one who does not.                *)
(***************************************************************************)
LinkedWhileRunning ==
    /\ asserts \subseteq {"cancel twice"}
    /\ \A c \in Children :
        /\ child_[Parent(c)] = c =>
              state_[c] \in {"started", "cancelling"} \/ Someone({"CancelDetach"}, c)
        /\ /\ state_[c] = "started" /\ state_[Parent(c)] = "started"
           /\ ~Someone({"CancelledChild"}, Parent(c))
           => child_[Parent(c)] = c

(***************************************************************************)
(* The comment in AsyncOperation.hpp:45: every operation that was started  *)
(* is cancelled or completed in the end, and so are those it begins.       *)
(***************************************************************************)
FinallyOver ==
    \A op \in Children : state_[op] = "started" ~> state_[op] \in {"cancelled", "completed"}

(***************************************************************************)
(* Cancel asserts that it was not called before (AsyncOperation.cpp:65),   *)
(* with the comment "One should only call cancel once"; here the user      *)
(* calls it at most once for each operation.                               *)
(***************************************************************************)
CancelledOnce == "cancel twice" \notin asserts

(***************************************************************************)
(* AttachChild asserts that the parent has no child any more, "operation   *)
(* can only have one child at a time. so last child must be released"      *)
(* (AsyncOperation.cpp:165-166): for a user who takes an operation for     *)
(* over when IsCancelled says so.  Where it does not hold, the last child  *)
(* cuts the link of the next one when it detaches (the TODO at :146).      *)
(***************************************************************************)
LastChildReleased == "attach" \notin asserts
=============================================================================
