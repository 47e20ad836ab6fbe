------------------------- MODULE AsyncOperationState -------------------------
(***************************************************************************)
(* Common::AsyncOperationState: one atomic word of lifecycle and flag      *)
(* bits, changed only through compare_mask_swap, together with the way     *)
(* Common::AsyncOperation and the code that uses it call its member        *)
(* functions.                                                              *)
(*                                                                         *)
(* compare_mask_swap is a loop around one load and one compare-exchange,   *)
(* and each atomic access is a step of its own here, so every thread can   *)
(* hold a value of the word that is out of date.  A spurious failure of    *)
(* compare_exchange_weak reloads a value that may be the same: when it is, *)
(* the step is a stutter.                                                  *)
(*                                                                         *)
(* The threads are the ones an operation can meet: the starter, which may  *)
(* complete the operation inside OnStart and asks CompletedSynchronously   *)
(* when Start returns; completers, which call TryComplete; cancellers,     *)
(* which call Cancel; pollers, which ask IsCompleted at any time.          *)
(***************************************************************************)
CONSTANTS
    Starter,    \* the thread that creates and starts the operation
    Completers, \* threads on which work of the operation finishes
    Cancellers, \* threads that cancel it, each as often as it likes
    Pollers     \* threads that ask IsCompleted, each as often as it likes

ASSUME ThreadsAssumption ==
    /\ Starter \notin Completers \cup Cancellers \cup Pollers
    /\ Completers \cap Cancellers = {}
    /\ Completers \cap Pollers = {}
    /\ Cancellers \cap Pollers = {}

Thread == {Starter} \cup Completers \cup Cancellers \cup Pollers

LifecycleMask == {"Created", "Started", "Completing", "Completed", "Ended"}
Bits == LifecycleMask \cup {"ObservedBeforeComplete", "CancelRequested"}

\* The calls of compare_mask_swap: ObserveState makes two.
Calls == {"TransitionStarted", "TryTransitionCompleting",
          "TransitionCompleted", "TransitionEnded", "ObserveStarted",
          "ObserveCompleting", "TryMarkCancelRequested"}

Mask(c) ==
    IF c = "TryMarkCancelRequested" THEN {"CancelRequested"} ELSE LifecycleMask

Expected(c) ==
    CASE c = "TransitionStarted" -> {"Created"}
      [] c \in {"TryTransitionCompleting", "ObserveStarted"} -> {"Started"}
      [] c \in {"TransitionCompleted", "ObserveCompleting"} -> {"Completing"}
      [] c = "TransitionEnded" -> {"Completed"}
      [] OTHER -> {} \* TryMarkCancelRequested

VARIABLES
    operationState_, \* the set of bits that are 1
    call,            \* the call a thread is in, "idle" before and "done" after
    desired,         \* its argument desired
    check,           \* its local copy of the word, Unread before the load
    role,            \* on whose behalf it asks ObserveState and calls End
    endedBy,         \* the role whose call of End succeeded
    assertFailed     \* an assert of AsyncOperationState.cpp was false

vars == <<operationState_, call, desired, check, role, endedBy, assertFailed>>

\* The word always has a lifecycle bit, so no load returns the empty set.
Unread == {}

Init ==
    /\ operationState_ = {"Created"}
    /\ call = [t \in Thread |-> IF t = Starter THEN "TransitionStarted" ELSE "idle"]
    /\ desired = [t \in Thread |-> IF t = Starter THEN {"Started"} ELSE {}]
    /\ check = [t \in Thread |-> Unread]
    /\ role = [t \in Thread |-> IF t = Starter THEN "starter"
                              ELSE IF t \in Pollers THEN "poller" ELSE "none"]
    /\ endedBy = "nobody"
    /\ assertFailed = FALSE
-----------------------------------------------------------------------------
(***************************************************************************)
(* compare_mask_swap.                                                      *)
(***************************************************************************)
Invoke(t, c, d) ==
    /\ call' = [call EXCEPT ![t] = c]
    /\ desired' = [desired EXCEPT ![t] = d]
    /\ check' = [check EXCEPT ![t] = Unread]

Matches(t) == check[t] \cap Mask(call[t]) = Expected(call[t])

Load(t) ==
    /\ call[t] \in Calls
    /\ check[t] = Unread
    /\ check' = [check EXCEPT ![t] = operationState_]
    /\ UNCHANGED <<operationState_, call, desired, role, endedBy, assertFailed>>

\* The compare-exchange fails and hands back the word as it is now.
Retry(t) ==
    /\ call[t] \in Calls
    /\ check[t] # Unread
    /\ Matches(t)
    /\ check[t] # operationState_
    /\ check' = [check EXCEPT ![t] = operationState_]
    /\ UNCHANGED <<operationState_, call, desired, role, endedBy, assertFailed>>

\* Mutant: without "check & ~mask" every swap clears the two flags.
MutantUpdateClearsFlags(t) == desired[t]

\* The value the compare-exchange of t writes.
Update(t) == desired[t] \cup (check[t] \ Mask(call[t]))

\* Mutant: a plain store in place of the compare-exchange.
MutantSwappedStale(t, c) ==
    /\ call[t] = c
    /\ check[t] # Unread
    /\ Matches(t)
    /\ operationState_' = Update(t)

\* compare_mask_swap returns true in call c of thread t.
Swapped(t, c) ==
    /\ call[t] = c
    /\ check[t] # Unread
    /\ Matches(t)
    /\ check[t] = operationState_
    /\ operationState_' = Update(t)

\* It returns false, with the word it found in desired.
Refused(t, c) ==
    /\ call[t] = c
    /\ check[t] # Unread
    /\ ~Matches(t)
    /\ UNCHANGED operationState_

\* A Transition function asserts that its compare_mask_swap returned true; a
\* build without assertions goes on in any case.
Transition(t, c) ==
    /\ call[t] = c
    /\ check[t] # Unread
    /\ Matches(t) => check[t] = operationState_
    /\ operationState_' = IF Matches(t) THEN Update(t) ELSE operationState_
    /\ assertFailed' = (assertFailed \/ ~Matches(t))
-----------------------------------------------------------------------------
(***************************************************************************)
(* The calls of the threads.                                               *)
(***************************************************************************)
Observation == {"Started", "ObservedBeforeComplete"}

\* Thread t has no further call to make.  A poller or a canceller may come back.
Leave(t) ==
    /\ Invoke(t, IF t \in Pollers \cup Cancellers THEN "idle" ELSE "done", {})
    /\ role' = IF t \in Cancellers THEN [role EXCEPT ![t] = "none"] ELSE role

\* Start is about to return to the starter, which asks CompletedSynchronously.
AskAsStarter(t) ==
    /\ Invoke(t, "ObserveStarted", Observation)
    /\ role' = [role EXCEPT ![t] = "starter"]

\* Mutant: Begin forgets to ask CompletedSynchronously after an OnStart that
\* completed the operation.
MutantAttemptOver(t) == Leave(t)

\* The completion attempt of t is over, callback included: only the starter,
\* which made it inside OnStart, has something left to do.
AttemptOver(t) == IF t = Starter THEN AskAsStarter(t) ELSE Leave(t)

\* Start: OnStart completes the operation itself or leaves that to others.
TransitionStarted(t) ==
    /\ Transition(t, "TransitionStarted")
    /\ \/ Invoke(t, "TryTransitionCompleting", {"Completing"}) /\ UNCHANGED role
       \/ AskAsStarter(t)
    /\ UNCHANGED endedBy

\* Other threads learn of the operation from OnStart, or from Begin.
Arrive(t) ==
    /\ call[t] = "idle"
    /\ "Created" \notin operationState_
    /\ \/ t \in Completers /\ Invoke(t, "TryTransitionCompleting", {"Completing"})
       \/ t \in Cancellers /\ Invoke(t, "TryMarkCancelRequested", {"CancelRequested"})
       \/ t \in Pollers /\ Invoke(t, "ObserveStarted", Observation)
    /\ UNCHANGED <<operationState_, role, endedBy, assertFailed>>

\* TryStartComplete succeeds: FinishComplete follows.
StartCompleteWon(t) ==
    /\ Swapped(t, "TryTransitionCompleting")
    /\ Invoke(t, "TransitionCompleted", {"Completed"})
    /\ UNCHANGED <<role, endedBy, assertFailed>>

StartCompleteLost(t) ==
    /\ Refused(t, "TryTransitionCompleting")
    /\ AttemptOver(t)
    /\ UNCHANGED <<endedBy, assertFailed>>

\* FinishComplete: the callback runs and asks CompletedSynchronously.
TransitionCompleted(t) ==
    /\ Transition(t, "TransitionCompleted")
    /\ Invoke(t, "ObserveStarted", Observation)
    /\ role' = [role EXCEPT ![t] = "callback"]
    /\ UNCHANGED endedBy

\* Cancel goes on to complete the operation only for the first request.
MarkedCancelRequested(t) ==
    /\ Swapped(t, "TryMarkCancelRequested")
    /\ Invoke(t, "TryTransitionCompleting", {"Completing"})
    /\ UNCHANGED <<role, endedBy, assertFailed>>

AlreadyCancelRequested(t) ==
    /\ Refused(t, "TryMarkCancelRequested")
    /\ Leave(t)
    /\ UNCHANGED <<endedBy, assertFailed>>

\* Mutant: Begin ends whatever CompletedSynchronously says.
MutantEndsOn(r, value) ==
    r = "starter" \/ (r = "callback" /\ "ObservedBeforeComplete" \in value)

\* CompletedSynchronously is "the bit is 0 in what ObserveState returns".
\* A starter that hears yes calls End, and so does a callback that hears no.
EndsOn(r, value) ==
    \/ r = "starter" /\ "ObservedBeforeComplete" \notin value
    \/ r = "callback" /\ "ObservedBeforeComplete" \in value

\* ObserveState returns value to thread t.
Answer(t, value) ==
    IF EndsOn(role[t], value)
    THEN Invoke(t, "TransitionEnded", {"Ended"}) /\ UNCHANGED role
    ELSE IF role[t] = "callback" THEN AttemptOver(t) ELSE Leave(t)

\* One of the two compare_mask_swap of ObserveState set the bit.
ObservedInTime(t) ==
    /\ \E c \in {"ObserveStarted", "ObserveCompleting"} : Swapped(t, c)
    /\ Answer(t, desired[t])
    /\ UNCHANGED <<endedBy, assertFailed>>

\* The first one met Completing: try again, expecting that.
ObserveAgain(t) ==
    /\ Refused(t, "ObserveStarted")
    /\ "Completing" \in check[t]
    /\ Invoke(t, "ObserveCompleting", check[t] \cup {"ObservedBeforeComplete"})
    /\ UNCHANGED <<role, endedBy, assertFailed>>

\* Too late to set the bit: the answer is the word as it was found.
ObservedLate(t) ==
    /\ \/ Refused(t, "ObserveStarted") /\ "Completing" \notin check[t]
       \/ Refused(t, "ObserveCompleting")
    /\ assertFailed' = (assertFailed \/ "Created" \in check[t])
    /\ Answer(t, check[t])
    /\ UNCHANGED endedBy

TransitionEnded(t) ==
    /\ Transition(t, "TransitionEnded")
    /\ endedBy' = role[t]
    /\ IF role[t] = "callback" THEN AttemptOver(t) ELSE Leave(t)
-----------------------------------------------------------------------------
\* The steps a thread takes on its own once it is inside a call.
Proceed(t) ==
    \/ Load(t) \/ Retry(t)
    \/ TransitionStarted(t) \/ StartCompleteWon(t) \/ StartCompleteLost(t)
    \/ TransitionCompleted(t) \/ MarkedCancelRequested(t)
    \/ AlreadyCancelRequested(t) \/ ObservedInTime(t) \/ ObserveAgain(t)
    \/ ObservedLate(t) \/ TransitionEnded(t)

Next == \E t \in Thread : Proceed(t) \/ Arrive(t)

Spec == Init /\ [][Next]_vars

\* The operating system keeps running every thread; nothing says that a
\* completer, a canceller or a poller ever comes.
FairSpec == Spec /\ \A t \in Thread : WF_vars(Proceed(t))
-----------------------------------------------------------------------------
\* The word has exactly one lifecycle bit, and the locals their types.
TypeOK ==
    /\ operationState_ \in SUBSET Bits
    /\ \E b \in LifecycleMask : operationState_ \cap LifecycleMask = {b}
    /\ call \in [Thread -> Calls \cup {"idle", "done"}]
    /\ desired \in [Thread -> SUBSET Bits]
    /\ check \in [Thread -> SUBSET Bits]
    /\ role \in [Thread -> {"none", "starter", "callback", "poller"}]
    /\ endedBy \in {"nobody", "starter", "callback"}
    /\ assertFailed \in BOOLEAN

(***************************************************************************)
(* No interleaving makes an assert of AsyncOperationState.cpp fail: the    *)
(* operation is completed once, ended once, never ended before it has      *)
(* completed, and never observed before it was started.                    *)
(***************************************************************************)
AssertsHold == ~assertFailed

(***************************************************************************)
(* The completion is not lost between the two parties: as long as a        *)
(* completed operation has not been ended, the party that has to end it is *)
(* still on its way there - the thread in the callback when somebody       *)
(* observed the operation in time, the starter when nobody did.  Each of   *)
(* them may get its answer from a word it loaded at another time.          *)
(***************************************************************************)
EndNotLost ==
    "Completed" \in operationState_ =>
        IF "ObservedBeforeComplete" \in operationState_
        THEN \E t \in Thread : call[t] \in Calls /\ role[t] = "callback"
        ELSE call[Starter] \in Calls

(***************************************************************************)
(* The answer of CompletedSynchronously cannot change once the operation   *)
(* has completed: no step, not even the compare-exchange of an ObserveState*)
(* that loaded the word earlier, changes the observed bit after that, and  *)
(* a cancel request is never forgotten.                                    *)
(***************************************************************************)
AnswerFrozen ==
    [][/\ operationState_ \cap {"Completed", "Ended"} # {} =>
             ("ObservedBeforeComplete" \in operationState_
                 <=> "ObservedBeforeComplete" \in operationState_')
       /\ "CancelRequested" \in operationState_ =>
             "CancelRequested" \in operationState_']_vars

(***************************************************************************)
(* An operation that somebody began to complete is eventually ended, by    *)
(* the starter or by the callback, however often pollers and cancellers    *)
(* make the compare-exchange of the others fail.                           *)
(***************************************************************************)
CompletionEnds ==
    "Completing" \in operationState_ ~> "Ended" \in operationState_

(***************************************************************************)
(* Each step of the bit-level code is one step of OperationLifecycle or    *)
(* changes nothing there: compare_mask_swap takes effect at one point.     *)
(***************************************************************************)
LifecycleBit ==
    CASE "Created" \in operationState_ -> "Created"
      [] "Started" \in operationState_ -> "Started"
      [] "Completing" \in operationState_ -> "Completing"
      [] "Completed" \in operationState_ -> "Completed"
      [] OTHER -> "Ended"

Abstract == INSTANCE OperationLifecycle WITH
    lifecycle <- LifecycleBit,
    observed <- "ObservedBeforeComplete" \in operationState_,
    cancelRequested <- "CancelRequested" \in operationState_,
    endedBy <- endedBy

ImplementsLifecycle == Abstract!Spec
=============================================================================
