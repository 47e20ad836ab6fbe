---------------------- MODULE AsyncOperationStateProofs ----------------------
(***************************************************************************)
(* The invariants of AsyncOperationState for any sets of threads, and the  *)
(* proof that the bit-level code implements OperationLifecycle.            *)
(***************************************************************************)
EXTENDS AsyncOperationState, TLAPS

Finished == {"Completed", "Ended"}
Finishing == {"Completing"} \cup Finished

\* The lifecycle bit of w is b.
In(w, b) == w \cap LifecycleMask = {b}

Word(w) == w \in SUBSET Bits /\ \E b \in LifecycleMask : In(w, b)

(***************************************************************************)
(* w may be the word as some thread loaded it before it became s: nothing  *)
(* that w says can have been undone, and once w has finished the observed  *)
(* bit is the same in both.                                                *)
(***************************************************************************)
Past(w, s) ==
    /\ "Created" \notin w => "Created" \notin s
    /\ w \cap Finishing # {} => s \cap Finishing # {}
    /\ w \cap Finished # {} =>
          /\ s \cap Finished # {}
          /\ "ObservedBeforeComplete" \in s => "ObservedBeforeComplete" \in w
    /\ "ObservedBeforeComplete" \in w => "ObservedBeforeComplete" \in s
    /\ "CancelRequested" \in w => "CancelRequested" \in s

\* What a compare_mask_swap that returns true may do to the word.
Moves(s, s2, from, to) ==
    In(s, from) /\ In(s2, to) /\ s2 \ LifecycleMask = s \ LifecycleMask

WordStep(s, s2) ==
    \/ s2 = s
    \/ Moves(s, s2, "Created", "Started")
    \/ Moves(s, s2, "Started", "Completing")
    \/ Moves(s, s2, "Completing", "Completed")
    \/ Moves(s, s2, "Completed", "Ended")
    \/ /\ In(s, "Started") \/ In(s, "Completing")
       /\ s2 = s \cup {"ObservedBeforeComplete"}
    \/ /\ "Created" \notin s
       /\ s2 = s \cup {"CancelRequested"}

(***************************************************************************)
(* The inductive invariant.                                                *)
(***************************************************************************)
\* What thread t holds in its local variables fits the call it is in.
Locals(t) ==
    /\ check[t] # Unread =>
          Word(check[t]) /\ Past(check[t], operationState_) /\ call[t] \in Calls
    /\ "Created" \in check[t] => call[t] = "TransitionStarted"
    /\ call[t] = "TransitionStarted" => desired[t] = {"Started"}
    /\ call[t] = "TryTransitionCompleting" => desired[t] = {"Completing"}
    /\ call[t] = "TransitionCompleted" => desired[t] = {"Completed"}
    /\ call[t] = "TransitionEnded" => desired[t] = {"Ended"}
    /\ call[t] = "ObserveStarted" => desired[t] = Observation
    /\ call[t] = "TryMarkCancelRequested" => desired[t] = {"CancelRequested"}
    /\ call[t] = "ObserveCompleting" =>
          /\ In(desired[t], "Completing")
          /\ "ObservedBeforeComplete" \in desired[t]
          /\ desired[t] \subseteq
                {"Completing", "ObservedBeforeComplete", "CancelRequested"}
          /\ "CancelRequested" \in desired[t] =>
                "CancelRequested" \in operationState_
          /\ operationState_ \cap Finishing # {}
          /\ check[t] # Unread => check[t] \cap Finishing # {}

\* In which phases of the operation thread t can be in its call.
Phases(t) ==
    /\ call[t] \notin {"idle", "TransitionStarted"} =>
          "Created" \notin operationState_
    /\ call[t] = "TransitionStarted" =>
          t = Starter /\ In(operationState_, "Created") /\ role[t] = "starter"
    /\ call[t] = "TransitionCompleted" =>
          /\ In(operationState_, "Completing")
          /\ check[t] # Unread => In(check[t], "Completing")
    /\ call[t] \in Calls /\ role[t] = "callback" =>
          /\ call[t] \in {"ObserveStarted", "TransitionEnded"}
          /\ operationState_ \cap Finished # {}
          /\ check[t] # Unread => check[t] \cap Finished # {}
    /\ call[t] \in {"TryTransitionCompleting", "TransitionCompleted"} =>
          role[t] \in {"none", "starter"}
    /\ call[t] = "TryMarkCancelRequested" => role[t] = "none"
    /\ call[t] = "idle" => role[t] \in {"none", "poller"}
    /\ role[t] = "poller" <=> t \in Pollers
    /\ call[t] \in {"ObserveStarted", "ObserveCompleting", "TransitionEnded"} =>
          role[t] # "none"
    /\ role[t] = "starter" => t = Starter
    /\ t = Starter => role[t] \in {"starter", "callback"} /\ call[t] # "idle"
    /\ call[t] = "TransitionEnded" =>
          /\ In(operationState_, "Completed")
          /\ check[t] # Unread => In(check[t], "Completed")
          /\ role[t] = IF "ObservedBeforeComplete" \in operationState_
                       THEN "callback" ELSE "starter"

\* Thread t won TryTransitionCompleting and is in FinishComplete.
InFinishComplete(t) ==
    \/ call[t] = "TransitionCompleted"
    \/ call[t] \in Calls /\ role[t] = "callback"

OneCompleter ==
    \A t, u \in Thread : InFinishComplete(t) /\ InFinishComplete(u) => t = u

\* Who has ended the operation, and who has still to do it.
Parties ==
    /\ In(operationState_, "Ended") <=> endedBy # "nobody"
    /\ endedBy # "nobody" =>
          endedBy = IF "ObservedBeforeComplete" \in operationState_
                    THEN "callback" ELSE "starter"
    /\ endedBy = "starter" => call[Starter] = "done"
    /\ endedBy = "callback" =>
          \A t \in Thread : call[t] \in Calls => role[t] # "callback"
    /\ call[Starter] = "done" =>
          \/ "ObservedBeforeComplete" \in operationState_
          \/ endedBy = "starter"

IInv ==
    /\ TypeOK
    /\ AssertsHold
    /\ \A t \in Thread : Locals(t) /\ Phases(t)
    /\ OneCompleter
    /\ Parties
    /\ EndNotLost
-----------------------------------------------------------------------------
(***************************************************************************)
(* Facts about words.                                                      *)
(***************************************************************************)
\* A word stays a word.
LEMMA WordStepWord ==
    ASSUME NEW s, NEW s2, Word(s), WordStep(s, s2)
    PROVE  Word(s2)
  BY DEF Word, WordStep, Moves, In, LifecycleMask, Bits

\* A value loaded earlier stays a past value.
LEMMA PastStep ==
    ASSUME NEW w, NEW s, NEW s2, Word(s), Word(w), Past(w, s), WordStep(s, s2)
    PROVE  Past(w, s2)
  BY DEF Past, Word, WordStep, Moves, In, LifecycleMask, Bits, Finished, Finishing

\* A value just loaded is one.
LEMMA PastReflexive == ASSUME NEW s PROVE Past(s, s)
  BY DEF Past
-----------------------------------------------------------------------------
(***************************************************************************)
(* What the swaps do in states that satisfy the invariant.                 *)
(***************************************************************************)
\* A swap that returns true moves the word as its caller means it to.
LEMMA SwapEffect ==
    ASSUME IInv, NEW t \in Thread, NEW c \in Calls, Swapped(t, c)
    PROVE  /\ c = "TransitionStarted" =>
                 Moves(operationState_, operationState_', "Created", "Started")
           /\ c = "TryTransitionCompleting" =>
                 Moves(operationState_, operationState_', "Started", "Completing")
           /\ c = "TransitionCompleted" =>
                 Moves(operationState_, operationState_', "Completing", "Completed")
           /\ c = "TransitionEnded" =>
                 Moves(operationState_, operationState_', "Completed", "Ended")
           /\ c \in {"ObserveStarted", "ObserveCompleting"} =>
                 /\ In(operationState_, "Started") \/ In(operationState_, "Completing")
                 /\ operationState_' = operationState_ \cup {"ObservedBeforeComplete"}
           /\ c = "TryMarkCancelRequested" =>
                 /\ "Created" \notin operationState_
                 /\ operationState_' = operationState_ \cup {"CancelRequested"}
<1>1. /\ call[t] = c
      /\ Locals(t) /\ Phases(t)
      /\ operationState_ \in SUBSET Bits
      /\ operationState_ \cap Mask(c) = Expected(c)
      /\ operationState_' = desired[t] \cup (operationState_ \ Mask(c))
  BY DEF IInv, TypeOK, Swapped, Matches, Update
<1>2. CASE c \in {"TransitionStarted", "TryTransitionCompleting",
                  "TransitionCompleted", "TransitionEnded"}
  BY <1>1, <1>2 DEF Locals, Mask, Expected, Moves, In, LifecycleMask, Bits
<1>3. CASE c \in {"ObserveStarted", "ObserveCompleting"}
  BY <1>1, <1>3 DEF Locals, Mask, Expected, In, LifecycleMask, Bits, Observation
<1>4. CASE c = "TryMarkCancelRequested"
  BY <1>1, <1>4 DEF Locals, Phases, Mask, Expected, LifecycleMask, Bits
<1>5. QED
  BY <1>2, <1>3, <1>4 DEF Calls

\* The Transition functions are never refused.
LEMMA TransitionSucceeds ==
    ASSUME IInv, NEW t \in Thread,
           NEW c \in {"TransitionStarted", "TransitionCompleted", "TransitionEnded"},
           Transition(t, c)
    PROVE  Swapped(t, c) /\ assertFailed' = FALSE
<1>1. Locals(t) /\ Phases(t) /\ check[t] # Unread /\ call[t] = c
  BY DEF IInv, Transition
<1>2. Matches(t)
  BY <1>1 DEF Locals, Phases, Past, Word, In, Matches, Mask, Expected,
              LifecycleMask, Bits
<1>3. QED
  BY <1>1, <1>2 DEF Transition, Swapped, IInv, AssertsHold

\* An ObserveState that comes too late found the operation finished.
LEMMA LateIsFinished ==
    ASSUME IInv, NEW t \in Thread, ObservedLate(t)
    PROVE  /\ check[t] \cap Finished # {}
           /\ "Created" \notin check[t]
           /\ operationState_ \cap Finished # {}
           /\ ("ObservedBeforeComplete" \in check[t]
                 <=> "ObservedBeforeComplete" \in operationState_)
<1>1. /\ Locals(t) /\ check[t] # Unread
      /\ call[t] \in {"ObserveStarted", "ObserveCompleting"}
      /\ check[t] \cap LifecycleMask # Expected(call[t])
      /\ call[t] = "ObserveStarted" => "Completing" \notin check[t]
  BY DEF IInv, ObservedLate, Refused, Matches, Mask
<1>2. check[t] \cap Finished # {} /\ "Created" \notin check[t]
  BY <1>1 DEF Locals, Word, In, Expected, LifecycleMask, Bits, Finished, Finishing
<1>3. QED
  BY <1>1, <1>2 DEF Locals, Past

\* Every step changes the word as some swap does, or leaves it alone.
LEMMA NextWord ==
    ASSUME IInv, NEW t \in Thread, Proceed(t) \/ Arrive(t)
    PROVE  WordStep(operationState_, operationState_')
<1>1. ASSUME NEW c \in Calls, Swapped(t, c)
      PROVE  WordStep(operationState_, operationState_')
  BY <1>1, SwapEffect DEF WordStep, Calls
<1>2. ASSUME operationState_' = operationState_
      PROVE  WordStep(operationState_, operationState_')
  BY <1>2 DEF WordStep
<1>3. CASE TransitionStarted(t) \/ TransitionCompleted(t) \/ TransitionEnded(t)
  BY <1>1, <1>3, TransitionSucceeds
     DEF TransitionStarted, TransitionCompleted, TransitionEnded, Calls
<1>4. CASE StartCompleteWon(t) \/ MarkedCancelRequested(t) \/ ObservedInTime(t)
  BY <1>1, <1>4 DEF StartCompleteWon, MarkedCancelRequested, ObservedInTime, Calls
<1>5. CASE \/ Load(t) \/ Retry(t) \/ StartCompleteLost(t) \/ ObserveAgain(t)
           \/ AlreadyCancelRequested(t) \/ ObservedLate(t) \/ Arrive(t)
  BY <1>2, <1>5 DEF Load, Retry, StartCompleteLost, ObserveAgain, Refused,
                    AlreadyCancelRequested, ObservedLate, Arrive
<1>6. QED
  BY <1>3, <1>4, <1>5 DEF Proceed

\* Only the thread in the Transition call for it moves the word out of a phase.
LEMMA WhoMoves ==
    ASSUME IInv, NEW t \in Thread, Proceed(t) \/ Arrive(t)
    PROVE  /\ In(operationState_, "Created") /\ ~In(operationState_, "Created")' =>
                 call[t] = "TransitionStarted"
           /\ In(operationState_, "Completing") /\ ~In(operationState_, "Completing")' =>
                 call[t] = "TransitionCompleted"
           /\ In(operationState_, "Completed") /\ ~In(operationState_, "Completed")' =>
                 TransitionEnded(t)
<1> DEFINE P == /\ In(operationState_, "Created") /\ ~In(operationState_, "Created")' =>
                      call[t] = "TransitionStarted"
                /\ In(operationState_, "Completing") /\ ~In(operationState_, "Completing")' =>
                      call[t] = "TransitionCompleted"
                /\ In(operationState_, "Completed") /\ ~In(operationState_, "Completed")' =>
                      call[t] = "TransitionEnded"
<1>0. ASSUME call[t] = "TransitionEnded", operationState_' # operationState_
      PROVE  TransitionEnded(t)
  BY <1>0 DEF Proceed, Arrive, Load, Retry, StartCompleteLost, ObserveAgain, Refused,
              AlreadyCancelRequested, ObservedLate, Swapped, StartCompleteWon,
              MarkedCancelRequested, ObservedInTime, TransitionStarted,
              TransitionCompleted, Transition
<1> SUFFICES P
  BY <1>0 DEF In
<1>1. ASSUME NEW c \in Calls, Swapped(t, c)
      PROVE  P
  BY <1>1, SwapEffect DEF Moves, In, LifecycleMask, Calls, Swapped
<1>2. ASSUME operationState_' = operationState_
      PROVE  P
  BY <1>2 DEF In
<1>3. CASE TransitionStarted(t) \/ TransitionCompleted(t) \/ TransitionEnded(t)
  BY <1>1, <1>3, TransitionSucceeds
     DEF TransitionStarted, TransitionCompleted, TransitionEnded, Calls
<1>4. CASE StartCompleteWon(t) \/ MarkedCancelRequested(t) \/ ObservedInTime(t)
  BY <1>1, <1>4 DEF StartCompleteWon, MarkedCancelRequested, ObservedInTime, Calls
<1>5. CASE \/ Load(t) \/ Retry(t) \/ StartCompleteLost(t) \/ ObserveAgain(t)
           \/ AlreadyCancelRequested(t) \/ ObservedLate(t) \/ Arrive(t)
  BY <1>2, <1>5 DEF Load, Retry, StartCompleteLost, ObserveAgain, Refused,
                    AlreadyCancelRequested, ObservedLate, Arrive
<1>8. QED
  BY <1>3, <1>4, <1>5 DEF Proceed

\* At most one thread is about to move the operation to Ended.
LEMMA OneEnder ==
    ASSUME IInv, NEW t \in Thread, NEW u \in Thread,
           call[t] = "TransitionEnded", call[u] = "TransitionEnded"
    PROVE  t = u
  BY DEF IInv, Phases, OneCompleter, InFinishComplete, Calls

(***************************************************************************)
(* The invariant is inductive: initially, then part by part.               *)
(***************************************************************************)
LEMMA InitIInv == Init => IInv
<1>1. SUFFICES ASSUME Init PROVE IInv
  OBVIOUS
<1>2. Starter \in Thread
  BY DEF Thread
<1>3. /\ operationState_ = {"Created"}
      /\ call[Starter] = "TransitionStarted" /\ desired[Starter] = {"Started"}
      /\ role[Starter] = "starter"
      /\ \A t \in Thread : check[t] = {}
      /\ \A t \in Thread : t # Starter => /\ call[t] = "idle"
                                        /\ desired[t] = {}
                                        /\ role[t] \in {"none", "poller"}
      /\ \A t \in Thread : role[t] = "poller" <=> t \in Pollers
      /\ endedBy = "nobody" /\ assertFailed = FALSE
  BY <1>1, <1>2, ThreadsAssumption DEF Init, Unread
<1>4. TypeOK
  <2>1. /\ role \in [Thread -> {"none", "starter", "callback", "poller"}]
        /\ call \in [Thread -> Calls \cup {"idle", "done"}]
    BY <1>1 DEF Init, Calls
  <2>2. /\ desired \in [Thread -> SUBSET Bits]
        /\ check \in [Thread -> SUBSET Bits]
    BY <1>1 DEF Init, Bits, LifecycleMask, Unread
  <2>3. QED
    BY <1>3, <2>1, <2>2 DEF TypeOK, Bits, LifecycleMask
<1>5. ASSUME NEW t \in Thread
      PROVE  Locals(t) /\ Phases(t)
  <2>1. CASE t = Starter
    BY <1>3, <2>1 DEF Locals, Phases, In, LifecycleMask, Unread, Calls
  <2>2. CASE t # Starter
    BY <1>3, <2>2 DEF Locals, Phases, In, LifecycleMask, Unread, Calls
  <2>3. QED
    BY <2>1, <2>2
<1>6. OneCompleter
  BY <1>3 DEF OneCompleter, InFinishComplete, Calls
<1>7. Parties
  BY <1>3 DEF Parties, In, LifecycleMask
<1>8. QED
  BY <1>3, <1>4, <1>5, <1>6, <1>7 DEF IInv, AssertsHold, EndNotLost

\* A step of t changes nothing of another thread.
LEMMA Frame ==
    ASSUME TypeOK, NEW t \in Thread, Proceed(t) \/ Arrive(t), NEW u \in Thread, u # t
    PROVE  /\ call'[u] = call[u]
           /\ desired'[u] = desired[u]
           /\ check'[u] = check[u]
           /\ role'[u] = role[u]
<1>1. CASE Load(t) \/ Retry(t) \/ Arrive(t)
  BY <1>1 DEF Load, Retry, Arrive, Invoke, TypeOK
<1>2. CASE \/ TransitionStarted(t) \/ TransitionCompleted(t) \/ TransitionEnded(t)
           \/ StartCompleteWon(t) \/ StartCompleteLost(t) \/ MarkedCancelRequested(t)
           \/ AlreadyCancelRequested(t) \/ ObserveAgain(t)
  BY <1>2 DEF TransitionStarted, TransitionCompleted, TransitionEnded, StartCompleteWon,
              StartCompleteLost, MarkedCancelRequested, AlreadyCancelRequested,
              ObserveAgain, Invoke, AttemptOver, AskAsStarter, Leave, TypeOK
<1>3. CASE ObservedInTime(t) \/ ObservedLate(t)
  BY <1>3 DEF ObservedInTime, ObservedLate, Answer, Invoke, AttemptOver,
              AskAsStarter, Leave, TypeOK
<1>4. QED
  BY <1>1, <1>2, <1>3 DEF Proceed

LEMMA TypeStep ==
    ASSUME IInv, NEW t \in Thread, Proceed(t) \/ Arrive(t)
    PROVE  TypeOK'
<1>1. Word(operationState_')
  BY NextWord, WordStepWord DEF IInv, TypeOK, Word, In
<1>2. TypeOK
  BY DEF IInv
<1>3. check' \in [Thread -> SUBSET Bits]
  <2>1. check' = [check EXCEPT ![t] = operationState_] \/ check' = [check EXCEPT ![t] = Unread]
    BY DEF Proceed, Arrive, Load, Retry, TransitionStarted, TransitionCompleted,
           TransitionEnded, StartCompleteWon, StartCompleteLost, MarkedCancelRequested,
           AlreadyCancelRequested, ObserveAgain, ObservedInTime, ObservedLate, Answer,
           Invoke, AttemptOver, AskAsStarter, Leave
  <2>2. QED
    BY <1>2, <2>1 DEF TypeOK, Unread
<1>4. /\ call' \in [Thread -> Calls \cup {"idle", "done"}]
      /\ role' \in [Thread -> {"none", "starter", "callback", "poller"}]
      /\ endedBy' \in {"nobody", "starter", "callback"}
      /\ assertFailed' \in BOOLEAN
  <2>1. CASE Load(t) \/ Retry(t) \/ Arrive(t)
    BY <1>2, <2>1 DEF Load, Retry, Arrive, Invoke, TypeOK, Calls
  <2>2. CASE TransitionStarted(t) \/ TransitionCompleted(t)
    BY <1>2, <2>2 DEF TransitionStarted, TransitionCompleted, Transition, Invoke,
                      AskAsStarter, TypeOK, Calls
  <2>3. CASE TransitionEnded(t)
    <3>1. role[t] \in {"starter", "callback"}
      BY <2>3, ThreadsAssumption DEF TransitionEnded, Transition, IInv, Phases
    <3>2. QED
      BY <1>2, <2>3, <3>1 DEF TransitionEnded, Transition, Invoke, AttemptOver,
                              AskAsStarter, Leave, TypeOK, Calls
  <2>4. CASE \/ StartCompleteWon(t) \/ StartCompleteLost(t) \/ MarkedCancelRequested(t)
             \/ AlreadyCancelRequested(t) \/ ObserveAgain(t)
    BY <1>2, <2>4 DEF StartCompleteWon, StartCompleteLost, MarkedCancelRequested,
                      AlreadyCancelRequested, ObserveAgain, Invoke, AttemptOver,
                      AskAsStarter, Leave, TypeOK, Calls
  <2>5. CASE ObservedInTime(t) \/ ObservedLate(t)
    BY <1>2, <2>5 DEF ObservedInTime, ObservedLate, Answer, Invoke, AttemptOver,
                      AskAsStarter, Leave, TypeOK, Calls
  <2>6. QED
    BY <2>1, <2>2, <2>3, <2>4, <2>5 DEF Proceed
<1>5. desired' \in [Thread -> SUBSET Bits]
  <2>1. /\ \A d \in {{}, {"Completing"}, {"CancelRequested"}, {"Completed"}, {"Ended"},
                    Observation, check[t] \cup {"ObservedBeforeComplete"}} :
              d \in SUBSET Bits
        /\ \E d \in {desired[t], {}, {"Completing"}, {"CancelRequested"}, {"Completed"},
                    {"Ended"}, Observation, check[t] \cup {"ObservedBeforeComplete"}} :
              desired' = [desired EXCEPT ![t] = d]
    <3>1. \A d \in {{}, {"Completing"}, {"CancelRequested"}, {"Completed"}, {"Ended"},
                    Observation, check[t] \cup {"ObservedBeforeComplete"}} :
              d \in SUBSET Bits
      BY <1>2 DEF TypeOK, Bits, LifecycleMask, Observation
    <3>2. CASE Load(t) \/ Retry(t)
      BY <1>2, <3>1, <3>2 DEF Load, Retry, TypeOK
    <3>3. CASE ~(Load(t) \/ Retry(t))
      BY <3>1, <3>3 DEF Proceed, Arrive, TransitionStarted, TransitionCompleted,
           TransitionEnded, StartCompleteWon, StartCompleteLost, MarkedCancelRequested,
           AlreadyCancelRequested, ObserveAgain, ObservedInTime, ObservedLate, Answer,
           Invoke, AttemptOver, AskAsStarter, Leave
    <3>4. QED
      BY <3>2, <3>3, <3>1
  <2>2. QED
    BY <1>2, <2>1 DEF TypeOK
<1>6. QED
  BY <1>1, <1>3, <1>4, <1>5 DEF TypeOK, Word, In

\* Where a step leaves the thread that takes it: still in its call with a
\* fresh copy of the word, or at the start of another call, or in none.
LEMMA Shape ==
    ASSUME IInv, NEW t \in Thread, Proceed(t) \/ Arrive(t)
    PROVE  \/ /\ call[t] \in Calls
              /\ check'[t] = operationState_
              /\ UNCHANGED <<operationState_, call, desired, role, endedBy, assertFailed>>
           \/ check'[t] = Unread
<1>1. TypeOK
  BY DEF IInv
<1>2. CASE Load(t) \/ Retry(t)
  BY <1>1, <1>2 DEF Load, Retry, TypeOK
<1>3. CASE ~(Load(t) \/ Retry(t))
  BY <1>1, <1>3 DEF Proceed, Arrive, TransitionStarted, TransitionCompleted,
           TransitionEnded, StartCompleteWon, StartCompleteLost, MarkedCancelRequested,
           AlreadyCancelRequested, ObserveAgain, ObservedInTime, ObservedLate, Answer,
           Invoke, AttemptOver, AskAsStarter, Leave, TypeOK
<1>4. QED
  BY <1>2, <1>3

LEMMA LocalsStep ==
    ASSUME IInv, NEW t \in Thread, Proceed(t) \/ Arrive(t), NEW u \in Thread
    PROVE  Locals(u)'
<1>1. TypeOK /\ Locals(u) /\ Locals(t) /\ Word(operationState_)
  BY DEF IInv, TypeOK, Word, In
<1>2. WordStep(operationState_, operationState_')
  BY NextWord
<1>3. /\ "CancelRequested" \in operationState_ => "CancelRequested" \in operationState_'
      /\ operationState_ \cap Finishing # {} => operationState_' \cap Finishing # {}
  BY <1>1, <1>2 DEF WordStep, Moves, Word, In, LifecycleMask, Finishing, Finished
<1>4. CASE u # t
  <2>1. /\ call'[u] = call[u] /\ desired'[u] = desired[u]
        /\ check'[u] = check[u] /\ role'[u] = role[u]
    BY <1>1, <1>4, Frame
  <2>2. check[u] # Unread => Past(check[u], operationState_')
    BY <1>1, <1>2, PastStep DEF Locals
  <2>3. QED
    BY <1>1, <1>3, <2>1, <2>2 DEF Locals, Unread
<1>5. CASE u = t /\ check'[t] # Unread
  <2>1. /\ call[t] \in Calls
        /\ check'[t] = operationState_
        /\ UNCHANGED <<operationState_, call, desired, role, endedBy, assertFailed>>
    BY <1>5, Shape
  <2>2. "Created" \in operationState_ => call[t] = "TransitionStarted"
    BY <2>1 DEF IInv, Phases, Calls
  <2>3. QED
    BY <1>1, <1>5, <2>1, <2>2, PastReflexive DEF Locals, Unread
<1>6. CASE u = t /\ check'[t] = Unread
  <2>1. CASE Load(t) \/ Retry(t)
    BY <1>1, <1>6, <2>1 DEF Load, Retry, Locals, Unread
  <2>2. CASE Arrive(t) \/ TransitionStarted(t) \/ TransitionCompleted(t)
    BY <1>1, <1>6, <2>2 DEF Arrive, TransitionStarted, TransitionCompleted, Invoke,
                            AskAsStarter, Locals, TypeOK, Unread
  <2>3. CASE TransitionEnded(t)
    BY <1>1, <1>6, <2>3 DEF TransitionEnded, Invoke, AttemptOver, AskAsStarter, Leave,
                            Locals, TypeOK, Unread
  <2>4. CASE \/ StartCompleteWon(t) \/ StartCompleteLost(t) \/ MarkedCancelRequested(t)
             \/ AlreadyCancelRequested(t)
    BY <1>1, <1>6, <2>4 DEF StartCompleteWon, StartCompleteLost, MarkedCancelRequested,
                            AlreadyCancelRequested, Invoke, AttemptOver, AskAsStarter,
                            Leave, Locals, TypeOK, Unread
  <2>5. CASE ObservedInTime(t) \/ ObservedLate(t)
    BY <1>1, <1>6, <2>5 DEF ObservedInTime, ObservedLate, Answer, Invoke, AttemptOver,
                            AskAsStarter, Leave, Locals, TypeOK, Unread
  <2>6. CASE ObserveAgain(t)
    <3>1. /\ call'[t] = "ObserveCompleting"
          /\ desired'[t] = check[t] \cup {"ObservedBeforeComplete"}
          /\ "Completing" \in check[t] /\ check[t] # Unread
          /\ operationState_' = operationState_
      BY <1>1, <2>6 DEF ObserveAgain, Refused, Invoke, TypeOK
    <3>2. /\ In(check[t], "Completing") /\ check[t] \in SUBSET Bits
          /\ operationState_ \cap Finishing # {}
          /\ "CancelRequested" \in check[t] => "CancelRequested" \in operationState_
      BY <1>1, <3>1 DEF Locals, Word, In, LifecycleMask, Past, Finishing
    <3>3. /\ In(desired'[t], "Completing")
          /\ desired'[t] \subseteq {"Completing", "ObservedBeforeComplete", "CancelRequested"}
      BY <3>1, <3>2 DEF In, LifecycleMask, Bits
    <3>4. QED
      BY <1>6, <3>1, <3>2, <3>3 DEF Locals, Unread
  <2>7. QED
    BY <2>1, <2>2, <2>3, <2>4, <2>5, <2>6 DEF Proceed
<1>7. QED
  BY <1>4, <1>5, <1>6

LEMMA PhasesStep ==
    ASSUME IInv, NEW t \in Thread, Proceed(t) \/ Arrive(t), NEW u \in Thread
    PROVE  Phases(u)'
<1>1. /\ TypeOK /\ Locals(u) /\ Phases(u) /\ Locals(t) /\ Phases(t)
      /\ Word(operationState_) /\ Word(operationState_')
  BY TypeStep DEF IInv, TypeOK, Word, In
<1>2. WordStep(operationState_, operationState_')
  BY NextWord
<1>3. /\ "Created" \notin operationState_ => "Created" \notin operationState_'
      /\ operationState_ \cap Finished # {} =>
            /\ operationState_' \cap Finished # {}
            /\ "ObservedBeforeComplete" \in operationState_
                  <=> "ObservedBeforeComplete" \in operationState_'
  BY <1>1, <1>2 DEF WordStep, Moves, Word, In, LifecycleMask, Finished
<1>4. CASE u # t
  <2>1. /\ call'[u] = call[u] /\ check'[u] = check[u] /\ role'[u] = role[u]
    BY <1>1, <1>4, Frame
  <2>2. call[u] = "TransitionStarted" => In(operationState_', "Created")
    BY <1>1, <1>4, WhoMoves DEF Phases, In
  <2>3. call[u] = "TransitionCompleted" => In(operationState_', "Completing")
    BY <1>1, <1>4, WhoMoves DEF Phases, In, IInv, OneCompleter, InFinishComplete
  <2>4. call[u] = "TransitionEnded" => In(operationState_', "Completed")
    BY <1>1, <1>4, WhoMoves, OneEnder DEF Phases, In, TransitionEnded, Transition
  <2>5. call[u] = "TransitionEnded" =>
            role[u] = IF "ObservedBeforeComplete" \in operationState_'
                      THEN "callback" ELSE "starter"
    BY <1>1, <1>3 DEF Phases, In, LifecycleMask, Finished
  <2>6. QED
    BY <1>1, <1>3, <2>1, <2>2, <2>3, <2>4, <2>5 DEF Phases, Unread
<1>5. CASE u = t /\ check'[t] # Unread
  <2>1. /\ call[t] \in Calls
        /\ check'[t] = operationState_
        /\ UNCHANGED <<operationState_, call, desired, role, endedBy, assertFailed>>
    BY <1>5, Shape
  <2>2. QED
    BY <1>1, <1>5, <2>1 DEF Phases
<1>6. CASE u = t /\ check'[t] = Unread
  <2>1. CASE Load(t) \/ Retry(t)
    BY <1>1, <1>6, <2>1 DEF Load, Retry, Phases, Unread
  <2>2. CASE Arrive(t)
    BY <1>1, <1>6, <2>2, ThreadsAssumption DEF Arrive, Invoke, Phases, TypeOK, Unread, Calls
  <2>3. CASE TransitionStarted(t)
    <3>1. Moves(operationState_, operationState_', "Created", "Started")
      BY <2>3, TransitionSucceeds, SwapEffect DEF TransitionStarted, Calls
    <3>2. "Created" \notin operationState_'
      BY <3>1 DEF Moves, In, LifecycleMask
    <3>3. QED
      BY <1>1, <1>6, <2>3, <3>2 DEF TransitionStarted, Transition, Invoke, AskAsStarter,
                                    Phases, TypeOK, Unread, Calls
  <2>4. CASE TransitionCompleted(t)
    <3>1. Moves(operationState_, operationState_', "Completing", "Completed")
      BY <2>4, TransitionSucceeds, SwapEffect DEF TransitionCompleted, Calls
    <3>2. "Created" \notin operationState_' /\ operationState_' \cap Finished # {}
      BY <3>1 DEF Moves, In, LifecycleMask, Finished
    <3>3. QED
      BY <1>1, <1>6, <2>4, <3>2 DEF TransitionCompleted, Transition, Invoke,
                                    Phases, TypeOK, Unread, Calls
  <2>5. CASE TransitionEnded(t)
    BY <1>1, <1>3, <1>6, <2>5, ThreadsAssumption
       DEF TransitionEnded, Transition, Invoke, AttemptOver, AskAsStarter, Leave, Phases, TypeOK, Unread, Calls
  <2>6. CASE StartCompleteWon(t)
    <3>1. Moves(operationState_, operationState_', "Started", "Completing")
      BY <2>6, SwapEffect DEF StartCompleteWon, Calls
    <3>2. "Created" \notin operationState_' /\ In(operationState_', "Completing")
      BY <3>1 DEF Moves, In, LifecycleMask
    <3>3. QED
      BY <1>1, <1>6, <2>6, <3>2 DEF StartCompleteWon, Swapped, Invoke,
                                    Phases, TypeOK, Unread, Calls
  <2>7. CASE StartCompleteLost(t) \/ MarkedCancelRequested(t) \/ AlreadyCancelRequested(t)
    BY <1>1, <1>3, <1>6, <2>7 DEF StartCompleteLost, MarkedCancelRequested,
               AlreadyCancelRequested, Swapped, Refused, Invoke, AttemptOver,
               AskAsStarter, Leave, Phases, TypeOK, Unread, Calls
  <2>8. CASE ObservedInTime(t)
    <3>1. /\ call[t] \in {"ObserveStarted", "ObserveCompleting"}
          /\ "Created" \notin operationState_'
          /\ role[t] # "callback"
          /\ "ObservedBeforeComplete" \in desired[t]
      BY <1>1, <1>2, <1>3, <2>8, SwapEffect DEF ObservedInTime, Swapped, Calls, Phases,
               Locals, In, LifecycleMask, Finished, Observation
    <3>2. Leave(t) /\ ~EndsOn(role[t], desired[t])
      BY <2>8, <3>1 DEF ObservedInTime, Answer, EndsOn
    <3>3. QED
      BY <1>1, <1>6, <3>1, <3>2, ThreadsAssumption
         DEF Leave, Invoke, Phases, TypeOK, Unread, Calls
  <2>9. CASE ObserveAgain(t)
    <3>1. role[t] # "callback"
      BY <1>1, <2>9 DEF ObserveAgain, Refused, Locals, Phases, Word, In, Finished,
               LifecycleMask, Calls
    <3>2. QED
      BY <1>1, <1>3, <1>6, <2>9, <3>1 DEF ObserveAgain, Refused, Invoke, Phases, TypeOK,
               Unread, Calls
  <2>10. CASE ObservedLate(t)
    <3>1. /\ call[t] \in {"ObserveStarted", "ObserveCompleting"}
          /\ operationState_' = operationState_
          /\ "Created" \notin operationState_'
      BY <1>1, <2>10 DEF ObservedLate, Refused, Phases
    <3>2. CASE EndsOn(role[t], check[t])
      <4>1. /\ call' = [call EXCEPT ![t] = "TransitionEnded"]
            /\ role' = role
        BY <2>10, <3>2 DEF ObservedLate, Answer, Invoke
      <4>2. role[t] = IF "ObservedBeforeComplete" \in operationState_
                      THEN "callback" ELSE "starter"
        BY <2>10, <3>2, LateIsFinished DEF EndsOn
      <4>3. ~In(operationState_, "Ended")
        BY <1>1, <3>1, <4>2 DEF IInv, Parties, Phases, Calls
      <4>4. In(operationState_, "Completed")
        BY <1>1, <2>10, <4>3, LateIsFinished DEF Word, In, Finished, LifecycleMask
      <4>5. QED
        BY <1>1, <1>6, <3>1, <4>1, <4>2, <4>4, LateIsFinished, <2>10
           DEF Phases, TypeOK, Unread, Calls
    <3>3. CASE ~EndsOn(role[t], check[t])
      BY <1>1, <1>6, <2>10, <3>1, <3>3, ThreadsAssumption
         DEF ObservedLate, Answer, Invoke, AttemptOver, AskAsStarter, Leave, Phases, TypeOK, Unread, Calls
    <3>4. QED
      BY <3>2, <3>3
  <2>11. QED
    BY <2>1, <2>2, <2>3, <2>4, <2>5, <2>6, <2>7, <2>8, <2>9, <2>10 DEF Proceed
<1>7. QED
  BY <1>4, <1>5, <1>6

LEMMA AssertsStep ==
    ASSUME IInv, NEW t \in Thread, Proceed(t) \/ Arrive(t)
    PROVE  AssertsHold'
<1>1. CASE TransitionStarted(t) \/ TransitionCompleted(t) \/ TransitionEnded(t)
  BY <1>1, TransitionSucceeds
     DEF TransitionStarted, TransitionCompleted, TransitionEnded, AssertsHold
<1>2. CASE ObservedLate(t)
  BY <1>2, LateIsFinished DEF ObservedLate, IInv, AssertsHold
<1>3. CASE ~(\/ TransitionStarted(t) \/ TransitionCompleted(t) \/ TransitionEnded(t)
             \/ ObservedLate(t))
  BY <1>3 DEF Proceed, Arrive, Load, Retry, StartCompleteWon, StartCompleteLost,
       MarkedCancelRequested, AlreadyCancelRequested, ObserveAgain, ObservedInTime,
       IInv, AssertsHold
<1>4. QED
  BY <1>1, <1>2, <1>3

\* Who is between TryStartComplete and the end of the callback after a step.
LEMMA CompleterStep ==
    ASSUME IInv, NEW t \in Thread, Proceed(t) \/ Arrive(t)
    PROVE  /\ \/ InFinishComplete(t)' => InFinishComplete(t)
              \/ /\ In(operationState_, "Started")
                 /\ \A u \in Thread : ~InFinishComplete(u)
           /\ OneCompleter'
<1>1. TypeOK /\ Phases(t)
  BY DEF IInv
<1>2. \/ InFinishComplete(t)' => InFinishComplete(t)
      \/ In(operationState_, "Started")
  <2>1. CASE StartCompleteWon(t)
    BY <2>1, SwapEffect DEF StartCompleteWon, Calls, Moves
  <2>2. CASE Load(t) \/ Retry(t) \/ Arrive(t)
    BY <1>1, <2>2 DEF Load, Retry, Arrive, Invoke, InFinishComplete, TypeOK, Phases, Calls
  <2>3. CASE TransitionStarted(t) \/ TransitionCompleted(t) \/ TransitionEnded(t)
    BY <1>1, <2>3 DEF TransitionStarted, TransitionCompleted, TransitionEnded, Transition,
         Invoke, AttemptOver, AskAsStarter, Leave, InFinishComplete, TypeOK, Phases, Calls
  <2>4. CASE \/ StartCompleteLost(t) \/ MarkedCancelRequested(t)
             \/ AlreadyCancelRequested(t) \/ ObserveAgain(t)
    BY <1>1, <2>4 DEF StartCompleteLost, MarkedCancelRequested, AlreadyCancelRequested,
         ObserveAgain, Swapped, Refused, Invoke, AttemptOver, AskAsStarter, Leave,
         InFinishComplete, TypeOK, Phases, Calls
  <2>5. CASE ObservedInTime(t) \/ ObservedLate(t)
    BY <1>1, <2>5 DEF ObservedInTime, ObservedLate, Swapped, Refused, Answer, Invoke,
         AttemptOver, AskAsStarter, Leave, InFinishComplete, TypeOK, Phases, Calls
  <2>6. QED
    BY <2>1, <2>2, <2>3, <2>4, <2>5 DEF Proceed
<1>3. In(operationState_, "Started") => \A u \in Thread : ~InFinishComplete(u)
  BY DEF IInv, Phases, InFinishComplete, In, LifecycleMask, Finished
<1>4. \A u \in Thread : u # t => (InFinishComplete(u)' <=> InFinishComplete(u))
  BY <1>1, Frame DEF InFinishComplete
<1>5. QED
  BY <1>2, <1>3, <1>4 DEF OneCompleter, IInv

LEMMA PartiesStep ==
    ASSUME IInv, NEW t \in Thread, Proceed(t) \/ Arrive(t)
    PROVE  Parties'
<1>1. /\ TypeOK /\ Parties /\ Locals(t) /\ Phases(t)
      /\ Starter \in Thread /\ Word(operationState_) /\ Word(operationState_')
      /\ call'[Starter] # "idle" /\ Phases(Starter)
  BY TypeStep, PhasesStep DEF IInv, TypeOK, Thread, Word, In, Phases
<1>2. WordStep(operationState_, operationState_')
  BY NextWord
<1>3. "ObservedBeforeComplete" \in operationState_ => "ObservedBeforeComplete" \in operationState_'
  BY <1>2 DEF WordStep, Moves, LifecycleMask
<1>4. CASE TransitionEnded(t)
  <2>1. /\ Moves(operationState_, operationState_', "Completed", "Ended")
        /\ call[t] = "TransitionEnded"
    BY <1>4, TransitionSucceeds, SwapEffect DEF TransitionEnded, Calls, Swapped
  <2>2. /\ In(operationState_', "Ended")
        /\ ("ObservedBeforeComplete" \in operationState_' <=>
              "ObservedBeforeComplete" \in operationState_)
    BY <2>1 DEF Moves, LifecycleMask
  <2>3. /\ endedBy' = role[t]
        /\ endedBy' = IF "ObservedBeforeComplete" \in operationState_'
                      THEN "callback" ELSE "starter"
    BY <1>1, <1>4, <2>1, <2>2 DEF TransitionEnded, Phases
  <2>4. role[t] = "starter" => t = Starter /\ call'[Starter] = "done"
    BY <1>1, <1>4, ThreadsAssumption DEF TransitionEnded, Leave, Invoke, Phases, TypeOK
  <2>5. role[t] = "callback" =>
           /\ \A u \in Thread : call'[u] \in Calls => role'[u] # "callback"
           /\ call'[Starter] = "done" => "ObservedBeforeComplete" \in operationState_'
    <3>1. SUFFICES ASSUME role[t] = "callback"
                   PROVE  \A u \in Thread : call'[u] \in Calls => role'[u] # "callback"
      BY <2>3
    <3>2. ASSUME NEW u \in Thread, u # t, call'[u] \in Calls, role'[u] = "callback"
          PROVE  FALSE
      BY <1>1, <2>1, <3>1, <3>2, Frame DEF IInv, OneCompleter, InFinishComplete, Calls
    <3>3. call'[t] \in Calls => role'[t] # "callback"
      BY <1>1, <1>4, <3>1 DEF TransitionEnded, AttemptOver, AskAsStarter, Leave, Invoke,
               TypeOK, Calls
    <3>4. QED
      BY <3>2, <3>3
  <2>6. QED
    BY <2>2, <2>3, <2>4, <2>5 DEF Parties
<1>5. CASE ~TransitionEnded(t)
  <2>1. endedBy' = endedBy
    BY <1>5 DEF Proceed, Arrive, Load, Retry, TransitionStarted, TransitionCompleted,
           StartCompleteWon, StartCompleteLost, MarkedCancelRequested,
           AlreadyCancelRequested, ObserveAgain, ObservedInTime, ObservedLate
  <2>2. In(operationState_, "Ended") <=> In(operationState_', "Ended")
    <3>1. In(operationState_, "Completed") => In(operationState_', "Completed")
      BY <1>5, WhoMoves DEF In
    <3>2. QED
      BY <1>1, <1>2, <3>1 DEF WordStep, Moves, In, Word, LifecycleMask
  <2>3. In(operationState_, "Ended") =>
           ("ObservedBeforeComplete" \in operationState_' <=>
              "ObservedBeforeComplete" \in operationState_)
    BY <1>1, <1>2 DEF WordStep, Moves, In, LifecycleMask
  <2>4. endedBy = "starter" => call'[Starter] = "done"
    <3>1. CASE t = Starter
      BY <1>1, <3>1 DEF Parties, Proceed, Arrive, Load, Retry, TransitionStarted,
           TransitionCompleted, Transition, TransitionEnded,
           StartCompleteWon, StartCompleteLost, MarkedCancelRequested,
           AlreadyCancelRequested, ObserveAgain, ObservedInTime, ObservedLate,
           Swapped, Refused, Calls
    <3>2. CASE t # Starter
      BY <1>1, <3>2, Frame DEF Parties
    <3>3. QED
      BY <3>1, <3>2
  <2>5. endedBy = "callback" =>
           \A u \in Thread : call'[u] \in Calls => role'[u] # "callback"
    <3>1. SUFFICES ASSUME endedBy = "callback", NEW u \in Thread,
                          call'[u] \in Calls, role'[u] = "callback"
                   PROVE  FALSE
      OBVIOUS
    <3>2. In(operationState_, "Ended")
      BY <1>1, <3>1 DEF Parties
    <3>3. ~InFinishComplete(u) /\ ~In(operationState_, "Started")
      BY <1>1, <3>1, <3>2 DEF Parties, InFinishComplete, IInv, Phases, In, LifecycleMask
    <3>4. InFinishComplete(u)'
      BY <3>1 DEF InFinishComplete
    <3>5. QED
      BY <1>1, <3>3, <3>4, Frame, CompleterStep DEF InFinishComplete
  <2>6. call'[Starter] = "done" =>
           \/ "ObservedBeforeComplete" \in operationState_'
           \/ endedBy = "starter"
    <3>1. CASE call[Starter] = "done" \/ t # Starter
      BY <1>1, <1>3, <3>1, Frame DEF Parties
    <3>2. CASE t = Starter /\ (ObservedInTime(t) \/ ObservedLate(t))
      <4>1. CASE ObservedInTime(t)
        BY <4>1, SwapEffect DEF ObservedInTime, Calls
      <4>2. CASE ObservedLate(t)
        BY <1>1, <1>3, <3>2, <4>2, LateIsFinished DEF ObservedLate, Answer, EndsOn, Invoke,
             AttemptOver, AskAsStarter, Phases, TypeOK
      <4>3. QED
        BY <3>2, <4>1, <4>2
    <3>3. CASE /\ t = Starter /\ call[Starter] # "done"
               /\ ~(ObservedInTime(t) \/ ObservedLate(t))
      <4>1. CASE Load(t) \/ Retry(t)
        BY <1>1, <3>3, <4>1 DEF Load, Retry
      <4>2. CASE AlreadyCancelRequested(t) \/ Arrive(t)
        BY <1>1, <3>3, <4>2 DEF AlreadyCancelRequested, Arrive, Refused, Phases
      <4>3. CASE \/ TransitionStarted(t) \/ TransitionCompleted(t) \/ StartCompleteWon(t)
                 \/ StartCompleteLost(t) \/ MarkedCancelRequested(t) \/ ObserveAgain(t)
        BY <1>1, <3>3, <4>3 DEF TransitionStarted, TransitionCompleted, StartCompleteWon,
             StartCompleteLost, MarkedCancelRequested, ObserveAgain, Invoke, AttemptOver,
             AskAsStarter, TypeOK
      <4>4. QED
        BY <1>5, <3>3, <4>1, <4>2, <4>3 DEF Proceed
    <3>4. QED
      BY <3>1, <3>2, <3>3
  <2>7. QED
    BY <1>1, <2>1, <2>2, <2>3, <2>4, <2>5, <2>6 DEF Parties
<1>6. QED
  BY <1>4, <1>5

LEMMA EndNotLostStep ==
    ASSUME IInv, NEW t \in Thread, Proceed(t) \/ Arrive(t)
    PROVE  EndNotLost'
<1>1. /\ TypeOK /\ TypeOK' /\ Phases(t) /\ Phases(Starter)' /\ Parties'
      /\ Starter \in Thread /\ Word(operationState_) /\ Word(operationState_')
  BY TypeStep, PhasesStep, PartiesStep DEF IInv, TypeOK, Thread, Word, In
<1>2. WordStep(operationState_, operationState_')
  BY NextWord
<1>3. SUFFICES ASSUME "Completed" \in operationState_'
               PROVE  IF "ObservedBeforeComplete" \in operationState_'
                      THEN \E u \in Thread : call'[u] \in Calls /\ role'[u] = "callback"
                      ELSE call'[Starter] \in Calls
  BY DEF EndNotLost
<1>4. CASE "ObservedBeforeComplete" \notin operationState_'
  <2>1. endedBy' = "nobody"
    BY <1>1, <1>3 DEF Parties, Word, In, LifecycleMask
  <2>2. call'[Starter] \notin {"done", "idle"}
    BY <1>1, <1>4, <2>1 DEF Parties, Phases
  <2>3. QED
    BY <1>1, <1>4, <2>2 DEF TypeOK
<1>5. CASE "ObservedBeforeComplete" \in operationState_'
  <2>1. CASE "Completed" \in operationState_
    <3>1. "ObservedBeforeComplete" \in operationState_
      BY <1>1, <1>2, <1>5, <2>1 DEF WordStep, Moves, In, Word, LifecycleMask
    <3>2. PICK u \in Thread : call[u] \in Calls /\ role[u] = "callback"
      BY <2>1, <3>1 DEF IInv, EndNotLost
    <3>3. CASE u # t
      BY <1>1, <1>5, <3>2, <3>3, Frame
    <3>4. CASE u = t
      <4>1. ~TransitionEnded(t)
        BY <1>1, <1>3, TransitionSucceeds, SwapEffect
           DEF TransitionEnded, Calls, Moves, In, LifecycleMask
      <4>2. CASE Load(t) \/ Retry(t)
        BY <1>5, <3>2, <3>4, <4>2 DEF Load, Retry
      <4>3. CASE ObservedLate(t)
        BY <1>1, <1>5, <3>1, <3>2, <3>4, <4>3, LateIsFinished DEF ObservedLate, Answer,
             EndsOn, Invoke, TypeOK, Calls
      <4>4. ~ObservedInTime(t)
        BY <1>1, <2>1, SwapEffect DEF ObservedInTime, Calls, In, LifecycleMask
      <4>5. ~ObserveAgain(t)
        BY <1>1, <3>2, <3>4 DEF ObserveAgain, Refused, Phases, Locals, IInv, Word, In,
             Finished, LifecycleMask
      <4>6. QED
        BY <1>1, <3>2, <3>4, <4>1, <4>2, <4>3, <4>4, <4>5 DEF Phases, Proceed, Arrive,
             TransitionStarted, TransitionCompleted, Transition, StartCompleteWon,
             StartCompleteLost, MarkedCancelRequested, AlreadyCancelRequested,
             Swapped, Refused, Calls
    <3>5. QED
      BY <3>3, <3>4
  <2>2. CASE "Completed" \notin operationState_
    <3>1. TransitionCompleted(t)
      <4>1. In(operationState_, "Completing") /\ ~In(operationState_', "Completing")
        BY <1>1, <1>2, <1>3, <2>2 DEF WordStep, Moves, In, Word, LifecycleMask
      <4>2. call[t] = "TransitionCompleted" /\ operationState_' # operationState_
        BY <4>1, WhoMoves DEF In
      <4>3. QED
        BY <4>2 DEF Proceed, Arrive, Load, Retry, StartCompleteLost, ObserveAgain, Refused,
              AlreadyCancelRequested, ObservedLate, Swapped, StartCompleteWon,
              MarkedCancelRequested, ObservedInTime, TransitionStarted,
              TransitionEnded, Transition
    <3>2. QED
      BY <1>1, <1>5, <3>1 DEF TransitionCompleted, Invoke, TypeOK, Calls
  <2>3. QED
    BY <2>1, <2>2
<1>6. QED
  BY <1>4, <1>5
-----------------------------------------------------------------------------
(***************************************************************************)
(* The results.                                                            *)
(***************************************************************************)
\* The invariant holds in every state: it holds initially and every step of
\* every thread keeps each of its parts.
THEOREM Invariance == Spec => []IInv
<1>1. ASSUME IInv, [Next]_vars
      PROVE  IInv'
  <2>1. CASE UNCHANGED vars
    BY <1>1, <2>1 DEF vars, IInv, TypeOK, AssertsHold, Locals, Phases, OneCompleter,
           InFinishComplete, Parties, EndNotLost, Word, Past, In
  <2>2. ASSUME NEW t \in Thread, Proceed(t) \/ Arrive(t)
        PROVE  IInv'
    BY <1>1, <2>2, TypeStep, AssertsStep, LocalsStep, PhasesStep, CompleterStep,
       PartiesStep, EndNotLostStep DEF IInv
  <2>3. QED
    BY <1>1, <2>1, <2>2 DEF Next
<1>2. QED
  BY <1>1, InitIInv, PTL DEF Spec

\* The state word always has exactly one lifecycle bit, and every variable its
\* type.
THEOREM TypeCorrect == Spec => []TypeOK
  BY Invariance, PTL DEF IInv

\* No assert of AsyncOperationState.cpp can fail, for any number of threads
\* that start, complete, cancel and observe one operation.
THEOREM AssertsNeverFail == Spec => []AssertsHold
  BY Invariance, PTL DEF IInv

\* A completed operation that has not been ended always has the designated
\* party on its way to End it.
THEOREM EndIsNotLost == Spec => []EndNotLost
  BY Invariance, PTL DEF IInv

\* The observed bit is fixed once the operation has completed, and a cancel
\* request is never forgotten.
THEOREM AnswerIsFrozen == Spec => AnswerFrozen
<1> DEFINE Frozen == /\ operationState_ \cap {"Completed", "Ended"} # {} =>
                          ("ObservedBeforeComplete" \in operationState_
                              <=> "ObservedBeforeComplete" \in operationState_')
                     /\ "CancelRequested" \in operationState_ =>
                          "CancelRequested" \in operationState_'
<1>1. ASSUME IInv, [Next]_vars
      PROVE  [Frozen]_vars
  <2>1. CASE UNCHANGED vars
    BY <2>1
  <2>2. ASSUME NEW t \in Thread, Proceed(t) \/ Arrive(t)
        PROVE  Frozen
    <3>1. WordStep(operationState_, operationState_') /\ Word(operationState_)
      BY <1>1, <2>2, NextWord DEF IInv, TypeOK, Word, In
    <3>2. QED
      BY <3>1 DEF WordStep, Moves, Word, In, LifecycleMask
  <2>3. QED
    BY <1>1, <2>1, <2>2 DEF Next
<1>2. QED
  BY <1>1, Invariance, PTL DEF Spec, AnswerFrozen

\* The lifecycle bit of a word, as the refinement mapping reads it.
LEMMA BitOfWord ==
    ASSUME Word(operationState_)
    PROVE  \A b \in LifecycleMask : In(operationState_, b) <=> LifecycleBit = b
  BY DEF Word, In, LifecycleMask, LifecycleBit

\* Every step of the code is a step of OperationLifecycle or leaves its state
\* alone: the loads, the retries and the refusals are invisible there.
LEMMA AbstractStep ==
    ASSUME IInv, NEW t \in Thread, Proceed(t) \/ Arrive(t)
    PROVE  [Abstract!Next]_(Abstract!vars)
<1>1. /\ TypeOK /\ Phases(t)
      /\ Word(operationState_) /\ Word(operationState_')
      /\ WordStep(operationState_, operationState_')
  BY TypeStep, NextWord DEF IInv, TypeOK, Word, In
<1>2. /\ \A b \in LifecycleMask : In(operationState_, b) <=> LifecycleBit = b
      /\ \A b \in LifecycleMask : In(operationState_', b) <=> LifecycleBit' = b
  BY <1>1, BitOfWord DEF Word, In, LifecycleMask, LifecycleBit
<1>3. CASE TransitionEnded(t)
  <2>1. Moves(operationState_, operationState_', "Completed", "Ended")
    BY <1>3, TransitionSucceeds, SwapEffect DEF TransitionEnded, Calls
  <2>2. endedBy' = IF "ObservedBeforeComplete" \in operationState_
                   THEN "callback" ELSE "starter"
    BY <1>1, <1>3 DEF TransitionEnded, Transition, Phases
  <2>3. /\ LifecycleBit = "Completed" /\ LifecycleBit' = "Ended"
        /\ ("ObservedBeforeComplete" \in operationState_')
              = ("ObservedBeforeComplete" \in operationState_)
        /\ ("CancelRequested" \in operationState_')
              = ("CancelRequested" \in operationState_)
    BY <1>2, <2>1 DEF Moves, LifecycleMask
  <2>4. QED
    BY <2>2, <2>3 DEF Abstract!Next, Abstract!End, Abstract!Move, Abstract!Designated
<1>4. CASE ~TransitionEnded(t)
  <2>1. endedBy' = endedBy
    BY <1>4 DEF Proceed, Arrive, Load, Retry, TransitionStarted, TransitionCompleted,
           StartCompleteWon, StartCompleteLost, MarkedCancelRequested,
           AlreadyCancelRequested, ObserveAgain, ObservedInTime, ObservedLate
  <2>2. ~Moves(operationState_, operationState_', "Completed", "Ended")
    BY <1>4, WhoMoves DEF Moves, In, LifecycleMask
  <2>3. CASE operationState_' = operationState_
    BY <2>1, <2>3 DEF Abstract!vars, LifecycleBit
  <2>4. ASSUME NEW a \in LifecycleMask, NEW b \in LifecycleMask,
               Moves(operationState_, operationState_', a, b)
        PROVE  Abstract!Move(a, b)
    BY <1>2, <2>4 DEF Moves, Abstract!Move, LifecycleMask
  <2>5. CASE \/ Moves(operationState_, operationState_', "Created", "Started")
             \/ Moves(operationState_, operationState_', "Started", "Completing")
             \/ Moves(operationState_, operationState_', "Completing", "Completed")
    BY <2>1, <2>4, <2>5 DEF Abstract!Next, Abstract!Start, Abstract!StartComplete,
           Abstract!Complete, LifecycleMask
  <2>6. CASE /\ In(operationState_, "Started") \/ In(operationState_, "Completing")
             /\ operationState_' = operationState_ \cup {"ObservedBeforeComplete"}
    <3>1. /\ LifecycleBit \in {"Started", "Completing"} /\ LifecycleBit' = LifecycleBit
          /\ "ObservedBeforeComplete" \in operationState_'
          /\ ("CancelRequested" \in operationState_')
                = ("CancelRequested" \in operationState_)
      BY <1>1, <1>2, <2>6 DEF In, LifecycleMask
    <3>2. QED
      BY <2>1, <3>1 DEF Abstract!Next, Abstract!Observe
  <2>7. CASE /\ "Created" \notin operationState_
             /\ operationState_' = operationState_ \cup {"CancelRequested"}
             /\ operationState_' # operationState_
    <3>1. /\ LifecycleBit # "Created" /\ LifecycleBit' = LifecycleBit
          /\ "CancelRequested" \notin operationState_
          /\ "CancelRequested" \in operationState_'
          /\ ("ObservedBeforeComplete" \in operationState_')
                = ("ObservedBeforeComplete" \in operationState_)
      <4>1. \A b \in LifecycleMask : In(operationState_', b) <=> In(operationState_, b)
        BY <2>7 DEF In, LifecycleMask
      <4>2. PICK b \in LifecycleMask : In(operationState_, b)
        BY <1>1 DEF Word
      <4>3. b # "Created"
        BY <2>7, <4>2 DEF In
      <4>4. QED
        BY <1>2, <2>7, <4>1, <4>2, <4>3
    <3>2. QED
      BY <2>1, <3>1 DEF Abstract!Next, Abstract!RequestCancel
  <2>8. QED
    BY <1>1, <2>2, <2>3, <2>5, <2>6, <2>7 DEF WordStep
<1>5. QED
  BY <1>3, <1>4

\* The bit-level state word implements the atomic lifecycle.
THEOREM ImplementsOperationLifecycle == Spec => ImplementsLifecycle
<1>1. Init => Abstract!Init
  BY DEF Init, Abstract!Init, LifecycleBit
<1>2. ASSUME IInv, [Next]_vars
      PROVE  [Abstract!Next]_(Abstract!vars)
  <2>1. CASE UNCHANGED vars
    BY <2>1 DEF vars, Abstract!vars, LifecycleBit
  <2>2. CASE Next
    BY <1>2, <2>2, AbstractStep DEF Next
  <2>3. QED
    BY <1>2, <2>1, <2>2
<1>3. QED
  BY <1>1, <1>2, Invariance, PTL DEF Spec, ImplementsLifecycle, Abstract!Spec
=============================================================================
