------------------------- MODULE OperationLifecycle -------------------------
(***************************************************************************)
(* What the state word of one asynchronous operation promises to the code  *)
(* above it, with every member function of Common::AsyncOperationState     *)
(* taken as one indivisible step.                                          *)
(*                                                                         *)
(* A Begin/End operation has two parties that could call End: the code     *)
(* that started it, when Start returns ("starter"), and the completion     *)
(* callback ("callback").  Both ask CompletedSynchronously, and the answer *)
(* designates exactly one of them.  The answer is fixed when the           *)
(* operation becomes Completed: the callback ends it if somebody observed  *)
(* the operation before that, the starter ends it if nobody did.           *)
(***************************************************************************)

VARIABLES
    lifecycle,       \* the phase the operation is in
    observed,        \* bit ObservedBeforeComplete
    cancelRequested, \* bit CancelRequested
    endedBy          \* which party called End, "nobody" before that

vars == <<lifecycle, observed, cancelRequested, endedBy>>

Phase == {"Created", "Started", "Completing", "Completed", "Ended"}
Party == {"starter", "callback"}

TypeOK ==
    /\ lifecycle \in Phase
    /\ observed \in BOOLEAN
    /\ cancelRequested \in BOOLEAN
    /\ endedBy \in Party \cup {"nobody"}

Init ==
    /\ lifecycle = "Created"
    /\ observed = FALSE
    /\ cancelRequested = FALSE
    /\ endedBy = "nobody"

\* A transition between two phases touches neither flag.
Move(from, to) ==
    /\ lifecycle = from
    /\ lifecycle' = to
    /\ UNCHANGED <<observed, cancelRequested>>

Start == Move("Created", "Started") /\ UNCHANGED endedBy
StartComplete == Move("Started", "Completing") /\ UNCHANGED endedBy
Complete == Move("Completing", "Completed") /\ UNCHANGED endedBy

\* A query leaves its mark only while the operation has not completed.
Observe ==
    /\ lifecycle \in {"Started", "Completing"}
    /\ observed' = TRUE
    /\ UNCHANGED <<lifecycle, cancelRequested, endedBy>>

\* Cancellation is requested at most once, in any phase after Start.
RequestCancel ==
    /\ lifecycle # "Created"
    /\ ~cancelRequested
    /\ cancelRequested' = TRUE
    /\ UNCHANGED <<lifecycle, observed, endedBy>>

\* The party that CompletedSynchronously designates.
Designated == IF observed THEN "callback" ELSE "starter"

End ==
    /\ Move("Completed", "Ended")
    /\ endedBy' = Designated

Next == Start \/ StartComplete \/ Complete \/ Observe \/ RequestCancel \/ End

Spec == Init /\ [][Next]_vars
=============================================================================
