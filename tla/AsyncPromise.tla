---------------------------- MODULE AsyncPromise ----------------------------
(***************************************************************************)
(* What an asynchronous operation promises to the code that begins it,     *)
(* whichever of the classes implements it: Common::AsyncOperation,         *)
(* Common::ComAsyncOperationContext or sf::AsyncOperation.                 *)
(*                                                                         *)
(* An operation that was begun is answered at most once, and its answer    *)
(* never changes.  The callback is called at most once, when the answer is *)
(* there, and End tells that answer.  An operation that is withdrawn is    *)
(* never answered and its callback is never called.                        *)
(***************************************************************************)
CONSTANT Answers  \* what an operation can be answered with

VARIABLES
    status,  \* "idle", "pending", "answered" or "withdrawn"
    result,  \* the answer, "none" before there is one
    calls,   \* how often the callback was called
    told     \* what End told, "none" before that

vars == <<status, result, calls, told>>

Init ==
    /\ status = "idle"
    /\ result = "none"
    /\ calls = 0
    /\ told = "none"

Begin ==
    /\ status = "idle"
    /\ status' = "pending"
    /\ UNCHANGED <<result, calls, told>>

Answer ==
    /\ status = "pending"
    /\ status' = "answered"
    /\ result' \in Answers
    /\ UNCHANGED <<calls, told>>

Withdraw ==
    /\ status = "pending"
    /\ status' = "withdrawn"
    /\ UNCHANGED <<result, calls, told>>

\* End is called of an operation with an answer, once.
Tell ==
    /\ status = "answered"
    /\ told = "none"
    /\ told' = result

\* The callback may call End, or leave it to the code that began the operation.
CallBack ==
    /\ status = "answered"
    /\ calls = 0
    /\ calls' = 1
    /\ Tell \/ UNCHANGED told
    /\ UNCHANGED <<status, result>>

End ==
    /\ Tell
    /\ UNCHANGED <<status, result, calls>>

Next == Begin \/ Answer \/ Withdraw \/ CallBack \/ End

Spec == Init /\ [][Next]_vars
=============================================================================
