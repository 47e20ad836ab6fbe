------------------------ MODULE MCAsyncOperationState ------------------------
(* The instance of AsyncOperationState that TLC checks has one thread of each *)
(* kind, so its configuration gives the constants their values directly.      *)
EXTENDS AsyncOperationState
=============================================================================
