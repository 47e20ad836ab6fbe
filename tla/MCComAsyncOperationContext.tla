--------------------- MODULE MCComAsyncOperationContext ---------------------
(* A context, its proxy h, and the operation a, which begins b. *)
EXTENDS ComAsyncOperationContext, TLC

CONSTANTS h, a, b

Nested == (h :> <<a>>) @@ (a :> <<b>>) @@ (b :> <<>>)
=============================================================================
