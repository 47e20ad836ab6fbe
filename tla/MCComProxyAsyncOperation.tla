---------------------- MODULE MCComProxyAsyncOperation ----------------------
(* The operation n, the proxy h of its context, and the operation a inside. *)
EXTENDS ComProxyAsyncOperation, TLC

CONSTANTS n, h, a

Layers == (n :> <<>>) @@ (h :> <<a>>) @@ (a :> <<>>)
=============================================================================
