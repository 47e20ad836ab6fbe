-------------------------- MODULE MCAsyncOperation --------------------------
(* Small trees of operations for TLC. *)
EXTENDS AsyncOperation, TLC

CONSTANTS h, a, b, c

\* The shape of the operations of the tests: a begins b and then c.
Sequential == (a :> <<b, c>>) @@ (b :> <<>>) @@ (c :> <<>>)

\* The same under an AsyncOperationRoot.
Hosted == (h :> <<a>>) @@ Sequential
=============================================================================
