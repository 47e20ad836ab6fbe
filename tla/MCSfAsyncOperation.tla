------------------------- MODULE MCSfAsyncOperation -------------------------
(* Small trees of operations for TLC. *)
EXTENDS SfAsyncOperation, TLC

CONSTANTS r, a, b, c, d

\* The root begins b and then c, as in the test.
Siblings == (r :> <<b, c>>) @@ (b :> <<>>) @@ (c :> <<>>)

\* The root begins a, which begins b and then c; and then d.
Nested == (r :> <<a, d>>) @@ (a :> <<b, c>>) @@ (b :> <<>>) @@ (c :> <<>>) @@ (d :> <<>>)
=============================================================================
