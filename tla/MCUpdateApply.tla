--------------------------- MODULE MCUpdateApply ---------------------------
(* An instance of UpdateApply for TLC: three packages of which the third    *)
(* does not unpack.                                                         *)
EXTENDS UpdateApply, TLC

CONSTANTS p, q, r,   \* package files
          A, B, C    \* contents

ContentOfABC == (p :> A) @@ (q :> B) @@ (r :> C)

=============================================================================
