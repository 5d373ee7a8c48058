------------------------------- MODULE MCScan -------------------------------
(* Two interfaces; an address is used again for the next request.           *)
EXTENDS Scan, TLC
CONSTANTS r1, r2, w1, w2
WdevOfEach == (r1 :> w1) @@ (r2 :> w2)
TimeoutOf == [r \in {r1, r2} |-> 1] @@ (Cqm :> 0)
=============================================================================
