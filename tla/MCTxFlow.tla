------------------------------ MODULE MCTxFlow ------------------------------
EXTENDS TxFlow
CONSTANTS w, p1, p2

To(q, p, s) == [iface |-> w, q |-> q, peer |-> p, stream |-> s]

\* Category 1 is VO, 2 is BE, queue 3 that of the pure ACKs.  Four ACKs of two
\* streams are the fewest for which the merging loses the newest of a stream.
FrameMix == <<To(3, p1, 1), To(3, p1, 2), To(3, p1, 2), To(3, p1, 1),
              To(2, p2, 0), To(2, p1, 0)>>
=============================================================================
