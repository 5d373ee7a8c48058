----------------------------- MODULE PortStream -----------------------------
(***************************************************************************)
(* What a port without a callback promises its reader (recv_data): the     *)
(* packets the firmware sent come as a stream of bytes, each packet whole  *)
(* or not at all, no byte twice or out of place, and never more of them    *)
(* than the buffer has room for.                                           *)
(***************************************************************************)
EXTENDS Integers, Sequences

CONSTANTS Ports, Room, MaxLen, MaxSeqno

VARIABLES queue,    \* what has been accepted and not yet read
          got,      \* what the last read returned
          open      \* the port is open and its firmware lives

\* A packet is told by its number; its bytes by their place in it.
Packet(seqno, len) == [i \in 1..len |-> <<seqno, i>>]
Packets == {Packet(s, l) : s \in 1..MaxSeqno, l \in 1..MaxLen}

Init ==
    /\ queue = [p \in Ports |-> <<>>] /\ got = [p \in Ports |-> <<>>]
    /\ open \in [Ports -> BOOLEAN]

Accept(p) ==
    /\ \E packet \in Packets :
           /\ Len(queue[p]) + Len(packet) <= Room
           /\ queue' = [queue EXCEPT ![p] = @ \o packet]
    /\ UNCHANGED <<got, open>>

Read(p) ==
    /\ \E n \in 1..Len(queue[p]) :
           /\ got' = [got EXCEPT ![p] = SubSeq(queue[p], 1, n)]
           /\ queue' = [queue EXCEPT ![p] = SubSeq(@, n + 1, Len(@))]
    /\ UNCHANGED open

\* The reader asks anew, which may be what it does after a crash.
Ask(p) ==
    /\ got' = [got EXCEPT ![p] = <<>>]
    /\ open' \in {open, [open EXCEPT ![p] = TRUE]}
    /\ UNCHANGED queue

\* Only an open throws away what was not read.
Clear(p) ==
    /\ ~open[p] /\ open' = [open EXCEPT ![p] = TRUE]
    /\ queue' = [queue EXCEPT ![p] = <<>>]
    /\ UNCHANGED got

\* Closes, crashes and recoveries leave it alone.
Turn == open' \in [Ports -> BOOLEAN] /\ UNCHANGED <<queue, got>>

Next ==
    \/ Turn
    \/ \E p \in Ports : Accept(p) \/ Read(p) \/ Ask(p) \/ Clear(p)

Spec == Init /\ [][Next]_<<queue, got, open>>
=============================================================================
