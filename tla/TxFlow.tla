------------------------------- MODULE TxFlow -------------------------------
(***************************************************************************)
(* The transmit path of the skwifi driver: skw_ndo_xmit (skw_core.c) puts  *)
(* a frame into a queue of its interface and wakes the TX worker;          *)
(* skw_tx_worker (skw_tx.c) moves the queues into its own cache, merges    *)
(* pure TCP ACKs, and sends batches to the bus as long as the firmware     *)
(* grants credit.  The network stack is held back with netdev queues that  *)
(* the callers stop and the worker restarts.                               *)
(*                                                                         *)
(* The quotas of the access categories decide how many frames each         *)
(* interface gives to a batch; here a batch takes any share of the         *)
(* interfaces that respects the credit and the packet limit of the bus.    *)
(* One firmware MAC (SKW_NR_LMAC is 1), the synchronous ADMA transfer.     *)
(***************************************************************************)
EXTENDS Naturals, Sequences, FiniteSets, SequencesExt

CONSTANTS
    Ifaces,      \* the interfaces
    NrAc,        \* SKW_WMM_AC_MAX, access categories 1..NrAc by priority
    BE,          \* the best-effort category, the one ACKs are merged into
    Peers,       \* stations frames are addressed to
    Frame,       \* Frame[n]: interface, queue, peer and TCP stream of frame n
    Bare,        \* pure ACKs without TCP options
    High, Low,   \* SKW_TXQ_HIGH_THRESHOLD, SKW_TXQ_LOW_THRESHOLD
    PktLimit,    \* hw.pkt_limit, less one for the end block on SDIO
    Credits,     \* credits the firmware grants
    MaxTrouble   \* bound: commands, thermal trips, links and peers that go
                 \* down and transfers the bus refuses, in total

Ac == 1..NrAc
AckQ == NrAc + 1          \* SKW_ACK_TXQ
Queue == 1..AckQ
FrameNo == DOMAIN Frame
Data == {n \in FrameNo : Frame[n].q \in Ac}

\* A batch is smaller than what is left below the low mark: 127 < 256 < 1000.
ASSUME TxAssumption ==
    /\ NrAc \in Nat \ {0} /\ BE \in Ac /\ IsFiniteSet(Ifaces)
    /\ Frame \in Seq([iface : Ifaces, q : Queue, peer : Peers, stream : Nat])
    /\ Bare \subseteq FrameNo
    /\ {PktLimit, Low, High, Credits} \subseteq Nat \ {0}
    /\ PktLimit < Low /\ Low < High
    /\ MaxTrouble \in Nat

VARIABLES
    txq,       \* iface->txq: frames the stack has handed over
    cache,     \* iface->tx_cache: frames the worker has taken
    stopped,   \* the netdev queue of a category is stopped
    xmit,      \* where skw_ndo_xmit of each interface is
    next,      \* the frame the stack sends next
    credit,    \* lmac->fw_credit
    fw,        \* frames in the firmware whose credit it still holds
    pending,   \* 1: tx_worker is queued on tx_wq
    pc, ac,    \* the worker: its place and the category it works on
    pend,      \* its pending_qlen
    batch,     \* txlp->tx_list
    capa,      \* lmac_tx_capa: credit was left when the batch was taken
    xcmd,      \* SKW_CMD_FLAG_XMIT
    thermal,   \* SKW_FLAG_FW_THERMAL
    deauth,    \* SKW_IFACE_FLAG_DEAUTH of each interface
    gone,      \* peers with SKW_PEER_FLAG_DEAUTHED
    used,      \* what MaxTrouble bounds
    sent, merged,          \* history: data frames sent, ACKs merged away
    leak,      \* history: credits spent on transfers the bus refused
    emptied,   \* history: frames were thrown away since the queue stopped
    thawed     \* history: the thermal stop was lifted and nothing woke TX yet

stack == <<txq, stopped, xmit, next>>
worker == <<cache, pc, ac, pend, batch, capa>>
flags == <<xcmd, thermal, deauth, gone, used>>
history == <<sent, merged, leak, emptied>>
vars == <<txq, cache, stopped, xmit, next, credit, fw, pending, pc, ac, pend,
          batch, capa, xcmd, thermal, deauth, gone, used, sent, merged, leak,
          emptied, thawed>>

Init ==
    /\ txq = [i \in Ifaces |-> [q \in Queue |-> <<>>]]
    /\ cache = [i \in Ifaces |-> [a \in Ac |-> <<>>]]
    /\ stopped = [i \in Ifaces |-> [a \in Ac |-> 0]]
    /\ xmit = [i \in Ifaces |-> [at |-> "idle", q |-> BE]]
    /\ next = 1
    /\ credit = Credits /\ fw = 0
    /\ pending = 1 /\ pc = "idle" /\ ac = 1 /\ pend = 0 /\ batch = <<>> /\ capa = 0
    /\ xcmd = 0 /\ thermal = 0 /\ gone = {}
    /\ deauth = [i \in Ifaces |-> 0]
    /\ used = 0
    /\ sent = <<>> /\ merged = {} /\ leak = 0
    /\ emptied = [i \in Ifaces |-> [a \in Ac |-> 0]]
    /\ thawed = 0

\* skw_wakeup_tx: queue_work on a work that is queued already does nothing,
\* on one that runs it makes the work run again.
Wake == pending' = 1 /\ thawed' = 0
NoWake == UNCHANGED <<pending, thawed>>
-----------------------------------------------------------------------------
(* skw_ndo_xmit *)

\* The stack hands a frame over, unless it holds back the netdev queue.  Pure
\* ACKs have a queue of their own.
XmitQueue(i) ==
    /\ xmit[i].at = "idle"
    /\ next \in FrameNo /\ Frame[next].iface = i
    /\ LET q == Frame[next].q
       IN  /\ q \in Ac => stopped[i][q] = 0
           /\ txq' = [txq EXCEPT ![i][q] = Append(@, next)]
           /\ xmit' = [xmit EXCEPT ![i] = [at |-> "queued", q |-> q]]
    /\ next' = next + 1
    /\ NoWake
    /\ UNCHANGED <<stopped, credit, fw, worker, flags, history>>

\* mutant: the caller wakes the worker only when it looks idle
XmitWakeIfIdle(i) ==
    /\ xmit[i].at = "queued"
    /\ IF pc = "idle" THEN Wake ELSE NoWake
    /\ xmit' = [xmit EXCEPT ![i].at = "woken"]
    /\ UNCHANGED <<txq, stopped, next, credit, fw, worker, flags, history>>

XmitWake(i) ==
    /\ xmit[i].at = "queued"
    /\ Wake
    /\ xmit' = [xmit EXCEPT ![i].at = "woken"]
    /\ UNCHANGED <<txq, stopped, next, credit, fw, worker, flags, history>>

\* The length of both queues is read without a lock; the worker cannot send
\* the High - Low frames in between that it would take to miss the stop.  The
\* ACK queue has no netdev queue (its index is past the last one).
XmitStop(i) ==
    /\ xmit[i].at = "woken"
    /\ LET q == xmit[i].q
           full == q \in Ac /\ Len(txq[i][q]) + Len(cache[i][q]) >= High
       IN  IF full /\ stopped[i][q] = 0
           THEN /\ stopped' = [stopped EXCEPT ![i][q] = 1]
                /\ emptied' = [emptied EXCEPT ![i][q] = 0]
           ELSE UNCHANGED <<stopped, emptied>>
    /\ xmit' = [xmit EXCEPT ![i].at = "idle"]
    /\ NoWake
    /\ UNCHANGED <<txq, next, credit, fw, worker, flags, sent, merged, leak>>
-----------------------------------------------------------------------------
(* skw_merge_pure_ack *)

\* The elements of s that are in A, in their order.
Only(s, A) ==
    LET some[n \in 0..Len(s)] ==
          IF n = 0 THEN <<>>
          ELSE IF s[n] \in A THEN Append(some[n - 1], s[n]) ELSE some[n - 1]
    IN  some[Len(s)]

\* mutant: an ACK of any stream is dropped
AnyStream(n) == FrameNo

\* skw_is_same_tcp_stream
SameStream(n) == {m \in FrameNo : Frame[m].stream = Frame[n].stream}

\* The queue of ACKs, what was put into the cache, and what was freed.
AckState == [ackq : Seq(FrameNo), out : Seq(FrameNo), drop : SUBSET FrameNo]

\* One turn of the outer loop: the last ACK goes out, after those it replaces.
\* The inner loop takes the ACKs from the head, puts those of other streams
\* back at the tail, and ends when it has looked at as many as the queue has by
\* then: every ACK of the stream that it meets makes it end one earlier.
AckTurn == [a \in AckState |->
    LET rest == Front(a.ackq)
        mine == SameStream(Last(a.ackq))
        Looked(v) == SubSeq(rest, 1, v)
        ends == {v \in 0..Len(rest) : v + Len(Only(Looked(v), mine)) >= Len(rest)}
        seen == Min(ends)
    IN  IF a.ackq = <<>> THEN a
        ELSE [ackq |-> SubSeq(rest, seen + 1, Len(rest))
                          \o Only(Looked(seen), FrameNo \ mine),
              out  |-> Append(a.out \o Only(Looked(seen), mine \ Bare), Last(a.ackq)),
              drop |-> a.drop \union (ToSet(Looked(seen)) \cap mine \cap Bare)]]

MergePureAck(ackq) ==
    LET turn[n \in 0..Len(ackq)] ==
          IF n = 0 THEN [ackq |-> ackq, out |-> <<>>, drop |-> {}]
          ELSE AckTurn[turn[n - 1]]
    IN  turn[Len(ackq)]
-----------------------------------------------------------------------------
(* skw_tx_worker *)

WorkerStart ==
    /\ pc = "idle" /\ pending = 1
    /\ pc' = "top" /\ pending' = 0
    /\ UNCHANGED <<stack, cache, ac, pend, batch, capa, credit, fw, flags, history, thawed>>

\* mutant: while TX is stopped the worker returns before it looks at the command
WorkerTopStopFirst ==
    /\ pc = "top"
    /\ xcmd' = IF thermal = 1 THEN xcmd ELSE 0
    /\ IF thermal = 1 \/ credit = 0
       THEN pc' = "idle" /\ UNCHANGED <<ac, pend>>
       ELSE pc' = "gather" /\ ac' = 1 /\ pend' = 0
    /\ NoWake
    /\ UNCHANGED <<stack, cache, batch, capa, credit, fw, thermal, deauth, gone, used, history>>

\* A waiting command goes first.  Without credit the worker polls for up to
\* tx_wait_time and returns: the polls are stuttering steps.
WorkerTop ==
    /\ pc = "top"
    /\ xcmd' = 0
    /\ IF thermal = 1 \/ credit = 0
       THEN pc' = "idle" /\ UNCHANGED <<ac, pend>>
       ELSE pc' = "gather" /\ ac' = 1 /\ pend' = 0
    /\ NoWake
    /\ UNCHANGED <<stack, cache, batch, capa, credit, fw, thermal, deauth, gone, used, history>>

\* mutant: the frames of the queue are put before those of the cache
TakenInFront(i) ==
    (IF ac = BE THEN MergePureAck(txq[i][AckQ]).out ELSE <<>>)
        \o txq[i][ac] \o cache[i][ac]

\* What is in the cache of an interface once the worker has taken its queue.
Taken(i) ==
    cache[i][ac] \o (IF ac = BE THEN MergePureAck(txq[i][AckQ]).out ELSE <<>>)
                 \o txq[i][ac]

\* The queues of one category go into the caches; an interface that is being
\* disconnected loses what it has there.
WorkerGather ==
    LET down == {i \in Ifaces : deauth[i] = 1}
    IN  /\ pc = "gather"
        /\ txq' = [i \in Ifaces |-> [q \in Queue |->
                     IF q = ac \/ (q = AckQ /\ ac = BE) THEN <<>> ELSE txq[i][q]]]
        /\ cache' = [i \in Ifaces |-> [cache[i] EXCEPT ![ac] =
                       IF i \in down THEN <<>> ELSE Taken(i)]]
        /\ merged' = merged \union
             (IF ac = BE THEN UNION {MergePureAck(txq[i][AckQ]).drop : i \in Ifaces}
              ELSE {})
        /\ emptied' = [i \in Ifaces |-> [emptied[i] EXCEPT ![ac] =
                         IF i \in down /\ Taken(i) # <<>> THEN 1 ELSE @]]
        /\ pc' = "check"
        /\ NoWake
        /\ UNCHANGED <<stopped, xmit, next, ac, pend, batch, capa, credit, fw, flags, sent, leak>>

\* The end of a pass over the categories: with nothing left of what it counted
\* the worker takes one more look before it returns.
PassEnd(n) == IF n = 0 THEN "scan" ELSE "top"

\* ac_qlen: the frames of the category in all caches.
QueueLen == FoldSet(LAMBDA i, n : n + Len(cache[i][ac]), 0, Ifaces)

\* mutant: the pass runs on past the last category
WorkerCheckPastLast ==
    /\ pc = "check"
    /\ pend' = pend + QueueLen
    /\ IF \E i \in Ifaces : cache[i][ac] # <<>> THEN pc' = "send" /\ UNCHANGED ac
       ELSE pc' = "gather" /\ ac' = ac + 1
    /\ NoWake
    /\ UNCHANGED <<stack, cache, batch, capa, credit, fw, flags, history>>

\* mutant: a stopped queue is restarted when it has become empty
RestartsWhenEmpty(i) == cache[i][ac] = <<>>

Restarts(i) == Len(cache[i][ac]) < Low

\* The interfaces with frames get their netdev queue back below the low mark;
\* a category without frames is passed over.
WorkerCheck ==
    LET held == {i \in Ifaces : cache[i][ac] # <<>>}
    IN  /\ pc = "check"
        /\ stopped' = [i \in Ifaces |-> [stopped[i] EXCEPT ![ac] =
                         IF i \in held /\ Restarts(i) THEN 0 ELSE @]]
        /\ pend' = pend + QueueLen
        /\ IF held # {} THEN pc' = "send" /\ UNCHANGED ac
           ELSE IF ac < NrAc THEN pc' = "gather" /\ ac' = ac + 1
           ELSE pc' = PassEnd(pend') /\ UNCHANGED ac
        /\ NoWake
        /\ UNCHANGED <<txq, xmit, next, cache, batch, capa, credit, fw, flags, history>>

\* The first k[i] frames of each cache go out, but not those that are addressed
\* to a peer that left.
Valid == {n \in FrameNo : Frame[n].peer \notin gone}
Heads(i, k) == SubSeq(cache[i][ac], 1, k[i])
Batch(k) == FoldSet(LAMBDA i, s : Only(Heads(i, k), Valid) \o s, <<>>, Ifaces)

\* What a batch may take: within credit and packet limit, something at least.
\* The base quota is at least one frame for every queue.
Share(k) ==
    /\ \A i \in Ifaces : k[i] <= Len(cache[i][ac])
    /\ \E i \in Ifaces : k[i] > 0
    /\ Len(Batch(k)) \in (0..PktLimit) \cap (0..credit)

WorkerSend ==
    /\ pc = "send"
    /\ IF credit = 0
       THEN pc' = PassEnd(pend) /\ UNCHANGED <<cache, pend, batch, capa, emptied>>
       ELSE \E k \in [Ifaces -> 0..Len(Frame)] :
              /\ Share(k)
              /\ emptied' = [i \in Ifaces |-> [emptied[i] EXCEPT ![ac] =
                               IF ToSet(Heads(i, k)) \subseteq Valid THEN @ ELSE 1]]
              /\ cache' = [i \in Ifaces |-> [cache[i] EXCEPT ![ac] =
                             SubSeq(@, k[i] + 1, Len(@))]]
              /\ batch' = Batch(k)
              /\ pend' = pend - Len(Batch(k))
              /\ capa' = IF credit > Len(Batch(k)) THEN 1 ELSE 0
              /\ pc' = "bus"
    /\ NoWake
    /\ UNCHANGED <<stack, ac, credit, fw, flags, sent, merged, leak>>

\* mutant: the block that ends the batch is charged too
ChargeEof == credit - Min({credit, Len(batch) + 1})

\* What skw_sub_credit leaves.
Charge == credit - Len(batch)

\* skw_sdio_xmit and skw_sync_adma_tx: the credit is spent and the frames are
\* freed whether or not the bus took them.
WorkerBus ==
    /\ pc = "bus"
    /\ credit' = Charge
    /\ batch' = <<>>
    /\ \/ /\ sent' = sent \o Only(batch, Data)
          /\ fw' = fw + Len(batch)
          /\ UNCHANGED <<leak, used>>
       \/ /\ batch # <<>> /\ used < MaxTrouble
          /\ used' = used + 1
          /\ leak' = leak + Len(batch)
          /\ UNCHANGED <<sent, fw>>
    /\ IF capa = 0 THEN pc' = PassEnd(pend) /\ UNCHANGED ac
       ELSE IF ac < NrAc THEN pc' = "gather" /\ ac' = ac + 1
       ELSE pc' = PassEnd(pend) /\ UNCHANGED ac
    /\ NoWake
    /\ UNCHANGED <<stack, cache, pend, capa, xcmd, thermal, deauth, gone, merged,
                   emptied>>

\* One more look at the queues (not at that of the ACKs), then the worker
\* returns.  What comes after the look has queued the work again.
WorkerEnd ==
    /\ \/ /\ pc = "scan"
          /\ pc' = IF \/ xcmd = 1
                      \/ \E i \in Ifaces, a \in Ac :
                            cache[i][a] # <<>> \/ txq[i][a] # <<>>
                   THEN "top" ELSE "leave"
       \/ pc = "leave" /\ pc' = "idle"
    /\ NoWake
    /\ UNCHANGED <<stack, cache, ac, pend, batch, capa, credit, fw, flags, history>>

Worker == \/ WorkerStart \/ WorkerTop \/ WorkerGather \/ WorkerCheck
          \/ WorkerSend \/ WorkerBus \/ WorkerEnd
-----------------------------------------------------------------------------
(* The firmware, the commands and the links *)

\* skw_add_credit
CreditReturn ==
    /\ fw > 0
    /\ fw' = fw - 1 /\ credit' = credit + 1
    /\ Wake
    /\ UNCHANGED <<stack, worker, flags, history>>

\* skw_msg_xmit_timeout and skw_msg_try_send leave a command to the worker.
SendCommand ==
    /\ xcmd = 0 /\ used < MaxTrouble
    /\ xcmd' = 1 /\ used' = used + 1
    /\ Wake
    /\ UNCHANGED <<stack, worker, credit, fw, thermal, deauth, gone, history>>

\* skw_event_thermal_warn: the netdev queues are stopped, or started, but the
\* worker is not woken when the stop is lifted.
ThermalTrip ==
    /\ thermal = 0 /\ used < MaxTrouble
    /\ thermal' = 1 /\ used' = used + 1
    /\ stopped' = [i \in Ifaces |-> [a \in Ac |-> 1]]
    /\ NoWake
    /\ UNCHANGED <<txq, xmit, next, worker, credit, fw, xcmd, deauth, gone, history>>

ThermalResume ==
    /\ thermal = 1
    /\ thermal' = 0 /\ thawed' = 1
    /\ stopped' = [i \in Ifaces |-> [a \in Ac |-> 0]]
    /\ UNCHANGED <<txq, xmit, next, worker, credit, fw, xcmd, deauth, gone, used,
                   pending, history>>

\* skw_stop_ap and skw_disconnect set the flag for the time of the command;
\* a refused stop, a done disconnect or the next start clears it.
LinkDown(i) ==
    /\ deauth[i] = 0 /\ used < MaxTrouble
    /\ deauth' = [deauth EXCEPT ![i] = 1]
    /\ used' = used + 1
    /\ NoWake
    /\ UNCHANGED <<stack, worker, credit, fw, xcmd, thermal, gone, history>>

LinkReset(i) ==
    /\ deauth[i] = 1
    /\ deauth' = [deauth EXCEPT ![i] = 0]
    /\ NoWake
    /\ UNCHANGED <<stack, worker, credit, fw, xcmd, thermal, gone, used, history>>

\* skw_delete_station and skw_event_disconnect: the peer is marked, and its
\* entry is unbound once the firmware has removed it.
PeerLeaves(p) ==
    /\ p \notin gone /\ used < MaxTrouble
    /\ gone' = gone \union {p}
    /\ used' = used + 1
    /\ NoWake
    /\ UNCHANGED <<stack, worker, credit, fw, xcmd, thermal, deauth, history>>

PeerUnbound(p) ==
    /\ p \in gone
    /\ gone' = gone \ {p}
    /\ NoWake
    /\ UNCHANGED <<stack, worker, credit, fw, xcmd, thermal, deauth, used, history>>
-----------------------------------------------------------------------------
Xmit(i) == XmitQueue(i) \/ XmitWake(i) \/ XmitStop(i)

Next ==
    \/ \E i \in Ifaces : Xmit(i) \/ LinkDown(i) \/ LinkReset(i)
    \/ Worker \/ CreditReturn \/ SendCommand \/ ThermalTrip \/ ThermalResume
    \/ \E p \in Peers : PeerLeaves(p) \/ PeerUnbound(p)

Spec == Init /\ [][Next]_vars

\* The work queue runs queued work and the softirq of a caller goes on; the
\* firmware gives back the credit of every frame it got.
FairSpec ==
    /\ Spec /\ WF_vars(Worker) /\ WF_vars(CreditReturn)
    /\ \A i \in Ifaces : WF_vars(XmitWake(i) \/ XmitStop(i))
-----------------------------------------------------------------------------
(* Properties *)

Place == {"idle", "top", "gather", "check", "send", "bus", "scan", "leave"}

\* Types: above all, the counters of credit and of frames never go negative.
TypeOK ==
    /\ txq \in [Ifaces -> [Queue -> Seq(FrameNo)]]
    /\ cache \in [Ifaces -> [Ac -> Seq(FrameNo)]]
    /\ stopped \in [Ifaces -> [Ac -> {0, 1}]]
    /\ xmit \in [Ifaces -> [at : {"idle", "queued", "woken"}, q : Queue]]
    /\ next \in 1..Len(Frame) + 1
    /\ used \in 0..MaxTrouble /\ credit \in Nat /\ fw \in Nat /\ leak \in Nat /\ pend \in Nat
    /\ {pending, capa, xcmd, thermal, thawed} \subseteq {0, 1}
    /\ pc \in Place /\ ac \in Ac
    /\ batch \in Seq(FrameNo) /\ sent \in Seq(FrameNo)
    /\ deauth \in [Ifaces -> {0, 1}] /\ gone \subseteq Peers
    /\ emptied \in [Ifaces -> [Ac -> {0, 1}]]
    /\ merged \subseteq FrameNo

\* The worker, the firmware and the bus between them account for every credit:
\* a wrong count in skw_sub_credit or skw_add_credit stalls TX or overruns the
\* firmware's buffers.
CreditsAccounted == credit + fw + leak = Credits

\* The worker is asleep with frames waiting only for want of credit, under the
\* thermal stop, or after that stop until something wakes it: no wakeup of
\* skw_wakeup_tx is lost against the worker's last look at the queues.
FramesWaiting == \E i \in Ifaces :
    \/ \E q \in Queue : txq[i][q] # <<>>
    \/ \E a \in Ac : cache[i][a] # <<>>
NoFrameForgotten ==
    (pc = "idle" /\ pending = 0 /\ \A i \in Ifaces : xmit[i].at # "queued")
        => (FramesWaiting => credit = 0 \/ thermal = 1 \/ thawed = 1)

\* The data frames of one interface and category leave in the order in which
\* the stack sent them, across the caches and the splitting into batches.
InOrder ==
    \A j, k \in DOMAIN sent :
        LET f == Frame[sent[j]]
            g == Frame[sent[k]]
        IN  j < k /\ f.iface = g.iface /\ f.q = g.q => sent[j] < sent[k]

\* Two ACKs of one other stream have been handed over at the interface of n.
OtherPair(n) ==
    \E x, y \in 1..next - 1 :
        /\ x # y /\ Frame[x].stream = Frame[y].stream /\ Frame[x].stream # Frame[n].stream
        /\ \A z \in {x, y} : Frame[z].q = AckQ /\ Frame[z].iface = Frame[n].iface

\* A pure ACK is merged away only when it has no TCP options and an ACK of its
\* stream is kept for good, the newer one.  Only when two ACKs of another stream
\* were there as well may it be the newest that is thrown away for an older one:
\* merging them ends the inner loop before it has put the queue back in order.
MergedAckIsCovered ==
    \A n \in merged :
        /\ n \in Bare
        /\ \E m \in (1..next - 1) \ merged :
              /\ Frame[m].stream = Frame[n].stream
              /\ n < m \/ OtherPair(n)

\* A netdev queue is left stopped with nothing behind it, so that nobody will
\* restart it, only after a disconnect or a leaving peer threw frames away.
OnlyWipeStrandsQueue ==
    \A i \in Ifaces, a \in Ac :
        stopped[i][a] = 1 /\ thermal = 0 /\ txq[i][a] = <<>> /\ cache[i][a] = <<>>
            => emptied[i][a] = 1

\* Unless the firmware is overheated, has been and nobody woke TX, or the bus
\* has eaten all credit, every frame the stack handed over leaves the queues:
\* they run empty again and again.  The worker takes a command up whatever the
\* data path is short of (what the bus does with it is CmdChannel's matter).
Flows == thermal = 0 /\ thawed = 0 /\ leak < Credits
TrafficLeaves == []<>(xcmd = 0 /\ (Flows => ~FramesWaiting))
=============================================================================
