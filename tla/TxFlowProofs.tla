---------------------------- MODULE TxFlowProofs ----------------------------
(***************************************************************************)
(* Proofs about TxFlow, for every number of interfaces, frames, credits    *)
(* and marks: all its safety invariants.  The credits are accounted for,   *)
(* the worker never sleeps over a frame it could send, no counter goes     *)
(* negative, a netdev queue is stranded only by frames thrown away, data   *)
(* frames leave in order, and a merged ACK has one that stands for it.     *)
(*                                                                         *)
(* What the recursive definitions of TxFlow compute is proved by first     *)
(* showing that the recursion has a solution (RecursionExists, FoldExists) *)
(* and then climbing it (Climb, Shrink).                                   *)
(***************************************************************************)
EXTENDS TxFlow, TLAPS, WellFoundedInduction, FiniteSetTheorems, SequenceTheorems
-----------------------------------------------------------------------------
(* Credits *)

\* A batch that waits for the bus is covered by the credit.
CreditInv ==
    /\ credit \in Nat /\ fw \in Nat /\ leak \in Nat
    /\ CreditsAccounted
    /\ pc = "bus" => Len(batch) \in 0..credit

LEMMA CreditInit == Init => CreditInv
  BY TxAssumption DEF Init, CreditInv, CreditsAccounted

LEMMA CreditNext == CreditInv /\ [Next]_vars => CreditInv'
<1> SUFFICES ASSUME CreditInv, [Next]_vars PROVE CreditInv'
  OBVIOUS
<1> USE DEF CreditInv, CreditsAccounted
<1>1. CASE \E i \in Ifaces : Xmit(i)
  BY <1>1 DEF Xmit, XmitQueue, XmitWake, XmitStop, worker, history
<1>2. CASE WorkerStart \/ WorkerTop \/ WorkerGather \/ WorkerCheck \/ WorkerEnd
  BY <1>2 DEF WorkerStart, WorkerTop, WorkerGather, WorkerCheck, WorkerEnd,
              PassEnd, history
<1>3. CASE WorkerSend
  <2>1. CASE credit = 0
    BY <1>3, <2>1 DEF WorkerSend, PassEnd
  <2>2. CASE credit # 0
    <3>1. PICK k \in [Ifaces -> 0..Len(Frame)] : Share(k) /\ batch' = Batch(k)
      BY <1>3, <2>2 DEF WorkerSend
    <3>2. Len(batch') \in 0..credit
      BY <3>1 DEF Share
    <3> QED
      BY <1>3, <3>2 DEF WorkerSend
  <2> QED BY <2>1, <2>2
<1>4. CASE WorkerBus
  <2>1. Len(batch) \in 0..credit /\ credit' = credit - Len(batch)
    BY <1>4 DEF WorkerBus, Charge
  <2>2. pc' # "bus"
    BY <1>4 DEF WorkerBus, PassEnd
  <2>3. \/ fw' = fw + Len(batch) /\ leak' = leak
        \/ fw' = fw /\ leak' = leak + Len(batch)
    BY <1>4 DEF WorkerBus
  <2> QED BY <2>1, <2>2, <2>3
<1>5. CASE CreditReturn
  BY <1>5 DEF CreditReturn, worker, history
<1>6. CASE SendCommand \/ ThermalTrip \/ ThermalResume
  BY <1>6 DEF SendCommand, ThermalTrip, ThermalResume, worker, history
<1>7. CASE \E i \in Ifaces : LinkDown(i) \/ LinkReset(i)
  BY <1>7 DEF LinkDown, LinkReset, worker, history
<1>8. CASE \E p \in Peers : PeerLeaves(p) \/ PeerUnbound(p)
  BY <1>8 DEF PeerLeaves, PeerUnbound, worker, history
<1>9. CASE UNCHANGED vars
  BY <1>9 DEF vars
<1> QED
  BY <1>1, <1>2, <1>3, <1>4, <1>5, <1>6, <1>7, <1>8, <1>9 DEF Next, Worker

\* Every credit the firmware granted is in the driver's counter, with a frame
\* in the firmware, or was spent on a transfer the bus refused.
THEOREM CreditsAreAccounted == Spec => []CreditsAccounted
<1>1. CreditInv => CreditsAccounted
  BY DEF CreditInv
<1> QED
  BY CreditInit, CreditNext, <1>1, PTL DEF Spec
-----------------------------------------------------------------------------
(* Wakeups *)

\* A wakeup is on its way: the work is queued, or a caller of skw_ndo_xmit is
\* about to queue it.
Covered == pending = 1 \/ \E i \in Ifaces : xmit[i].at = "queued"

DataWaiting == \E i \in Ifaces, a \in Ac : cache[i][a] # <<>> \/ txq[i][a] # <<>>
AckWaiting == \E i \in Ifaces : txq[i][AckQ] # <<>>

\* The worker will still come past the ACK queue, which its last look does not
\* see: it stands before the category the ACKs are merged into, or it leaves
\* the pass early because the credit is used up.
AckAhead ==
    \/ pc \in {"idle", "leave", "top"}
    \/ pc = "gather" /\ ac <= BE
    \/ pc \in {"check", "send", "bus"} /\ ac < BE
    \/ pc = "scan" /\ credit = 0

MayWait == credit = 0 \/ thermal = 1 \/ thawed = 1

WakeInv ==
    /\ xmit \in [Ifaces -> [at : {"idle", "queued", "woken"}, q : Queue]]
    /\ ac \in Ac
    /\ pc \in {"idle", "leave"} /\ (DataWaiting \/ AckWaiting) => Covered \/ MayWait
    /\ AckWaiting => Covered \/ AckAhead
    /\ pc = "bus" /\ capa = 0 => credit = Len(batch) \/ pending = 1

LEMMA WakeInit == Init => WakeInv
  BY TxAssumption DEF Init, WakeInv, Covered, AckWaiting, AckAhead, Queue, Ac, AckQ

\* A step of a caller or of the world outside keeps the worker where it is.
LEMMA WakeXmit ==
  ASSUME WakeInv, NEW i \in Ifaces, Xmit(i)
  PROVE  WakeInv'
<1> USE DEF WakeInv, worker, flags, history
<1>1. CASE XmitQueue(i)
  <2>1. Frame[next].q \in Queue
    <3> DEFINE FrameType == [iface : Ifaces, q : Queue, peer : Peers, stream : Nat]
    <3>1. Frame \in Seq(FrameType)
      BY TxAssumption
    <3>2. next \in DOMAIN Frame
      BY <1>1 DEF XmitQueue, FrameNo
    <3>3. Frame[next] \in FrameType
      <4> HIDE DEF FrameType
      <4> QED BY <3>1, <3>2
    <3> QED
      BY <3>3
  <2>2. xmit' \in [Ifaces -> [at : {"idle", "queued", "woken"}, q : Queue]]
    BY <1>1, <2>1 DEF XmitQueue
  <2>3. Covered'
    BY <1>1 DEF XmitQueue, Covered
  <2> QED
    BY <1>1, <2>2, <2>3 DEF XmitQueue, NoWake
<1>2. CASE XmitWake(i)
  BY <1>2 DEF XmitWake, Wake, Covered
<1>3. CASE XmitStop(i)
  <2>1. xmit' \in [Ifaces -> [at : {"idle", "queued", "woken"}, q : Queue]]
    BY <1>3 DEF XmitStop
  <2>2. Covered => Covered'
    BY <1>3 DEF XmitStop, NoWake, Covered
  <2>3. UNCHANGED <<txq, cache, credit, thermal, thawed, pc, ac, capa, batch, pending>>
    BY <1>3 DEF XmitStop, NoWake
  <2>4. (AckWaiting' <=> AckWaiting) /\ (DataWaiting' <=> DataWaiting)
        /\ (MayWait' <=> MayWait) /\ (AckAhead' <=> AckAhead)
    BY <2>3 DEF AckWaiting, DataWaiting, MayWait, AckAhead
  <2> QED
    BY <2>1, <2>2, <2>3, <2>4
<1> QED
  BY <1>1, <1>2, <1>3 DEF Xmit

LEMMA WakeOutside ==
  ASSUME WakeInv,
         \/ CreditReturn \/ SendCommand \/ ThermalTrip \/ ThermalResume
         \/ \E i \in Ifaces : LinkDown(i) \/ LinkReset(i)
         \/ \E p \in Peers : PeerLeaves(p) \/ PeerUnbound(p)
         \/ UNCHANGED vars
  PROVE  WakeInv'
<1> USE DEF WakeInv, worker, stack, history
<1>1. CASE CreditReturn \/ SendCommand
  BY <1>1 DEF CreditReturn, SendCommand, Wake, Covered
<1>2. CASE ~(CreditReturn \/ SendCommand)
  <2>1. UNCHANGED <<txq, cache, xmit, credit, pc, ac, capa, batch, pending>>
    BY <1>2 DEF ThermalTrip, ThermalResume, LinkDown, LinkReset, PeerLeaves,
                PeerUnbound, NoWake, vars
  <2>2. MayWait => MayWait'
    BY <1>2 DEF ThermalTrip, ThermalResume, LinkDown, LinkReset, PeerLeaves,
                PeerUnbound, NoWake, vars, MayWait
  <2>3. (AckWaiting' <=> AckWaiting) /\ (DataWaiting' <=> DataWaiting)
        /\ (Covered' <=> Covered) /\ (AckAhead' <=> AckAhead)
    BY <2>1 DEF AckWaiting, DataWaiting, Covered, AckAhead
  <2> QED
    BY <2>1, <2>2, <2>3
<1> QED
  BY <1>1, <1>2

LEMMA WakeWorker ==
  ASSUME WakeInv, CreditInv, Worker
  PROVE  WakeInv'
<1> USE DEF WakeInv
<1>0. /\ NrAc \in Nat /\ BE \in Ac /\ AckQ \notin Ac /\ AckQ \in Queue
      /\ \A a \in Ac : a < BE => a + 1 \in Ac /\ a + 1 <= BE /\ a < NrAc
      /\ \A a \in Ac : a <= BE /\ a # BE => a < BE
  <2>1. NrAc \in Nat /\ BE \in 1..NrAc
    BY TxAssumption DEF Ac
  <2> QED
    BY <2>1 DEF Ac, AckQ, Queue
<1>1. CASE WorkerStart
  BY <1>1 DEF WorkerStart, stack, AckAhead
<1>2. CASE WorkerTop
  <2>1. UNCHANGED <<txq, xmit, pending, credit, thermal>> /\ ac' \in Ac
    BY <1>2, TxAssumption DEF WorkerTop, NoWake, stack, Ac
  <2>2. (pc' = "idle" /\ MayWait') \/ (pc' = "gather" /\ ac' <= BE)
    BY <1>2, TxAssumption DEF WorkerTop, MayWait, Ac
  <2> QED
    BY <2>1, <2>2 DEF AckAhead
<1>3. CASE WorkerGather
  <2>1. UNCHANGED <<xmit, pending, ac>> /\ pc' = "check"
    BY <1>3 DEF WorkerGather, NoWake
  <2>2. AckWaiting' => AckWaiting /\ ac # BE
    BY <1>3, <1>0 DEF WorkerGather, AckWaiting
  <2>3. Covered' <=> Covered
    BY <2>1 DEF Covered
  <2>4. AckAhead /\ ac # BE => AckAhead'
    BY <1>3, <2>1, <1>0 DEF WorkerGather, AckAhead
  <2> QED
    BY <2>1, <2>2, <2>3, <2>4
<1>4. ASSUME UNCHANGED <<txq, xmit, pending>>
      PROVE  (AckWaiting' <=> AckWaiting) /\ (Covered' <=> Covered)
  BY <1>4 DEF AckWaiting, Covered
<1>5. CASE WorkerCheck
  <2>1. UNCHANGED <<txq, xmit, pending, credit>>
    BY <1>5 DEF WorkerCheck, NoWake
  <2>2. \/ pc' = "send" /\ ac' = ac
        \/ pc' = "gather" /\ ac' = ac + 1 /\ ac < NrAc
        \/ pc' \in {"scan", "top"} /\ ac' = ac /\ ~(ac < NrAc)
    BY <1>5 DEF WorkerCheck, PassEnd
  <2>3. ac' \in Ac
    BY <2>2, TxAssumption DEF Ac
  <2>4. AckAhead => AckAhead'
    BY <1>5, <2>2, <1>0 DEF WorkerCheck, AckAhead
  <2> QED
    BY <1>4, <2>1, <2>2, <2>3, <2>4
<1>6. CASE WorkerSend
  <2>1. UNCHANGED <<txq, xmit, pending, credit, ac>>
    BY <1>6 DEF WorkerSend, NoWake, stack
  <2>2. CASE credit = 0
    <3>1. pc' \in {"scan", "top"}
      BY <1>6, <2>2 DEF WorkerSend, PassEnd
    <3> QED
      BY <1>4, <2>1, <2>2, <3>1 DEF AckAhead
  <2>3. CASE credit # 0
    <3>1. pc' = "bus" /\ capa' = (IF credit > Len(batch') THEN 1 ELSE 0)
      BY <1>6, <2>3 DEF WorkerSend
    <3>2. PICK k \in [Ifaces -> 0..Len(Frame)] : Share(k) /\ batch' = Batch(k)
      BY <1>6, <2>3 DEF WorkerSend
    <3>3. Len(batch') \in 0..credit
      BY <3>2 DEF Share
    <3>4. capa' = 0 => credit' = Len(batch')
      BY <2>1, <3>1, <3>3 DEF CreditInv
    <3>5. AckAhead => AckAhead'
      BY <1>6, <2>1, <3>1 DEF WorkerSend, AckAhead
    <3> QED
      BY <1>4, <2>1, <3>1, <3>4, <3>5
  <2> QED
    BY <2>2, <2>3
<1>7. CASE WorkerBus
  <2>1. UNCHANGED <<txq, xmit, pending, capa>> /\ pc = "bus"
    BY <1>7 DEF WorkerBus, NoWake, stack
  <2>2. credit' = credit - Len(batch) /\ credit \in Nat /\ Len(batch) \in 0..credit
    BY <1>7, <2>1 DEF WorkerBus, Charge, CreditInv
  <2>3. \/ pc' = "gather" /\ ac' = ac + 1 /\ ac < NrAc
        \/ pc' \in {"scan", "top"} /\ ac' = ac /\ (capa = 0 \/ ~(ac < NrAc))
    BY <1>7 DEF WorkerBus, PassEnd
  <2>4. ac' \in Ac
    BY <2>3, TxAssumption DEF Ac
  <2>5. capa = 0 => pending = 1 \/ credit' = 0
    BY <2>1, <2>2
  <2>6. AckAhead => AckAhead' \/ pending = 1
    BY <2>1, <2>3, <2>5, <1>0 DEF AckAhead
  <2> QED
    BY <1>4, <2>1, <2>3, <2>4, <2>6 DEF Covered
<1>8. CASE WorkerEnd
  <2>1. UNCHANGED <<txq, xmit, pending, cache, credit, thermal, thawed, ac, capa, batch>>
    BY <1>8 DEF WorkerEnd, NoWake, stack, flags
  <2>2. \/ pc = "scan" /\ pc' = "top"
        \/ pc = "scan" /\ pc' = "leave" /\ ~DataWaiting
        \/ pc = "leave" /\ pc' = "idle"
    BY <1>8 DEF WorkerEnd, DataWaiting
  <2>3. (DataWaiting' <=> DataWaiting) /\ (MayWait' <=> MayWait)
    BY <2>1 DEF DataWaiting, MayWait
  <2>4. AckAhead'
    BY <2>2 DEF AckAhead
  <2>5. pc = "scan" /\ AckAhead => MayWait
    BY DEF AckAhead, MayWait
  <2> QED
    BY <1>4, <2>1, <2>2, <2>3, <2>4, <2>5
<1> QED
  BY <1>1, <1>2, <1>3, <1>5, <1>6, <1>7, <1>8 DEF Worker

LEMMA WakeNext == WakeInv /\ CreditInv /\ [Next]_vars => WakeInv'
  BY WakeXmit, WakeWorker, WakeOutside DEF Next

LEMMA WakeSuffices == WakeInv => NoFrameForgotten
<1> SUFFICES ASSUME WakeInv, pc = "idle", pending = 0,
                    \A i \in Ifaces : xmit[i].at # "queued", FramesWaiting
             PROVE  MayWait
  BY DEF NoFrameForgotten, MayWait
<1>1. ~Covered
  BY DEF Covered
<1>2. \A q \in Queue : q \in Ac \/ q = AckQ
  BY TxAssumption DEF Queue, Ac, AckQ
<1>3. DataWaiting \/ AckWaiting
  BY <1>2 DEF FramesWaiting, DataWaiting, AckWaiting
<1> QED
  BY <1>1, <1>3 DEF WakeInv

\* For any interfaces, frames and marks, the worker never sleeps over a frame
\* that neither credit nor the thermal stop holds back: whatever a caller does
\* between the worker's last look and its return, a wakeup is on its way.
THEOREM NoFrameIsForgotten == Spec => []NoFrameForgotten
<1>1. Init => CreditInv /\ WakeInv
  BY CreditInit, WakeInit
<1>2. CreditInv /\ WakeInv /\ [Next]_vars => (CreditInv /\ WakeInv)'
  BY CreditNext, WakeNext
<1> QED
  BY <1>1, <1>2, WakeSuffices, PTL DEF Spec
-----------------------------------------------------------------------------
(* Recursion and finite sets *)

\* A set of numbers has a least element.
LEMMA LeastElement ==
  ASSUME NEW S, S \subseteq Nat, S # {}
  PROVE  \E m \in S : \A x \in S : m <= x
<1>1. PICK m \in S : \A x \in S : ~ (<<x, m>> \in OpToRel(<, Nat))
  BY NatLessThanWellFounded, WFMin
<1>2. ASSUME NEW x \in S PROVE m <= x
  <2>1. x \in Nat /\ m \in Nat
    OBVIOUS
  <2>2. ~ (<<x, m>> \in {r \in Nat \X Nat : r[1] < r[2]})
    BY <1>1 DEF OpToRel
  <2>3. ~ (x < m)
    BY <2>1, <2>2
  <2> QED
    BY <2>1, <2>3
<1> QED
  BY <1>2

\* Induction up to a bound.
LEMMA Climb ==
  ASSUME NEW N \in Nat, NEW P, 0 \in P, \A n \in 0..N : n < N /\ n \in P => n + 1 \in P
  PROVE  \A n \in 0..N : n \in P
<1> DEFINE Bad == {n \in 0..N : n \notin P}
<1> SUFFICES ASSUME Bad # {} PROVE FALSE
  OBVIOUS
<1>1. PICK m \in Bad : \A x \in Bad : m <= x
  <2>1. Bad \subseteq Nat
    OBVIOUS
  <2> HIDE DEF Bad
  <2> QED
    BY <2>1, LeastElement
<1>2. m # 0 /\ m - 1 \in 0..N /\ m - 1 \in P
  BY <1>1
<1> QED
  BY <1>1, <1>2

\* What the recursion over 0..N computes that begins with b and takes steps F.
Steps(N, T) == [1..N -> [T -> T]]
Solutions(N, T, b, F) ==
  {g \in [0..N -> T] : g[0] = b /\ \A n \in 1..N : g[n] = F[n][g[n - 1]]}

\* Every recursion over 0..N computes something.
LEMMA RecursionExists ==
  ASSUME NEW N \in Nat, NEW T, NEW b \in T, NEW F \in Steps(N, T)
  PROVE  Solutions(N, T, b, F) # {}
<1> USE DEF Steps, Solutions
<1> DEFINE Sol(g, m) == g[0] = b /\ \A n \in 1..m : g[n] = F[n][g[n - 1]]
           P == {m \in 0..N : \E g \in [0..N -> T] : Sol(g, m)}
<1>1. 0 \in P
  <2> DEFINE h == [n \in 0..N |-> b]
  <2>1. h \in [0..N -> T] /\ Sol(h, 0)
    OBVIOUS
  <2>2. \E g \in [0..N -> T] : Sol(g, 0)
    <3> HIDE DEF h, Sol
    <3> QED BY <2>1
  <2> QED
    <3> HIDE DEF Sol
    <3> QED BY <2>2
<1>2. ASSUME NEW m \in 0..N, m < N, m \in P PROVE m + 1 \in P
  <2>1. PICK g \in [0..N -> T] : Sol(g, m)
    BY <1>2
  <2> DEFINE h == [g EXCEPT ![m + 1] = F[m + 1][g[m]]]
  <2>2. m + 1 \in 1..N /\ m + 1 \in 0..N /\ g[m] \in T
    BY <1>2
  <2>3. F[m + 1][g[m]] \in T
    BY <2>2
  <2>4. h \in [0..N -> T] /\ h[m + 1] = F[m + 1][g[m]]
        /\ \A n \in 0..m : h[n] = g[n]
    BY <2>2, <2>3, <1>2
  <2>5. Sol(h, m + 1)
    <3>1. h[0] = b
      BY <2>1, <2>4
    <3> SUFFICES ASSUME NEW n \in 1..m + 1
                 PROVE  h[n] = F[n][h[n - 1]]
      BY <3>1
    <3> HIDE DEF h
    <3>2. CASE n = m + 1
      BY <2>4, <3>2
    <3>3. CASE n # m + 1
      BY <2>1, <2>4, <3>3
    <3> QED BY <3>2, <3>3
  <2>6. \E f \in [0..N -> T] : Sol(f, m + 1)
    <3> HIDE DEF h, Sol
    <3> QED BY <2>4, <2>5
  <2> QED
    <3> HIDE DEF Sol
    <3> QED BY <2>2, <2>6
<1>3. \A m \in 0..N : m \in P
  <2> HIDE DEF P
  <2>1. \A m \in 0..N : m < N /\ m \in P => m + 1 \in P
    BY <1>2
  <2> QED BY <1>1, <2>1, Climb
<1>4. N \in P
  BY <1>3
<1> QED
  BY <1>4

\* Induction over a finite set.
LEMMA Shrink ==
  ASSUME NEW S, IsFiniteSet(S), NEW P, {} \in P,
         \A s \in SUBSET S : s # {} => \E x \in s : s \ {x} \in P => s \in P
  PROVE  S \in P
<1> DEFINE N == Cardinality(S)
           C == {m \in 0..N : \A s \in SUBSET S : Cardinality(s) <= m => s \in P}
<1>1. N \in Nat /\ \A s \in SUBSET S : IsFiniteSet(s) /\ Cardinality(s) \in Nat
  BY FS_CardinalityType, FS_Subset
<1> HIDE DEF N
<1>2. 0 \in C
  <2> SUFFICES ASSUME NEW s \in SUBSET S, Cardinality(s) <= 0 PROVE s \in P
    BY <1>1
  <2>1. s = {}
    BY <1>1, FS_EmptySet
  <2> QED BY <2>1
<1>3. ASSUME NEW m \in 0..N, m < N, m \in C PROVE m + 1 \in C
  <2> SUFFICES ASSUME NEW s \in SUBSET S, Cardinality(s) <= m + 1, s # {} PROVE s \in P
    BY <1>1, <1>2, <1>3
  <2>1. PICK x \in s : s \ {x} \in P => s \in P
    OBVIOUS
  <2>2. Cardinality(s \ {x}) = Cardinality(s) - 1
    BY <1>1, FS_RemoveElement
  <2>3. Cardinality(s \ {x}) <= m
    BY <1>1, <2>2
  <2> QED BY <1>3, <2>1, <2>3
<1>4. \A m \in 0..N : m \in C
  <2> HIDE DEF C
  <2> QED BY <1>1, <1>2, <1>3, Climb
<1>5. N \in C
  BY <1>1, <1>4
<1> QED BY <1>1, <1>5 DEF N

\* What the recursion over the subsets of S computes that begins with b, takes
\* the elements in the order c and steps F.
SetSteps(S, T) == [S -> [T -> T]]
Chooses(S, c) == \A s \in SUBSET S : s # {} => c[s] \in s
SetSolutions(S, T, b, c, F) ==
  {g \in [SUBSET S -> T] : /\ g[{}] = b
                          /\ \A s \in SUBSET S : s # {} => g[s] = F[c[s]][g[s \ {c[s]}]]}

\* Every recursion over the subsets of a finite set computes something.
LEMMA FoldExists ==
  ASSUME NEW S, IsFiniteSet(S), NEW T, NEW b \in T, NEW c, Chooses(S, c),
         NEW F \in SetSteps(S, T)
  PROVE  SetSolutions(S, T, b, c, F) # {}
<1> DEFINE N == Cardinality(S)
           At(g, s) == /\ s = {} => g[s] = b
                       /\ s # {} => g[s] = F[c[s]][g[s \ {c[s]}]]
           Sol(g, m) == \A s \in SUBSET S : Cardinality(s) <= m => At(g, s)
           C == {m \in 0..N : \E g \in [SUBSET S -> T] : Sol(g, m)}
<1>1. N \in Nat /\ \A s \in SUBSET S : IsFiniteSet(s) /\ Cardinality(s) \in Nat
  BY FS_CardinalityType, FS_Subset
<1> HIDE DEF N
<1>2. 0 \in C
  <2> DEFINE g == [s \in SUBSET S |-> b]
  <2>1. g \in [SUBSET S -> T]
    OBVIOUS
  <2>2. Sol(g, 0)
    <3> SUFFICES ASSUME NEW s \in SUBSET S, Cardinality(s) <= 0 PROVE At(g, s)
      OBVIOUS
    <3>1. s = {}
      BY <1>1, FS_EmptySet
    <3> QED BY <3>1
  <2>3. \E f \in [SUBSET S -> T] : Sol(f, 0)
    <3> HIDE DEF g, Sol
    <3> QED BY <2>1, <2>2
  <2> HIDE DEF Sol
  <2> QED BY <1>1, <2>3
<1>3. ASSUME NEW m \in 0..N, m < N, m \in C PROVE m + 1 \in C
  <2>1. PICK g \in [SUBSET S -> T] : Sol(g, m)
    <3> HIDE DEF Sol
    <3> QED BY <1>3
  <2> DEFINE h == [s \in SUBSET S |-> IF s = {} THEN b ELSE F[c[s]][g[s \ {c[s]}]]]
  <2>2. \A s \in SUBSET S : s # {} => c[s] \in s /\ s \ {c[s]} \in SUBSET S
    BY DEF Chooses
  <2>3. h \in [SUBSET S -> T]
    <3> SUFFICES ASSUME NEW s \in SUBSET S, s # {} PROVE F[c[s]][g[s \ {c[s]}]] \in T
      OBVIOUS
    <3>1. c[s] \in S /\ g[s \ {c[s]}] \in T
      BY <2>2
    <3> QED BY <3>1 DEF SetSteps
  <2>4. Sol(h, m + 1)
    <3> SUFFICES ASSUME NEW s \in SUBSET S, Cardinality(s) <= m + 1, s # {}
                 PROVE  h[s] = F[c[s]][h[s \ {c[s]}]]
      OBVIOUS
    <3> DEFINE r == s \ {c[s]}
    <3>1. c[s] \in s /\ r \in SUBSET S
      BY <2>2
    <3>2. Cardinality(r) <= m
      BY <1>1, <3>1, FS_RemoveElement
    <3>3. At(g, r)
      <4> HIDE DEF r, At
      <4> QED BY <2>1, <3>1, <3>2
    <3>4. h[r] = g[r]
      <4> HIDE DEF r
      <4> QED BY <3>1, <3>3
    <3>5. h[s] = F[c[s]][g[r]]
      OBVIOUS
    <3> QED BY <3>4, <3>5
  <2>5. \E f \in [SUBSET S -> T] : Sol(f, m + 1)
    <3> HIDE DEF h, Sol
    <3> QED BY <2>3, <2>4
  <2> HIDE DEF Sol
  <2> QED BY <1>1, <1>3, <2>5
<1>4. \A m \in 0..N : m \in C
  <2> HIDE DEF C
  <2> QED BY <1>1, <1>2, <1>3, Climb
<1>5. PICK g \in [SUBSET S -> T] : Sol(g, N)
  <2>1. N \in C
    <3> HIDE DEF C
    <3> QED BY <1>1, <1>4
  <2> HIDE DEF Sol
  <2> QED BY <2>1
<1>6. \A s \in SUBSET S : Cardinality(s) <= N
  BY FS_Subset DEF N
<1>7. \A s \in SUBSET S : At(g, s)
  <2> HIDE DEF At
  <2> QED BY <1>5, <1>6
<1> QED
  BY <1>7 DEF SetSolutions

\* Only as the last value of a sequence of longer and longer results.
LEMMA OnlyDef ==
  ASSUME NEW s \in Seq(FrameNo), NEW A
  PROVE  \E some \in [0..Len(s) -> Seq(FrameNo)] :
           /\ some[0] = <<>>
           /\ \A n \in 1..Len(s) : some[n] = IF s[n] \in A THEN Append(some[n - 1], s[n])
                                             ELSE some[n - 1]
           /\ Only(s, A) = some[Len(s)]
<1> DEFINE L == Len(s)
           T == Seq(FrameNo)
           b == <<>>
           Step(n, t) == IF s[n] \in A THEN Append(t, s[n]) ELSE t
           F == [n \in 1..L |-> [t \in T |-> Step(n, t)]]
           Def(f) == [n \in 0..L |-> IF n = 0 THEN b ELSE Step(n, f[n - 1])]
           some == CHOOSE f : f = Def(f)
<1>0. L \in Nat /\ b \in T /\ \A n \in 1..L : s[n] \in FrameNo
  OBVIOUS
<1>1. \A n \in 1..L, t \in T : Step(n, t) \in T
  BY <1>0
<1>8. Only(s, A) = some[L]
  BY DEF Only
<1> HIDE DEF L, T, b, Step
<1>2. F \in Steps(L, T)
  BY <1>1 DEF Steps
<1>3. PICK g \in [0..L -> T] : g[0] = b /\ \A n \in 1..L : g[n] = F[n][g[n - 1]]
  <2>1. Solutions(L, T, b, F) # {}
    <3> HIDE DEF F
    <3> QED BY <1>0, <1>2, RecursionExists
  <2> QED BY <2>1 DEF Solutions
<1>4. g[0] = b /\ \A n \in 1..L : g[n] = Step(n, g[n - 1])
  <2> SUFFICES ASSUME NEW n \in 1..L PROVE g[n] = Step(n, g[n - 1])
    BY <1>3
  <2>1. n - 1 \in 0..L
    BY <1>0
  <2> QED BY <1>3, <2>1
<1>5. g = Def(g)
  BY <1>0, <1>4
<1>6. some = Def(some)
  <2> HIDE DEF Def
  <2> QED BY <1>5
<1>7. \A n \in 0..L : some[n] = g[n]
  <2> DEFINE P == {m \in 0..L : some[m] = g[m]}
  <2> HIDE DEF some
  <2>1. 0 \in P
    BY <1>0, <1>4, <1>6
  <2>2. ASSUME NEW m \in 0..L, m < L, m \in P PROVE m + 1 \in P
    <3>1. m + 1 \in 1..L /\ m + 1 \in 0..L /\ m + 1 # 0 /\ (m + 1) - 1 = m
      BY <1>0, <2>2
    <3>2. some[m + 1] = Step(m + 1, some[m])
      BY <1>6, <3>1
    <3>3. g[m + 1] = Step(m + 1, g[m])
      BY <1>4, <3>1
    <3> QED
      BY <2>2, <3>1, <3>2, <3>3
  <2>3. \A n \in 0..L : n \in P
    <3> HIDE DEF P
    <3> QED BY <1>0, <2>1, <2>2, Climb
  <2> QED BY <2>3
<1>9. Only(s, A) = g[L]
  <2> HIDE DEF some
  <2> QED BY <1>0, <1>7, <1>8
<1> QED
  <2> HIDE DEF some
  <2> QED BY <1>4, <1>9 DEF L, T, b, Step

\* t keeps elements of s that are in A, in the order of s: all when all are in
\* A, and some when some are.
Keeps(s, A, t) ==
    /\ t \in Seq(FrameNo) /\ Len(t) <= Len(s)
    /\ \A j \in 1..Len(t) : t[j] \in A /\ \E i \in 1..Len(s) : t[j] = s[i]
    /\ \A j, k \in 1..Len(t) : j < k =>
          \E h, i \in 1..Len(s) : h < i /\ t[j] = s[h] /\ t[k] = s[i]
    /\ (\A i \in 1..Len(s) : s[i] \in A) => Len(t) = Len(s)
    /\ Len(t) = 0 => \A i \in 1..Len(s) : s[i] \notin A

LEMMA OnlyKeeps ==
  ASSUME NEW s \in Seq(FrameNo), NEW A
  PROVE  Keeps(s, A, Only(s, A))
<1> DEFINE t == Only(s, A)
<1> DEFINE L == Len(s)
           Good(n, u) ==
             /\ Len(u) <= n
             /\ \A j \in 1..Len(u) : u[j] \in A /\ \E i \in 1..n : u[j] = s[i]
             /\ \A j, k \in 1..Len(u) : j < k =>
                   \E h, i \in 1..n : h < i /\ u[j] = s[h] /\ u[k] = s[i]
             /\ (\A i \in 1..n : s[i] \in A) => Len(u) = n
             /\ Len(u) = 0 => \A i \in 1..n : s[i] \notin A
<1> HIDE DEF t
<1>1. PICK some \in [0..L -> Seq(FrameNo)] :
           /\ some[0] = <<>>
           /\ \A n \in 1..L : some[n] = IF s[n] \in A THEN Append(some[n - 1], s[n])
                                       ELSE some[n - 1]
           /\ t = some[L]
  BY OnlyDef DEF t
<1>2. L \in Nat /\ \A n \in 1..L : s[n] \in FrameNo
  OBVIOUS
<1> HIDE DEF L
<1>3. ASSUME NEW n \in 0..L, n < L, Good(n, some[n]) PROVE Good(n + 1, some[n + 1])
  <2>1. n + 1 \in 1..L /\ n \in Nat /\ some[n] \in Seq(FrameNo) /\ s[n + 1] \in FrameNo
    BY <1>2, <1>3
  <2>2. CASE s[n + 1] \in A
    <3> DEFINE u == some[n]
               v == Append(u, s[n + 1])
    <3>1. some[n + 1] = v
      <4>1. some[n + 1] = Append(some[(n + 1) - 1], s[n + 1])
        BY <1>1, <2>1, <2>2
      <4>2. (n + 1) - 1 = n
        BY <2>1
      <4> QED BY <4>1, <4>2
    <3>2. Len(u) \in Nat /\ Len(v) = Len(u) + 1 /\ v[Len(u) + 1] = s[n + 1]
          /\ \A j \in 1..Len(u) : v[j] = u[j]
      BY <2>1
    <3>3. Good(n, u)
      BY <1>3
    <3> HIDE DEF u, v
    <3>4. Good(n + 1, v)
      <4>1. Len(v) <= n + 1 /\ Len(v) # 0
        BY <2>1, <3>2, <3>3
      <4>2. ASSUME NEW j \in 1..Len(v)
            PROVE  v[j] \in A /\ \E i \in 1..n + 1 : v[j] = s[i]
        <5>1. CASE j = Len(u) + 1
          BY <5>1, <3>2, <2>1, <2>2
        <5>2. CASE j \in 1..Len(u)
          <6>1. PICK i \in 1..n : u[j] = s[i]
            BY <3>3, <5>2
          <6> QED BY <6>1, <5>2, <3>2, <3>3, <2>1
        <5> QED BY <3>2, <5>1, <5>2
      <4>3. ASSUME NEW j \in 1..Len(v), NEW k \in 1..Len(v), j < k
            PROVE  \E h, i \in 1..n + 1 : h < i /\ v[j] = s[h] /\ v[k] = s[i]
        <5>1. j \in 1..Len(u)
          BY <4>3, <3>2
        <5>2. CASE k = Len(u) + 1
          <6>1. PICK h \in 1..n : u[j] = s[h]
            BY <3>3, <5>1
          <6>2. h < n + 1 /\ v[j] = s[h] /\ v[k] = s[n + 1] /\ h \in 1..n + 1
                /\ n + 1 \in 1..n + 1
            BY <6>1, <5>1, <5>2, <3>2, <2>1
          <6> QED BY <6>2
        <5>3. CASE k \in 1..Len(u)
          <6>1. PICK h \in 1..n, i \in 1..n : h < i /\ u[j] = s[h] /\ u[k] = s[i]
            BY <3>3, <5>1, <5>3, <4>3
          <6>2. v[j] = s[h] /\ v[k] = s[i] /\ h \in 1..n + 1 /\ i \in 1..n + 1
            BY <6>1, <5>1, <5>3, <3>2, <2>1
          <6> QED BY <6>1, <6>2
        <5> QED BY <3>2, <5>2, <5>3
      <4>4. (\A i \in 1..n + 1 : s[i] \in A) => Len(v) = n + 1
        BY <3>2, <3>3, <2>1
      <4> QED BY <4>1, <4>2, <4>3, <4>4
    <3> QED BY <3>1, <3>4
  <2>3. CASE s[n + 1] \notin A
    <3>1. some[n + 1] = some[n]
      BY <1>1, <1>2, <2>1, <2>3
    <3> DEFINE u == some[n]
    <3>2. Len(u) \in Nat /\ Good(n, u)
      BY <1>3, <2>1
    <3>3. \A i \in 1..n + 1 : i \in 1..n \/ i = n + 1
      BY <2>1
    <3>4. 1..n \subseteq 1..n + 1 /\ n + 1 \in 1..n + 1
      BY <2>1
    <3> HIDE DEF u
    <3>5. Good(n + 1, u)
      BY <2>1, <2>3, <3>2, <3>3, <3>4
    <3> QED BY <3>1, <3>5 DEF u
  <2> QED BY <2>2, <2>3
<1>4. \A n \in 0..L : Good(n, some[n])
  <2> DEFINE P == {n \in 0..L : Good(n, some[n])}
  <2>1. 0 \in P
    BY <1>1, <1>2
  <2>2. ASSUME NEW n \in 0..L, n < L, n \in P PROVE n + 1 \in P
    <3> HIDE DEF Good
    <3> QED BY <1>2, <1>3, <2>2
  <2>3. \A n \in 0..L : n \in P
    <3> HIDE DEF P
    <3> QED BY <1>2, <2>1, <2>2, Climb
  <2> HIDE DEF Good
  <2> QED BY <2>3
<1>5. L \in 0..L /\ some[L] \in Seq(FrameNo)
  BY <1>2
<1>6. t = some[L] /\ Good(L, t)
  <2> HIDE DEF Good
  <2> QED BY <1>1, <1>4, <1>5
<1>7. t \in Seq(FrameNo)
  BY <1>5, <1>6
<1> QED
  BY <1>6, <1>7 DEF L, t, Keeps

LEMMA OnlyType ==
  ASSUME NEW s \in Seq(FrameNo), NEW A
  PROVE  Only(s, A) \in Seq(FrameNo)
  BY OnlyKeeps DEF Keeps
-----------------------------------------------------------------------------
(* Merging pure ACKs *)

Elems(s) == {s[j] : j \in 1..Len(s)}

\* What one turn does: it looks at the first v ACKs of the rest of the queue.
TurnLooksAt(a, b, v) ==
    LET rest == Front(a.ackq)
        mine == SameStream(Last(a.ackq))
        looked == SubSeq(rest, 1, v)
    IN  /\ v \in 0..Len(rest) /\ v + Len(Only(looked, mine)) >= Len(rest)
        /\ b.ackq = SubSeq(rest, v + 1, Len(rest)) \o Only(looked, FrameNo \ mine)
        /\ b.out = Append(a.out \o Only(looked, mine \ Bare), Last(a.ackq))
        /\ b.drop = a.drop \union (ToSet(looked) \cap mine \cap Bare)

LEMMA TurnLooks ==
  ASSUME NEW a \in AckState
  PROVE  /\ AckTurn[a] \in AckState
         /\ a.ackq = <<>> => AckTurn[a] = a
         /\ a.ackq # <<>> => \E v \in Nat : TurnLooksAt(a, AckTurn[a], v)
<1> DEFINE rest == Front(a.ackq)
           last == Last(a.ackq)
           mine == SameStream(last)
           Looked(v) == SubSeq(rest, 1, v)
           ends == {v \in 0..Len(rest) : v + Len(Only(Looked(v), mine)) >= Len(rest)}
           seen == Min(ends)
           b == [ackq |-> SubSeq(rest, seen + 1, Len(rest))
                          \o Only(Looked(seen), FrameNo \ mine),
                 out  |-> Append(a.out \o Only(Looked(seen), mine \ Bare), last),
                 drop |-> a.drop \union (ToSet(Looked(seen)) \cap mine \cap Bare)]
<1>1. AckTurn[a] = IF a.ackq = <<>> THEN a ELSE b
  BY DEF AckTurn
<1>2. CASE a.ackq = <<>>
  BY <1>1, <1>2
<1>3. CASE a.ackq # <<>>
  <2>1. rest = SubSeq(a.ackq, 1, Len(a.ackq) - 1) /\ last = a.ackq[Len(a.ackq)]
    BY DEF Front, Last
  <2>2. /\ a.ackq \in Seq(FrameNo) /\ Len(a.ackq) \in Nat \ {0}
        /\ a.out \in Seq(FrameNo) /\ a.drop \subseteq FrameNo
    BY <1>3 DEF AckState
  <2>3. rest \in Seq(FrameNo) /\ last \in FrameNo /\ Len(rest) \in Nat
    BY <2>1, <2>2
  <2> HIDE DEF rest, last, mine
  <2>4. \A v \in 0..Len(rest) : Looked(v) \in Seq(FrameNo) /\ Len(Looked(v)) = v
                               /\ ToSet(Looked(v)) \subseteq FrameNo
    <3> SUFFICES ASSUME NEW v \in 0..Len(rest)
                 PROVE  /\ Looked(v) \in Seq(FrameNo) /\ Len(Looked(v)) = v
                        /\ ToSet(Looked(v)) \subseteq FrameNo
      OBVIOUS
    <3>1. Looked(v) \in Seq(FrameNo) /\ Len(Looked(v)) = v
      BY <2>3
    <3> QED BY <3>1 DEF ToSet
  <2>5. \A v \in 0..Len(rest) : \A A : Only(Looked(v), A) \in Seq(FrameNo)
    <3> HIDE DEF Looked
    <3> QED BY <2>4, OnlyType
  <2>6. seen \in ends
    <3>1. Len(rest) \in ends
      <4>1. Len(Only(Looked(Len(rest)), mine)) \in Nat /\ Len(rest) \in 0..Len(rest)
        BY <2>3, <2>5
      <4> HIDE DEF Looked
      <4> QED BY <4>1, <2>3
    <3>2. ends \subseteq Nat /\ ends # {}
      BY <3>1, <2>3
    <3> HIDE DEF ends
    <3>3. \E m \in ends : \A x \in ends : m <= x
      BY <3>2, LeastElement
    <3> QED BY <3>3 DEF Min
  <2>7. seen \in 0..Len(rest) /\ seen + Len(Only(Looked(seen), mine)) >= Len(rest)
    <3> HIDE DEF seen, Looked
    <3> QED BY <2>6
  <2> HIDE DEF seen
  <2>8. b.ackq \in Seq(FrameNo)
    <3>1. SubSeq(rest, seen + 1, Len(rest)) \in Seq(FrameNo)
      BY <2>3, <2>7
    <3> HIDE DEF Looked
    <3> QED BY <3>1, <2>5, <2>7
  <2>9. b.out \in Seq(FrameNo)
    <3> HIDE DEF Looked
    <3> QED BY <2>2, <2>3, <2>5, <2>7
  <2>10. b.drop \subseteq FrameNo
    <3> HIDE DEF Looked
    <3> QED BY <2>2, <2>4, <2>7
  <2>11. b \in AckState
    <3> HIDE DEF Looked
    <3> QED BY <2>8, <2>9, <2>10 DEF AckState
  <2>12. seen \in Nat /\ TurnLooksAt(a, b, seen)
    <3>1. seen \in Nat
      BY <2>7, <2>3
    <3>2. TurnLooksAt(a, b, seen)
      <4> HIDE DEF Only
      <4> QED BY <2>7 DEF TurnLooksAt, mine, rest, last
    <3> QED BY <3>1, <3>2
  <2> HIDE DEF b
  <2> QED BY <1>1, <1>3, <2>11, <2>12
<1> QED BY <1>2, <1>3

\* The merge as the last of a sequence of turns.
LEMMA MergeDef ==
  ASSUME NEW q \in Seq(FrameNo)
  PROVE  \E turn \in [0..Len(q) -> AckState] :
           /\ turn[0] = [ackq |-> q, out |-> <<>>, drop |-> {}]
           /\ \A n \in 1..Len(q) : turn[n] = AckTurn[turn[n - 1]]
           /\ MergePureAck(q) = turn[Len(q)]
<1> DEFINE L == Len(q)
           T == AckState
           b == [ackq |-> q, out |-> <<>>, drop |-> {}]
           F == [n \in 1..L |-> AckTurn]
           Def(f) == [n \in 0..L |-> IF n = 0 THEN b ELSE AckTurn[f[n - 1]]]
           turn == CHOOSE f : f = Def(f)
<1>0. L \in Nat /\ b \in T
  BY DEF AckState
<1>1. AckTurn \in [T -> T]
  <2>1. \A a \in AckState : AckTurn[a] \in AckState
    BY TurnLooks
  <2>2. AckTurn = [a \in AckState |-> AckTurn[a]]
    BY DEF AckTurn
  <2> QED BY <2>1, <2>2
<1>8. MergePureAck(q) = turn[L]
  BY DEF MergePureAck
<1> HIDE DEF L, T, b
<1>2. F \in Steps(L, T)
  BY <1>1 DEF Steps
<1>3. PICK g \in [0..L -> T] : g[0] = b /\ \A n \in 1..L : g[n] = F[n][g[n - 1]]
  <2>1. Solutions(L, T, b, F) # {}
    <3> HIDE DEF F
    <3> QED BY <1>0, <1>2, RecursionExists
  <2> QED BY <2>1 DEF Solutions
<1>4. g[0] = b /\ \A n \in 1..L : g[n] = AckTurn[g[n - 1]]
  BY <1>3
<1>5. g = Def(g)
  BY <1>0, <1>4
<1>6. turn = Def(turn)
  <2> HIDE DEF Def
  <2> QED BY <1>5
<1>7. \A n \in 0..L : turn[n] = g[n]
  <2> DEFINE P == {m \in 0..L : turn[m] = g[m]}
  <2> HIDE DEF turn
  <2>1. 0 \in P
    BY <1>0, <1>4, <1>6
  <2>2. ASSUME NEW m \in 0..L, m < L, m \in P PROVE m + 1 \in P
    <3>1. m + 1 \in 1..L /\ m + 1 \in 0..L /\ m + 1 # 0 /\ (m + 1) - 1 = m
      BY <1>0, <2>2
    <3>2. turn[m + 1] = AckTurn[turn[m]]
      BY <1>6, <3>1
    <3>3. g[m + 1] = AckTurn[g[m]]
      BY <1>4, <3>1
    <3> QED
      BY <2>2, <3>1, <3>2, <3>3
  <2>3. \A n \in 0..L : n \in P
    <3> HIDE DEF P
    <3> QED BY <1>0, <2>1, <2>2, Climb
  <2> QED BY <2>3
<1>9. MergePureAck(q) = g[L]
  <2> HIDE DEF turn
  <2> QED BY <1>0, <1>7, <1>8
<1> QED
  <2> HIDE DEF F, turn
  <2> QED BY <1>4, <1>9 DEF L, T, b

\* Two ACKs of one stream, not that of n, are among the frames Q.
PairIn(Q, n) ==
    \E x, y \in Q : /\ x # y /\ Frame[x].stream = Frame[y].stream
                    /\ Frame[x].stream # Frame[n].stream

\* What holds between two turns of a merge of the frames Q: frames of a stream
\* stand in their order, unless two of another stream are there; what was
\* dropped has a frame of its stream that was put out.
MergeInv(Q, a) ==
    /\ a \in AckState
    /\ Elems(a.ackq) \union Elems(a.out) \union a.drop \subseteq Q
    /\ Elems(a.ackq) \cap a.drop = {}
    /\ \A j, k \in 1..Len(a.ackq) : j < k =>
          /\ a.ackq[j] # a.ackq[k]
          /\ Frame[a.ackq[j]].stream = Frame[a.ackq[k]].stream
                => a.ackq[j] < a.ackq[k] \/ PairIn(Q, a.ackq[j])
    /\ \A n \in a.drop : n \in Bare
          /\ \E m \in Q \ (a.drop \union Elems(a.ackq)) :
                Frame[m].stream = Frame[n].stream /\ (n < m \/ PairIn(Q, n))

LEMMA TurnKeeps ==
  ASSUME NEW Q, Q \subseteq FrameNo, NEW a, MergeInv(Q, a)
  PROVE  MergeInv(Q, AckTurn[a])
<1>0. a \in AckState
  BY DEF MergeInv
<1>1. CASE a.ackq = <<>>
  BY <1>0, <1>1, TurnLooks
<1>2. CASE a.ackq # <<>>
  <2> DEFINE b == AckTurn[a]
             q == a.ackq
             L == Len(q) - 1
             rest == Front(q)
             last == Last(q)
             mine == SameStream(last)
  <2>1. b \in AckState
    BY <1>0, TurnLooks
  <2>2. PICK v \in Nat : TurnLooksAt(a, b, v)
    BY <1>0, <1>2, TurnLooks
  <2> DEFINE looked == SubSeq(rest, 1, v)
             O == Only(looked, FrameNo \ mine)
             I == Only(looked, mine)
             E == Only(looked, mine \ Bare)
             U == SubSeq(rest, v + 1, L)
  <2> HIDE DEF b
  <2>3. /\ q \in Seq(FrameNo) /\ L \in Nat /\ Len(q) = L + 1 /\ last = q[L + 1]
        /\ a.out \in Seq(FrameNo) /\ a.drop \subseteq FrameNo
    <3>1. q \in Seq(FrameNo) /\ a.out \in Seq(FrameNo) /\ a.drop \subseteq FrameNo
      BY <1>0 DEF AckState
    <3> QED BY <1>2, <3>1 DEF Last
  <2>4. /\ rest \in Seq(FrameNo) /\ Len(rest) = L
        /\ \A i \in 1..L : rest[i] = q[i]
    BY <2>3 DEF Front
  <2>5. last \in FrameNo /\ last \in Elems(q)
    BY <2>3 DEF Elems
  <2>6. /\ v \in 0..L /\ v + Len(I) >= L /\ b.ackq = U \o O
        /\ b.out = Append(a.out \o E, last)
        /\ b.drop = a.drop \union (ToSet(looked) \cap mine \cap Bare)
    BY <2>2, <2>4 DEF TurnLooksAt
  <2> HIDE DEF q, L, rest, last
  <2>7. /\ looked \in Seq(FrameNo) /\ Len(looked) = v
        /\ \A i \in 1..v : looked[i] = q[i]
    BY <2>3, <2>4, <2>6
  <2>8. /\ U \in Seq(FrameNo) /\ Len(U) = L - v
        /\ \A j \in 1..L - v : U[j] = q[v + j]
    BY <2>3, <2>4, <2>6
  <2>9. ToSet(looked) = {q[i] : i \in 1..v}
    BY <2>7 DEF ToSet
  <2> HIDE DEF looked, U
  <2>10. /\ O \in Seq(FrameNo)
         /\ \A j \in 1..Len(O) : O[j] \in FrameNo \ mine /\ \E i \in 1..v : O[j] = q[i]
         /\ \A j, k \in 1..Len(O) : j < k =>
               \E h, i \in 1..v : h < i /\ O[j] = q[h] /\ O[k] = q[i]
    <3>1. Keeps(looked, FrameNo \ mine, O)
      BY <2>7, OnlyKeeps
    <3> HIDE DEF O, mine
    <3>2. /\ O \in Seq(FrameNo)
          /\ \A j \in 1..Len(O) : O[j] \in FrameNo \ mine
                                 /\ \E i \in 1..Len(looked) : O[j] = looked[i]
      BY <3>1 DEF Keeps
    <3>3. \A j, k \in 1..Len(O) : j < k =>
             \E h, i \in 1..Len(looked) : h < i /\ O[j] = looked[h] /\ O[k] = looked[i]
      BY <3>1 DEF Keeps
    <3>4. \A j \in 1..Len(O) : \E i \in 1..v : O[j] = q[i]
      BY <2>7, <3>2
    <3>5. ASSUME NEW j \in 1..Len(O), NEW k \in 1..Len(O), j < k
          PROVE  \E h, i \in 1..v : h < i /\ O[j] = q[h] /\ O[k] = q[i]
      <4>1. PICK h \in 1..Len(looked), i \in 1..Len(looked) :
               h < i /\ O[j] = looked[h] /\ O[k] = looked[i]
        BY <3>3, <3>5
      <4> QED BY <2>7, <4>1
    <3> QED BY <3>2, <3>4, <3>5
  <2>11. I \in Seq(FrameNo) /\ \A j \in 1..Len(I) : I[j] \in mine /\ \E i \in 1..v : I[j] = q[i]
    <3>1. Keeps(looked, mine, I)
      BY <2>7, OnlyKeeps
    <3> HIDE DEF I, mine
    <3>2. /\ I \in Seq(FrameNo)
          /\ \A j \in 1..Len(I) : I[j] \in mine /\ \E i \in 1..Len(looked) : I[j] = looked[i]
      BY <3>1 DEF Keeps
    <3> QED BY <2>7, <3>2
  <2>12. E \in Seq(FrameNo) /\ \A j \in 1..Len(E) : \E i \in 1..v : E[j] = q[i]
    <3>1. Keeps(looked, mine \ Bare, E)
      BY <2>7, OnlyKeeps
    <3> HIDE DEF E, mine
    <3>2. /\ E \in Seq(FrameNo)
          /\ \A j \in 1..Len(E) : \E i \in 1..Len(looked) : E[j] = looked[i]
      BY <3>1 DEF Keeps
    <3> QED BY <2>7, <3>2
  <2> HIDE DEF O, I, E
  \* Where the elements of the next queue stood in this one.
  <2>13. /\ b.ackq \in Seq(FrameNo) /\ Len(b.ackq) = (L - v) + Len(O) /\ Len(O) \in Nat
         /\ \A j \in 1..L - v : b.ackq[j] = q[v + j]
         /\ \A j \in 1..Len(b.ackq) : j > L - v => b.ackq[j] = O[j - (L - v)]
                                                 /\ j - (L - v) \in 1..Len(O)
    <3>1. b.ackq = U \o O /\ v \in 0..L /\ L \in Nat
      BY <2>3, <2>6
    <3>2. /\ b.ackq \in Seq(FrameNo) /\ Len(b.ackq) = Len(U) + Len(O) /\ Len(O) \in Nat
          /\ \A j \in 1..Len(b.ackq) :
                b.ackq[j] = IF j <= Len(U) THEN U[j] ELSE O[j - Len(U)]
      <4>1. /\ U \in Seq(FrameNo) /\ O \in Seq(FrameNo)
        BY <2>8, <2>10
      <4>2. /\ U \o O \in Seq(FrameNo) /\ Len(U \o O) = Len(U) + Len(O)
            /\ \A j \in 1..Len(U) + Len(O) :
                  (U \o O)[j] = IF j <= Len(U) THEN U[j] ELSE O[j - Len(U)]
        BY <4>1, ConcatProperties
      <4> QED BY <3>1, <4>1, <4>2
    <3>3. ASSUME NEW j \in 1..L - v PROVE b.ackq[j] = q[v + j]
      BY <2>8, <3>1, <3>2
    <3>4. ASSUME NEW j \in 1..Len(b.ackq), j > L - v
          PROVE  b.ackq[j] = O[j - (L - v)] /\ j - (L - v) \in 1..Len(O)
      BY <2>8, <3>1, <3>2, <3>4
    <3> QED BY <2>8, <3>1, <3>2, <3>3, <3>4
  <2>14. \A j \in 1..Len(b.ackq) :
            \E i \in 1..L : b.ackq[j] = q[i] /\ (i <= v => b.ackq[j] \notin mine)
    <3> SUFFICES ASSUME NEW j \in 1..Len(b.ackq)
                 PROVE  \E i \in 1..L : b.ackq[j] = q[i] /\ (i <= v => b.ackq[j] \notin mine)
      OBVIOUS
    <3>1. CASE j \in 1..L - v
      <4>1. v + j \in 1..L /\ ~ (v + j <= v)
        BY <2>3, <2>6, <3>1
      <4>2. b.ackq[j] = q[v + j]
        BY <2>13, <3>1
      <4> QED BY <4>1, <4>2
    <3>2. CASE j > L - v
      <4>1. b.ackq[j] = O[j - (L - v)] /\ j - (L - v) \in 1..Len(O)
        BY <2>13, <3>2
      <4>2. PICK i \in 1..v : O[j - (L - v)] = q[i]
        BY <2>10, <4>1
      <4>3. i \in 1..L /\ O[j - (L - v)] \notin mine
        BY <2>3, <2>6, <2>10, <4>1
      <4> QED BY <4>1, <4>2, <4>3
    <3>3. j \in 1..L - v \/ j > L - v
      <4>1. L - v \in Nat /\ j \in Nat /\ j >= 1
        BY <2>3, <2>6, <2>13
      <4> QED BY <4>1
    <3> QED BY <3>1, <3>2, <3>3
  <2>15. /\ \A j, k \in 1..L + 1 : j < k =>
               /\ q[j] # q[k]
               /\ Frame[q[j]].stream = Frame[q[k]].stream => q[j] < q[k] \/ PairIn(Q, q[j])
         /\ Elems(q) \subseteq Q /\ Elems(a.out) \subseteq Q /\ a.drop \subseteq Q
         /\ Elems(q) \cap a.drop = {}
         /\ \A i \in 1..L + 1 : q[i] \in Elems(q) /\ q[i] \in FrameNo
    BY <2>3 DEF MergeInv, Elems, q
  \* The dropped ACKs are of the stream of the last one, which is put out.
  <2>16. \A n \in b.drop \ a.drop :
            n \in mine /\ n \in Bare /\ \E i \in 1..v : n = q[i]
    BY <2>6, <2>9
  <2>17. Elems(b.ackq) \subseteq Elems(q) /\ last \notin Elems(b.ackq)
    <3> SUFFICES ASSUME NEW j \in 1..Len(b.ackq)
                 PROVE  b.ackq[j] \in Elems(q) /\ b.ackq[j] # last
      BY DEF Elems
    <3>1. PICK i \in 1..L : b.ackq[j] = q[i]
      BY <2>14
    <3>2. i \in 1..L + 1 /\ L + 1 \in 1..L + 1 /\ i < L + 1
      BY <2>3
    <3> QED BY <2>3, <2>15, <3>1, <3>2
  <2>18. Elems(b.ackq) \cap b.drop = {}
    <3> SUFFICES ASSUME NEW j \in 1..Len(b.ackq), b.ackq[j] \in b.drop PROVE FALSE
      BY DEF Elems
    <3>1. b.ackq[j] \in Elems(q)
      BY <2>17 DEF Elems
    <3>2. b.ackq[j] \in b.drop \ a.drop
      BY <2>15, <3>1
    <3>3. PICK i \in 1..L : b.ackq[j] = q[i] /\ (i <= v => b.ackq[j] \notin mine)
      BY <2>14
    <3>4. PICK h \in 1..v : b.ackq[j] = q[h]
      BY <2>16, <3>2
    <3>5. i > v
      BY <2>16, <3>2, <3>3
    <3>6. h < i /\ h \in 1..L + 1 /\ i \in 1..L + 1
      BY <2>3, <2>6, <3>5
    <3> QED BY <2>15, <3>3, <3>4, <3>6
  <2>19. Elems(b.out) \subseteq Q
    <3> SUFFICES ASSUME NEW j \in 1..Len(b.out) PROVE b.out[j] \in Q
      BY DEF Elems
    <3>1. /\ Len(b.out) = Len(a.out) + Len(E) + 1 /\ Len(a.out) \in Nat /\ Len(E) \in Nat
          /\ j <= Len(a.out) => b.out[j] = a.out[j]
          /\ j > Len(a.out) /\ j <= Len(a.out) + Len(E) => b.out[j] = E[j - Len(a.out)]
          /\ j = Len(a.out) + Len(E) + 1 => b.out[j] = last
      BY <2>3, <2>5, <2>6, <2>12
    <3>2. CASE j <= Len(a.out)
      BY <2>15, <3>1, <3>2 DEF Elems
    <3>3. CASE j > Len(a.out) /\ j <= Len(a.out) + Len(E)
      <4>1. j - Len(a.out) \in 1..Len(E)
        BY <3>1, <3>3
      <4>2. PICK i \in 1..v : b.out[j] = q[i]
        BY <2>12, <3>1, <3>3, <4>1
      <4>3. i \in 1..L + 1
        BY <2>3, <2>6
      <4> QED BY <2>15, <4>2, <4>3
    <3>4. CASE j = Len(a.out) + Len(E) + 1
      BY <2>5, <2>15, <3>1, <3>4
    <3> QED BY <3>1, <3>2, <3>3, <3>4
  <2>20. b.drop \subseteq Q
    <3> SUFFICES ASSUME NEW n \in b.drop \ a.drop PROVE n \in Q
      BY <2>15
    <3>1. PICK i \in 1..v : n = q[i]
      BY <2>16
    <3>2. i \in 1..L + 1
      BY <2>3, <2>6
    <3> QED BY <2>15, <3>1, <3>2
  <2>21. ASSUME NEW n \in b.drop
         PROVE  n \in Bare /\ \E m \in Q \ (b.drop \union Elems(b.ackq)) :
                   Frame[m].stream = Frame[n].stream /\ (n < m \/ PairIn(Q, n))
    <3>1. CASE n \in a.drop
      <4>1. n \in Bare
        BY <3>1 DEF MergeInv
      <4>2. PICK m \in Q \ (a.drop \union Elems(q)) :
               Frame[m].stream = Frame[n].stream /\ (n < m \/ PairIn(Q, n))
        BY <3>1 DEF MergeInv, q
      <4>3. m \notin b.drop
        <5> SUFFICES ASSUME m \in b.drop PROVE FALSE
          OBVIOUS
        <5>1. PICK i \in 1..v : m = q[i]
          BY <2>16, <4>2
        <5>2. i \in 1..L + 1
          BY <2>3, <2>6
        <5> QED BY <2>15, <4>2, <5>1, <5>2
      <4> QED BY <2>17, <4>1, <4>2, <4>3
    <3>2. CASE n \notin a.drop
      <4>1. PICK i \in 1..v : n = q[i]
        BY <2>16, <3>2
      <4>2. n \in mine /\ n \in Bare
        BY <2>16, <3>2
      <4>3. Frame[last].stream = Frame[n].stream
        BY <4>2 DEF SameStream
      <4>4. i \in 1..L + 1 /\ L + 1 \in 1..L + 1 /\ i < L + 1
        BY <2>3, <2>6
      <4>5. n < last \/ PairIn(Q, n)
        BY <2>3, <2>15, <4>1, <4>3, <4>4
      <4>6. last \notin b.drop
        <5> SUFFICES ASSUME last \in b.drop PROVE FALSE
          OBVIOUS
        <5>1. last \notin a.drop
          BY <2>5, <2>15
        <5>2. PICK h \in 1..v : last = q[h]
          BY <2>16, <5>1
        <5>3. h \in 1..L + 1 /\ h < L + 1
          BY <2>3, <2>6
        <5> QED BY <2>3, <2>15, <4>4, <5>2, <5>3
      <4>7. last \in Q
        BY <2>5, <2>15
      <4> QED BY <2>17, <4>2, <4>3, <4>5, <4>6, <4>7
    <3> QED BY <3>1, <3>2
  <2>22. ASSUME NEW j \in 1..Len(b.ackq), NEW k \in 1..Len(b.ackq), j < k
         PROVE  /\ b.ackq[j] # b.ackq[k]
                /\ Frame[b.ackq[j]].stream = Frame[b.ackq[k]].stream
                      => b.ackq[j] < b.ackq[k] \/ PairIn(Q, b.ackq[j])
    <3>1. CASE k <= L - v
      <4>1. v + j \in 1..L + 1 /\ v + k \in 1..L + 1 /\ v + j < v + k
            /\ j \in 1..L - v /\ k \in 1..L - v
        BY <2>3, <2>6, <2>22, <3>1
      <4>2. b.ackq[j] = q[v + j] /\ b.ackq[k] = q[v + k]
        BY <2>13, <4>1
      <4> QED BY <2>15, <4>1, <4>2
    <3>2. CASE j > L - v
      <4> DEFINE x == j - (L - v)
                 y == k - (L - v)
      <4>0. k > L - v /\ x < y
        BY <2>3, <2>6, <2>22, <3>2
      <4>1. x \in 1..Len(O) /\ y \in 1..Len(O) /\ x < y
            /\ b.ackq[j] = O[x] /\ b.ackq[k] = O[y]
        BY <2>13, <3>2, <4>0
      <4> HIDE DEF x, y
      <4>2. PICK h \in 1..v, i \in 1..v : h < i /\ O[x] = q[h] /\ O[y] = q[i]
        BY <2>10, <4>1
      <4>3. h \in 1..L + 1 /\ i \in 1..L + 1
        BY <2>3, <2>6
      <4> QED BY <2>15, <4>1, <4>2, <4>3
    <3>3. CASE j <= L - v /\ k > L - v
      <4>1. j \in 1..L - v /\ v + j \in 1..L + 1 /\ v < v + j /\ v < L
        BY <2>3, <2>6, <3>3
      <4>2. b.ackq[j] = q[v + j]
        BY <2>13, <4>1
      <4> DEFINE y == k - (L - v)
      <4>3. y \in 1..Len(O) /\ b.ackq[k] = O[y]
        BY <2>13, <3>3
      <4> HIDE DEF y
      <4>4. PICK h \in 1..v : O[y] = q[h]
        BY <2>10, <4>3
      <4>5. O[y] \in FrameNo /\ Frame[O[y]].stream # Frame[last].stream
        BY <2>10, <4>3 DEF SameStream
      <4>6. h < v + j /\ h \in 1..L + 1
        BY <2>3, <2>6, <4>1
      <4>7. b.ackq[j] # b.ackq[k]
        BY <2>15, <4>1, <4>2, <4>3, <4>4, <4>6
      \* The turn ended early, so it met an ACK of the stream of the last one.
      <4>8. Len(I) # 0 /\ 1 \in 1..Len(I)
        BY <2>3, <2>6, <2>11, <4>1
      <4>9. PICK i \in 1..v : I[1] = q[i]
        BY <2>11, <4>8
      <4>10. Frame[q[i]].stream = Frame[last].stream /\ i \in 1..L + 1 /\ i < L + 1
             /\ L + 1 \in 1..L + 1
        BY <2>3, <2>6, <2>11, <4>8, <4>9 DEF SameStream
      <4>11. q[i] # last /\ q[i] \in Q /\ last \in Q
        BY <2>3, <2>5, <2>15, <4>10
      <4>12. Frame[b.ackq[j]].stream = Frame[b.ackq[k]].stream => PairIn(Q, b.ackq[j])
        BY <4>3, <4>5, <4>10, <4>11 DEF PairIn
      <4> QED BY <4>7, <4>12
    <3> QED BY <2>3, <2>6, <2>22, <3>1, <3>2, <3>3
  <2>23. Elems(b.ackq) \union Elems(b.out) \union b.drop \subseteq Q
    BY <2>15, <2>17, <2>19, <2>20
  <2> HIDE DEF mine
  <2> QED
    BY <2>1, <2>18, <2>21, <2>22, <2>23 DEF MergeInv, b
<1> QED BY <1>1, <1>2

\* What a merge does to a queue whose frames stand in their order: it puts out
\* frames of the queue, and drops pure ACKs each of which has an ACK of its
\* stream that is not dropped.
LEMMA MergeCovers ==
  ASSUME NEW q \in Seq(FrameNo), \A j, k \in 1..Len(q) : j < k => q[j] < q[k]
  PROVE  MergeInv(Elems(q), MergePureAck(q))
<1> DEFINE Q == Elems(q)
           L == Len(q)
<1>1. PICK turn \in [0..L -> AckState] :
           /\ turn[0] = [ackq |-> q, out |-> <<>>, drop |-> {}]
           /\ \A n \in 1..L : turn[n] = AckTurn[turn[n - 1]]
           /\ MergePureAck(q) = turn[L]
  BY MergeDef
<1>2. Q \subseteq FrameNo /\ L \in Nat
  BY DEF Elems
<1>3. MergeInv(Q, turn[0])
  <2>1. turn[0] \in AckState /\ turn[0].ackq = q /\ turn[0].out = <<>> /\ turn[0].drop = {}
    <3>1. turn[0] = [ackq |-> q, out |-> <<>>, drop |-> {}]
      BY <1>1
    <3>2. [ackq |-> q, out |-> <<>>, drop |-> {}] \in AckState
      BY DEF AckState
    <3> QED BY <3>1, <3>2
  <2>2. \A j, k \in 1..Len(q) : j < k => q[j] # q[k] /\ q[j] < q[k]
    <3>1. \A j \in 1..Len(q) : q[j] \in Nat
      BY TxAssumption DEF FrameNo
    <3> QED BY <3>1
  <2>3. Elems(turn[0].out) = {}
    BY <2>1 DEF Elems
  <2> QED BY <2>1, <2>2, <2>3 DEF MergeInv
<1> HIDE DEF Q, L
<1>4. ASSUME NEW n \in 0..L, n < L, MergeInv(Q, turn[n]) PROVE MergeInv(Q, turn[n + 1])
  <2>1. n + 1 \in 1..L /\ (n + 1) - 1 = n
    BY <1>2, <1>4
  <2>2. turn[n + 1] = AckTurn[turn[n]]
    BY <1>1, <2>1
  <2> QED BY <1>2, <1>4, <2>2, TurnKeeps
<1>5. \A n \in 0..L : MergeInv(Q, turn[n])
  <2> DEFINE P == {n \in 0..L : MergeInv(Q, turn[n])}
  <2>1. 0 \in P
    BY <1>2, <1>3
  <2>2. ASSUME NEW n \in 0..L, n < L, n \in P PROVE n + 1 \in P
    BY <1>2, <1>4, <2>2
  <2>3. \A n \in 0..L : n \in P
    <3> HIDE DEF P
    <3> QED BY <1>2, <2>1, <2>2, Climb
  <2> QED BY <2>3
<1>6. L \in 0..L
  BY <1>2
<1> QED BY <1>1, <1>5, <1>6 DEF Q

\* The result of a merge, whatever the queue.
LEMMA MergeType ==
  ASSUME NEW q \in Seq(FrameNo)
  PROVE  MergePureAck(q) \in AckState
<1>1. PICK turn \in [0..Len(q) -> AckState] : MergePureAck(q) = turn[Len(q)]
  BY MergeDef
<1> QED BY <1>1
-----------------------------------------------------------------------------
(* What a batch holds *)

\* The order in which FoldSet takes the interfaces.
Order == [s \in SUBSET Ifaces |-> CHOOSE i \in s : TRUE]

LEMMA OrderChooses == Chooses(Ifaces, Order)
  BY DEF Chooses, Order

\* The frames of a category, counted interface by interface.
LEMMA QueueLenDef ==
  ASSUME \A i \in Ifaces : Len(cache[i][ac]) \in Nat
  PROVE  \E g \in [SUBSET Ifaces -> Nat] :
           /\ g[{}] = 0
           /\ \A s \in SUBSET Ifaces : s # {} =>
                 g[s] = g[s \ {Order[s]}] + Len(cache[Order[s]][ac])
           /\ QueueLen = g[Ifaces]
<1> DEFINE T == Nat
           b == 0
           Step(i, x) == x + Len(cache[i][ac])
           F == [i \in Ifaces |-> [x \in T |-> Step(i, x)]]
           Def(f) == [s \in SUBSET Ifaces |->
                        IF s = {} THEN b
                        ELSE Step(CHOOSE i \in s : TRUE, f[s \ {CHOOSE i \in s : TRUE}])]
           fold == CHOOSE f : f = Def(f)
<1>0. b \in T /\ \A i \in Ifaces, x \in T : Step(i, x) \in T
  OBVIOUS
<1>8. QueueLen = fold[Ifaces]
  BY DEF QueueLen, FoldSet, MapThenFoldSet
<1> HIDE DEF T, b, Step
<1>1. IsFiniteSet(Ifaces) /\ Chooses(Ifaces, Order)
  BY TxAssumption, OrderChooses
<1>2. F \in SetSteps(Ifaces, T)
  BY <1>0 DEF SetSteps
<1>3. PICK g \in [SUBSET Ifaces -> T] :
         /\ g[{}] = b
         /\ \A s \in SUBSET Ifaces : s # {} => g[s] = F[Order[s]][g[s \ {Order[s]}]]
  <2>1. SetSolutions(Ifaces, T, b, Order, F) # {}
    <3> HIDE DEF F
    <3> QED BY <1>0, <1>1, <1>2, FoldExists
  <2> HIDE DEF F
  <2> QED BY <2>1 DEF SetSolutions
<1>4. ASSUME NEW s \in SUBSET Ifaces, s # {}
      PROVE  /\ Order[s] \in s /\ Order[s] = CHOOSE i \in s : TRUE
             /\ s \ {Order[s]} \in SUBSET Ifaces
             /\ g[s] = Step(Order[s], g[s \ {Order[s]}])
  <2>1. Order[s] \in s /\ Order[s] = CHOOSE i \in s : TRUE
    BY <1>4 DEF Order
  <2>2. g[s \ {Order[s]}] \in T /\ Order[s] \in Ifaces
    BY <2>1
  <2> QED BY <1>3, <1>4, <2>1, <2>2
<1>5. g = Def(g)
  BY <1>3, <1>4
<1>6. fold = Def(fold)
  <2> HIDE DEF Def
  <2> QED BY <1>5
<1>7. fold[Ifaces] = g[Ifaces]
  <2> DEFINE P == {s \in SUBSET Ifaces : fold[s] = g[s]}
  <2> HIDE DEF fold
  <2>1. {} \in P
    BY <1>5, <1>6
  <2>2. ASSUME NEW s \in SUBSET Ifaces, s # {}
        PROVE  \E i \in s : s \ {i} \in P => s \in P
    <3> DEFINE r == s \ {Order[s]}
    <3>1. Order[s] \in s /\ g[s] = Step(Order[s], g[r])
      BY <1>4, <2>2
    <3>2. fold[s] = Step(Order[s], fold[r])
      BY <1>4, <1>6, <2>2
    <3> HIDE DEF r
    <3>3. r \in P => s \in P
      BY <3>1, <3>2
    <3> QED BY <3>1, <3>3 DEF r
  <2>3. Ifaces \in P
    <3> HIDE DEF P
    <3> QED BY <1>1, <2>1, <2>2, Shrink
  <2> QED BY <2>3
<1> QED
  <2> HIDE DEF F, fold
  <2> QED BY <1>3, <1>4, <1>7, <1>8 DEF T, b, Step

\* A batch, put together interface by interface.
LEMMA BatchDef ==
  ASSUME NEW k, \A i \in Ifaces : Heads(i, k) \in Seq(FrameNo)
  PROVE  \E g \in [SUBSET Ifaces -> Seq(FrameNo)] :
           /\ g[{}] = <<>>
           /\ \A s \in SUBSET Ifaces : s # {} =>
                 g[s] = Only(Heads(Order[s], k), Valid) \o g[s \ {Order[s]}]
           /\ Batch(k) = g[Ifaces]
<1> DEFINE T == Seq(FrameNo)
           b == <<>>
           Step(i, x) == Only(Heads(i, k), Valid) \o x
           F == [i \in Ifaces |-> [x \in T |-> Step(i, x)]]
           Def(f) == [s \in SUBSET Ifaces |->
                        IF s = {} THEN b
                        ELSE Step(CHOOSE i \in s : TRUE, f[s \ {CHOOSE i \in s : TRUE}])]
           fold == CHOOSE f : f = Def(f)
<1>0. b \in T /\ \A i \in Ifaces, x \in T : Step(i, x) \in T
  BY OnlyType
<1>8. Batch(k) = fold[Ifaces]
  BY DEF Batch, FoldSet, MapThenFoldSet
<1> HIDE DEF T, b, Step
<1>1. IsFiniteSet(Ifaces) /\ Chooses(Ifaces, Order)
  BY TxAssumption, OrderChooses
<1>2. F \in SetSteps(Ifaces, T)
  BY <1>0 DEF SetSteps
<1>3. PICK g \in [SUBSET Ifaces -> T] :
         /\ g[{}] = b
         /\ \A s \in SUBSET Ifaces : s # {} => g[s] = F[Order[s]][g[s \ {Order[s]}]]
  <2>1. SetSolutions(Ifaces, T, b, Order, F) # {}
    <3> HIDE DEF F
    <3> QED BY <1>0, <1>1, <1>2, FoldExists
  <2> HIDE DEF F
  <2> QED BY <2>1 DEF SetSolutions
<1>4. ASSUME NEW s \in SUBSET Ifaces, s # {}
      PROVE  /\ Order[s] \in s /\ Order[s] = CHOOSE i \in s : TRUE
             /\ s \ {Order[s]} \in SUBSET Ifaces
             /\ g[s] = Step(Order[s], g[s \ {Order[s]}])
  <2>1. Order[s] \in s /\ Order[s] = CHOOSE i \in s : TRUE
    BY <1>4 DEF Order
  <2>2. g[s \ {Order[s]}] \in T /\ Order[s] \in Ifaces
    BY <2>1
  <2> QED BY <1>3, <1>4, <2>1, <2>2
<1>5. g = Def(g)
  BY <1>3, <1>4
<1>6. fold = Def(fold)
  <2> HIDE DEF Def
  <2> QED BY <1>5
<1>7. fold[Ifaces] = g[Ifaces]
  <2> DEFINE P == {s \in SUBSET Ifaces : fold[s] = g[s]}
  <2> HIDE DEF fold
  <2>1. {} \in P
    BY <1>5, <1>6
  <2>2. ASSUME NEW s \in SUBSET Ifaces, s # {}
        PROVE  \E i \in s : s \ {i} \in P => s \in P
    <3> DEFINE r == s \ {Order[s]}
    <3>1. Order[s] \in s /\ g[s] = Step(Order[s], g[r])
      BY <1>4, <2>2
    <3>2. fold[s] = Step(Order[s], fold[r])
      BY <1>4, <1>6, <2>2
    <3> HIDE DEF r
    <3>3. r \in P => s \in P
      BY <3>1, <3>2
    <3> QED BY <3>1, <3>3 DEF r
  <2>3. Ifaces \in P
    <3> HIDE DEF P
    <3> QED BY <1>1, <2>1, <2>2, Shrink
  <2> QED BY <2>3
<1> QED
  <2> HIDE DEF F, fold
  <2> QED BY <1>3, <1>4, <1>7, <1>8 DEF T, b, Step
-----------------------------------------------------------------------------
(* Types *)

\* While it waits for credit, the worker has counted what is in the caches.
TypeInv ==
    /\ TypeOK
    /\ pc = "send" => QueueLen <= pend

LEMMA FrameFacts ==
  /\ FrameNo = 1..Len(Frame) /\ Len(Frame) \in Nat
  /\ \A n \in FrameNo : Frame[n].iface \in Ifaces /\ Frame[n].q \in Queue
  /\ NrAc \in Nat \ {0} /\ BE \in Ac /\ AckQ \in Queue /\ AckQ \notin Ac
  /\ \A q \in Queue : q \in Ac \/ q = AckQ
  /\ Ac \subseteq Queue
<1> DEFINE FrameType == [iface : Ifaces, q : Queue, peer : Peers, stream : Nat]
<1>1. Frame \in Seq(FrameType) /\ NrAc \in Nat \ {0} /\ BE \in Ac
  BY TxAssumption
<1>2. \A n \in FrameNo : Frame[n] \in FrameType
  <2> HIDE DEF FrameType
  <2> QED BY <1>1 DEF FrameNo
<1>3. FrameNo = 1..Len(Frame) /\ Len(Frame) \in Nat
  <2> HIDE DEF FrameType
  <2> QED BY <1>1 DEF FrameNo
<1>4. /\ AckQ \in Queue /\ AckQ \notin Ac /\ \A q \in Queue : q \in Ac \/ q = AckQ
      /\ Ac \subseteq Queue
  BY <1>1 DEF Ac, AckQ, Queue
<1> QED BY <1>1, <1>2, <1>3, <1>4

LEMMA TypeInit == Init => TypeInv
<1> SUFFICES ASSUME Init PROVE TypeInv
  OBVIOUS
<1>1. <<>> \in Seq(FrameNo) /\ 1 \in Ac /\ BE \in Queue /\ 1 \in 1..Len(Frame) + 1
  BY FrameFacts DEF Ac
<1>2. MaxTrouble \in Nat /\ Credits \in Nat
  BY TxAssumption
<1> QED
  BY <1>1, <1>2 DEF Init, TypeInv, TypeOK, Place

\* The count of a category depends on the caches alone.
LEMMA QueueLenSame == ASSUME UNCHANGED <<cache, ac>> PROVE QueueLen' = QueueLen
  BY DEF QueueLen, FoldSet, MapThenFoldSet

\* What the worker takes of a queue are frames.
LEMMA TakenType ==
  ASSUME TypeOK, NEW i \in Ifaces
  PROVE  /\ Taken(i) \in Seq(FrameNo)
         /\ MergePureAck(txq[i][AckQ]) \in AckState
<1>1. cache[i][ac] \in Seq(FrameNo) /\ txq[i][ac] \in Seq(FrameNo)
      /\ txq[i][AckQ] \in Seq(FrameNo)
  BY FrameFacts DEF TypeOK
<1>2. MergePureAck(txq[i][AckQ]) \in AckState
  BY <1>1, MergeType
<1>3. MergePureAck(txq[i][AckQ]).out \in Seq(FrameNo)
  BY <1>2 DEF AckState
<1> QED BY <1>1, <1>2, <1>3 DEF Taken

\* The frames of a share, and what is left of a cache.
LEMMA ShareType ==
  ASSUME TypeOK, NEW k \in [Ifaces -> 0..Len(Frame)],
         \A i \in Ifaces : k[i] <= Len(cache[i][ac])
  PROVE  \A i \in Ifaces :
           /\ cache[i][ac] \in Seq(FrameNo) /\ k[i] \in 0..Len(cache[i][ac])
           /\ Heads(i, k) \in Seq(FrameNo) /\ Len(Heads(i, k)) = k[i]
           /\ \A j \in 1..k[i] : Heads(i, k)[j] = cache[i][ac][j]
           /\ SubSeq(cache[i][ac], k[i] + 1, Len(cache[i][ac])) \in Seq(FrameNo)
<1> SUFFICES ASSUME NEW i \in Ifaces
             PROVE  /\ cache[i][ac] \in Seq(FrameNo) /\ k[i] \in 0..Len(cache[i][ac])
                    /\ Heads(i, k) \in Seq(FrameNo) /\ Len(Heads(i, k)) = k[i]
                    /\ \A j \in 1..k[i] : Heads(i, k)[j] = cache[i][ac][j]
                    /\ SubSeq(cache[i][ac], k[i] + 1, Len(cache[i][ac])) \in Seq(FrameNo)
  OBVIOUS
<1>1. cache[i][ac] \in Seq(FrameNo) /\ k[i] \in Nat /\ k[i] <= Len(cache[i][ac])
  BY FrameFacts DEF TypeOK
<1> QED BY <1>1 DEF Heads

\* A batch is no longer than the caches together, and no shorter than what one
\* of them gives to it.
LEMMA BatchLen ==
  ASSUME TypeOK, NEW k \in [Ifaces -> 0..Len(Frame)],
         \A i \in Ifaces : k[i] <= Len(cache[i][ac])
  PROVE  /\ Batch(k) \in Seq(FrameNo) /\ QueueLen \in Nat /\ Len(Batch(k)) <= QueueLen
         /\ \A i \in Ifaces : Len(Only(Heads(i, k), Valid)) <= Len(Batch(k))
<1>1. \A i \in Ifaces : /\ Len(cache[i][ac]) \in Nat /\ Heads(i, k) \in Seq(FrameNo)
                        /\ Len(Heads(i, k)) <= Len(cache[i][ac])
  BY ShareType
<1>2. PICK g \in [SUBSET Ifaces -> Nat] :
           /\ g[{}] = 0
           /\ \A s \in SUBSET Ifaces : s # {} =>
                 g[s] = g[s \ {Order[s]}] + Len(cache[Order[s]][ac])
           /\ QueueLen = g[Ifaces]
  BY <1>1, QueueLenDef
<1>3. PICK b \in [SUBSET Ifaces -> Seq(FrameNo)] :
           /\ b[{}] = <<>>
           /\ \A s \in SUBSET Ifaces : s # {} =>
                 b[s] = Only(Heads(Order[s], k), Valid) \o b[s \ {Order[s]}]
           /\ Batch(k) = b[Ifaces]
  BY <1>1, BatchDef
<1> DEFINE P == {s \in SUBSET Ifaces :
                   /\ Len(b[s]) <= g[s]
                   /\ \A i \in s : Len(Only(Heads(i, k), Valid)) <= Len(b[s])}
<1>4. {} \in P
  BY <1>2, <1>3
<1>5. ASSUME NEW s \in SUBSET Ifaces, s # {} PROVE \E x \in s : s \ {x} \in P => s \in P
  <2> DEFINE x == Order[s]
             r == s \ {x}
             o == Only(Heads(x, k), Valid)
  <2>1. x \in s /\ x \in Ifaces /\ r \in SUBSET Ifaces
    BY <1>5, OrderChooses DEF Chooses
  <2>2. g[s] = g[r] + Len(cache[x][ac]) /\ b[s] = o \o b[r]
    BY <1>2, <1>3, <1>5
  <2>3. Keeps(Heads(x, k), Valid, o)
    BY <1>1, <2>1, OnlyKeeps
  <2> HIDE DEF x, o
  <2>4. o \in Seq(FrameNo) /\ Len(o) <= Len(Heads(x, k))
    BY <2>3 DEF Keeps
  <2>5. b[r] \in Seq(FrameNo) /\ g[r] \in Nat
    <3> HIDE DEF r
    <3> QED BY <2>1
  <2>6. Len(b[s]) = Len(o) + Len(b[r]) /\ Len(o) \in Nat /\ Len(b[r]) \in Nat
    BY <2>2, <2>4, <2>5
  <2>7. Len(Heads(x, k)) <= Len(cache[x][ac]) /\ Len(cache[x][ac]) \in Nat
        /\ Len(Heads(x, k)) \in Nat
    BY <1>1, <2>1
  <2> HIDE DEF r
  <2>8. ASSUME r \in P PROVE s \in P
    <3>1. Len(b[s]) <= g[s]
      BY <2>2, <2>4, <2>5, <2>6, <2>7, <2>8
    <3>2. ASSUME NEW i \in s PROVE Len(Only(Heads(i, k), Valid)) <= Len(b[s])
      <4>1. CASE i = x
        BY <2>6, <4>1 DEF o
      <4>2. CASE i # x
        <5>1. i \in r /\ i \in Ifaces
          BY <3>2, <4>2 DEF r
        <5>2. Len(Only(Heads(i, k), Valid)) \in Nat
          BY <1>1, <5>1, OnlyType
        <5> QED BY <2>6, <2>8, <5>1, <5>2
      <4> QED BY <4>1, <4>2
    <3> QED BY <3>1, <3>2
  <2> QED BY <2>1, <2>8 DEF r
<1>6. Ifaces \in P
  <2> HIDE DEF P
  <2> QED BY <1>4, <1>5, Shrink, TxAssumption
<1> QED BY <1>2, <1>3, <1>6

LEMMA TypeStack ==
  ASSUME TypeInv, NEW i \in Ifaces, Xmit(i)
  PROVE  TypeInv'
<1> USE FrameFacts DEF worker, flags, history
<1>1. UNCHANGED <<cache, ac, pc, pend>> /\ QueueLen' = QueueLen
  BY QueueLenSame DEF Xmit, XmitQueue, XmitWake, XmitStop
<1> SUFFICES TypeOK'
  BY <1>1 DEF TypeInv
<1> USE DEF TypeInv, TypeOK, NoWake, Wake
<1>2. CASE XmitQueue(i)
  <2>1. next \in FrameNo /\ Frame[next].q \in Queue /\ next + 1 \in 1..Len(Frame) + 1
    BY <1>2 DEF XmitQueue
  <2>2. xmit' \in [Ifaces -> [at : {"idle", "queued", "woken"}, q : Queue]]
    BY <1>2, <2>1 DEF XmitQueue
  <2>3. txq' \in [Ifaces -> [Queue -> Seq(FrameNo)]]
    BY <1>2, <2>1 DEF XmitQueue
  <2>4. UNCHANGED <<cache, stopped, credit, fw, pending, pc, ac, pend, batch, capa, xcmd,
                    thermal, deauth, gone, used, sent, merged, leak, emptied, thawed>>
        /\ next' = next + 1
    BY <1>2 DEF XmitQueue
  <2> QED BY <2>1, <2>2, <2>3, <2>4
<1>3. CASE XmitWake(i)
  BY <1>3 DEF XmitWake
<1>4. CASE XmitStop(i)
  <2>1. xmit' \in [Ifaces -> [at : {"idle", "queued", "woken"}, q : Queue]]
    <3>1. xmit' = [xmit EXCEPT ![i] = [xmit[i] EXCEPT !.at = "idle"]]
      BY <1>4 DEF XmitStop
    <3>2. xmit[i] \in [at : {"idle", "queued", "woken"}, q : Queue]
      OBVIOUS
    <3>3. [xmit[i] EXCEPT !.at = "idle"] \in [at : {"idle", "queued", "woken"}, q : Queue]
      <4> HIDE FrameFacts DEF TypeInv, TypeOK
      <4> QED BY <3>2
    <3> QED BY <3>1, <3>3
  <2>2. \/ UNCHANGED <<stopped, emptied>>
        \/ \E q \in Ac : /\ stopped' = [stopped EXCEPT ![i][q] = 1]
                         /\ emptied' = [emptied EXCEPT ![i][q] = 0]
    <3> DEFINE q == xmit[i].q
    <3>1. CASE /\ q \in Ac /\ stopped' = [stopped EXCEPT ![i][q] = 1]
               /\ emptied' = [emptied EXCEPT ![i][q] = 0]
      BY <3>1
    <3>2. CASE UNCHANGED <<stopped, emptied>>
      BY <3>2
    <3> QED BY <1>4, <3>1, <3>2 DEF XmitStop
  <2>3. stopped' \in [Ifaces -> [Ac -> {0, 1}]] /\ emptied' \in [Ifaces -> [Ac -> {0, 1}]]
    <3>1. CASE UNCHANGED <<stopped, emptied>>
      BY <3>1
    <3>2. ASSUME NEW q \in Ac, stopped' = [stopped EXCEPT ![i][q] = 1],
                 emptied' = [emptied EXCEPT ![i][q] = 0]
          PROVE  stopped' \in [Ifaces -> [Ac -> {0, 1}]] /\ emptied' \in [Ifaces -> [Ac -> {0, 1}]]
      BY <3>2
    <3> QED BY <2>2, <3>1, <3>2
  <2>4. UNCHANGED <<txq, next, credit, fw, worker, flags, sent, merged, leak>> /\ NoWake
    BY <1>4 DEF XmitStop
  <2> QED BY <2>1, <2>3, <2>4
<1> QED BY <1>2, <1>3, <1>4 DEF Xmit

LEMMA TypeOutside ==
  ASSUME TypeInv,
         \/ CreditReturn \/ SendCommand \/ ThermalTrip \/ ThermalResume
         \/ \E i \in Ifaces : LinkDown(i) \/ LinkReset(i)
         \/ \E p \in Peers : PeerLeaves(p) \/ PeerUnbound(p)
         \/ UNCHANGED vars
  PROVE  TypeInv'
<1> USE DEF worker, stack, flags, history
<1>1. UNCHANGED <<txq, next, xmit, cache, ac, pc, pend, batch, capa, sent, merged, leak,
                  emptied>> /\ QueueLen' = QueueLen
  BY QueueLenSame DEF CreditReturn, SendCommand, ThermalTrip, ThermalResume, LinkDown,
                      LinkReset, PeerLeaves, PeerUnbound, vars
<1> SUFFICES TypeOK'
  BY <1>1 DEF TypeInv
<1> USE DEF TypeInv, TypeOK, NoWake, Wake
<1>2. MaxTrouble \in Nat
  BY TxAssumption
<1>3. CASE CreditReturn
  <2>1. fw' = fw - 1 /\ fw > 0 /\ credit' = credit + 1
        /\ UNCHANGED <<stopped, xcmd, thermal, deauth, gone, used>>
    BY <1>3 DEF CreditReturn
  <2> QED BY <1>1, <1>3, <2>1 DEF CreditReturn
<1>4. CASE SendCommand
  BY <1>1, <1>2, <1>4 DEF SendCommand
<1>5. CASE ThermalTrip \/ ThermalResume
  BY <1>1, <1>2, <1>5 DEF ThermalTrip, ThermalResume
<1>6. CASE \E i \in Ifaces : LinkDown(i) \/ LinkReset(i)
  <2>1. /\ deauth' \in [Ifaces -> {0, 1}] /\ used' \in 0..MaxTrouble
        /\ UNCHANGED <<stopped, credit, fw, xcmd, thermal, gone, pending, thawed>>
    <3>1. PICK j \in Ifaces : LinkDown(j) \/ LinkReset(j)
      BY <1>6
    <3>2. used' \in 0..MaxTrouble
      BY <1>2, <3>1 DEF LinkDown, LinkReset
    <3>3. deauth' \in [Ifaces -> {0, 1}]
      BY <3>1 DEF LinkDown, LinkReset
    <3> QED BY <3>1, <3>2, <3>3 DEF LinkDown, LinkReset
  <2> QED BY <1>1, <2>1
<1>7. CASE \E p \in Peers : PeerLeaves(p) \/ PeerUnbound(p)
  BY <1>1, <1>2, <1>7 DEF PeerLeaves, PeerUnbound
<1>8. CASE UNCHANGED vars
  BY <1>8 DEF vars
<1> QED BY <1>3, <1>4, <1>5, <1>6, <1>7, <1>8

LEMMA TypeWorker ==
  ASSUME TypeInv, CreditInv, Worker
  PROVE  TypeInv'
<1> USE DEF stack, flags, history, NoWake
<1>0. ac \in Ac /\ (ac < NrAc => ac + 1 \in Ac) /\ 1 \in Ac
  BY FrameFacts DEF TypeInv, TypeOK, Ac
<1>1. CASE WorkerStart
  <2>1. pc' # "send"
    BY <1>1 DEF WorkerStart
  <2> QED BY <1>1, <2>1 DEF WorkerStart, TypeInv, TypeOK, Place
<1>2. CASE WorkerTop
  <2>1. pc' # "send"
    BY <1>2 DEF WorkerTop
  <2> QED BY <1>0, <1>2, <2>1 DEF WorkerTop, TypeInv, TypeOK, Place
<1>3. CASE WorkerGather
  <2>1. /\ \A i \in Ifaces : Taken(i) \in Seq(FrameNo)
        /\ \A i \in Ifaces : MergePureAck(txq[i][AckQ]).drop \subseteq FrameNo
    BY TakenType DEF TypeInv, AckState
  <2>2. cache' \in [Ifaces -> [Ac -> Seq(FrameNo)]]
    <3>1. cache' = [i \in Ifaces |-> [cache[i] EXCEPT ![ac] =
                       IF deauth[i] = 1 THEN <<>> ELSE Taken(i)]]
      BY <1>3 DEF WorkerGather
    <3>2. \A i \in Ifaces : (IF deauth[i] = 1 THEN <<>> ELSE Taken(i)) \in Seq(FrameNo)
      BY <2>1
    <3> HIDE DEF Taken
    <3> QED BY <3>1, <3>2 DEF TypeInv, TypeOK
  <2>3. txq' \in [Ifaces -> [Queue -> Seq(FrameNo)]]
    BY <1>3 DEF WorkerGather, TypeInv, TypeOK
  <2>4. merged' \subseteq FrameNo
    BY <1>3, <2>1 DEF WorkerGather, TypeInv, TypeOK
  <2>5. emptied' \in [Ifaces -> [Ac -> {0, 1}]]
    BY <1>3 DEF WorkerGather, TypeInv, TypeOK
  <2>6. pc' = "check" /\ UNCHANGED <<stopped, xmit, next, ac, pend, batch, capa, credit,
          fw, xcmd, thermal, deauth, gone, used, sent, leak, pending, thawed>>
    BY <1>3 DEF WorkerGather
  <2> QED BY <2>2, <2>3, <2>4, <2>5, <2>6 DEF TypeInv, TypeOK, Place
<1>4. CASE WorkerCheck
  <2>1. QueueLen \in Nat
    <3>1. \A i \in Ifaces : Len(cache[i][ac]) \in Nat
      BY <1>0 DEF TypeInv, TypeOK
    <3> QED BY <3>1, QueueLenDef
  <2>2. pend' = pend + QueueLen /\ pend' \in Nat /\ QueueLen <= pend'
    BY <1>4, <2>1 DEF WorkerCheck, TypeInv, TypeOK
  <2>3. UNCHANGED <<cache, txq, xmit, next, batch, capa, credit, fw, xcmd, thermal, deauth,
          gone, used, sent, merged, leak, emptied, pending, thawed>>
    BY <1>4 DEF WorkerCheck
  <2>4. /\ pc' \in Place /\ ac' \in Ac
        /\ pc' = "send" => ac' = ac
    BY <1>0, <1>4 DEF WorkerCheck, PassEnd, Place
  <2>5. stopped' \in [Ifaces -> [Ac -> {0, 1}]]
    BY <1>4 DEF WorkerCheck, TypeInv, TypeOK
  <2>6. pc' = "send" => QueueLen' <= pend'
    BY <2>2, <2>3, <2>4, QueueLenSame
  <2> QED BY <2>2, <2>3, <2>4, <2>5, <2>6 DEF TypeInv, TypeOK
<1>5. CASE WorkerSend
  <2>1. pc' # "send" /\ pc' \in Place
    BY <1>5 DEF WorkerSend, PassEnd, Place
  <2>2. UNCHANGED <<txq, stopped, xmit, next, ac, credit, fw, xcmd, thermal, deauth, gone,
                    used, sent, merged, leak, pending, thawed>>
    BY <1>5 DEF WorkerSend
  <2>3. CASE credit = 0
    <3>1. UNCHANGED <<cache, pend, batch, capa, emptied>>
      BY <1>5, <2>3 DEF WorkerSend
    <3> QED BY <2>1, <2>2, <3>1 DEF TypeInv, TypeOK
  <2>4. CASE credit # 0
    <3>1. PICK k \in [Ifaces -> 0..Len(Frame)] :
              /\ Share(k)
              /\ emptied' = [i \in Ifaces |-> [emptied[i] EXCEPT ![ac] =
                               IF ToSet(Heads(i, k)) \subseteq Valid THEN @ ELSE 1]]
              /\ cache' = [i \in Ifaces |-> [cache[i] EXCEPT ![ac] =
                             SubSeq(@, k[i] + 1, Len(@))]]
              /\ batch' = Batch(k)
              /\ pend' = pend - Len(Batch(k))
              /\ capa' = IF credit > Len(Batch(k)) THEN 1 ELSE 0
      BY <1>5, <2>4 DEF WorkerSend
    <3>2. \A i \in Ifaces : k[i] <= Len(cache[i][ac])
      BY <3>1 DEF Share
    <3>3. Batch(k) \in Seq(FrameNo) /\ QueueLen \in Nat /\ Len(Batch(k)) <= QueueLen
      BY <3>2, BatchLen DEF TypeInv
    <3>4. pend' \in Nat
      <4>1. QueueLen <= pend /\ pend \in Nat
        BY <1>5 DEF WorkerSend, TypeInv, TypeOK
      <4>2. Len(Batch(k)) \in Nat
        BY <3>3
      <4> QED BY <3>1, <3>3, <4>1, <4>2
    <3>5. cache' \in [Ifaces -> [Ac -> Seq(FrameNo)]]
      <4>1. \A i \in Ifaces : SubSeq(cache[i][ac], k[i] + 1, Len(cache[i][ac])) \in Seq(FrameNo)
        BY <3>2, ShareType DEF TypeInv
      <4> QED BY <3>1, <4>1 DEF TypeInv, TypeOK
    <3>6. emptied' \in [Ifaces -> [Ac -> {0, 1}]]
      BY <3>1 DEF TypeInv, TypeOK
    <3>7. batch' \in Seq(FrameNo) /\ capa' \in {0, 1}
      BY <3>1, <3>3
    <3> QED BY <2>1, <2>2, <3>4, <3>5, <3>6, <3>7 DEF TypeInv, TypeOK
  <2> QED BY <2>3, <2>4
<1>6. CASE WorkerBus
  <2>1. /\ credit' = credit - Len(batch) /\ Len(batch) \in 0..credit /\ batch' = <<>>
        /\ UNCHANGED <<txq, stopped, xmit, next, cache, pend, capa, xcmd, thermal, deauth,
                       gone, merged, emptied, pending, thawed>>
    BY <1>6 DEF WorkerBus, Charge, CreditInv
  <2>2. /\ fw' \in Nat /\ leak' \in Nat /\ used' \in 0..MaxTrouble
    <3>1. \/ fw' = fw + Len(batch) /\ UNCHANGED <<leak, used>>
          \/ leak' = leak + Len(batch) /\ used' = used + 1 /\ used < MaxTrouble /\ fw' = fw
      BY <1>6 DEF WorkerBus
    <3>2. MaxTrouble \in Nat /\ fw \in Nat /\ leak \in Nat /\ used \in 0..MaxTrouble
      BY TxAssumption DEF TypeInv, TypeOK
    <3> QED BY <2>1, <3>1, <3>2
  <2>3. sent' \in Seq(FrameNo)
    <3>1. Only(batch, Data) \in Seq(FrameNo) /\ sent \in Seq(FrameNo)
      BY OnlyType DEF TypeInv, TypeOK
    <3>2. sent' \in {sent, sent \o Only(batch, Data)}
      BY <1>6 DEF WorkerBus
    <3>3. ASSUME NEW s \in Seq(FrameNo), NEW t \in Seq(FrameNo) PROVE s \o t \in Seq(FrameNo)
      OBVIOUS
    <3> QED BY <3>1, <3>2, <3>3
  <2>4. pc' \in Place /\ pc' # "send" /\ ac' \in Ac
    BY <1>0, <1>6 DEF WorkerBus, PassEnd, Place
  <2>5. credit' \in Nat
    BY <2>1 DEF TypeInv, TypeOK
  <2> QED BY <2>1, <2>2, <2>3, <2>4, <2>5 DEF TypeInv, TypeOK
<1>7. CASE WorkerEnd
  <2>1. pc' \in Place /\ pc' # "send"
    BY <1>7 DEF WorkerEnd, Place
  <2> QED BY <1>7, <2>1 DEF WorkerEnd, TypeInv, TypeOK
<1> QED BY <1>1, <1>2, <1>3, <1>4, <1>5, <1>6, <1>7 DEF Worker

LEMMA TypeNext == TypeInv /\ CreditInv /\ [Next]_vars => TypeInv'
  BY TypeStack, TypeWorker, TypeOutside DEF Next

\* The counters of credit and of frames are natural numbers whatever happens:
\* a batch is never longer than the credit nor than what the pass has counted.
THEOREM TypeCorrect == Spec => []TypeOK
<1>1. Init => CreditInv /\ TypeInv
  BY CreditInit, TypeInit
<1>2. CreditInv /\ TypeInv /\ [Next]_vars => (CreditInv /\ TypeInv)'
  BY CreditNext, TypeNext
<1>3. TypeInv => TypeOK
  BY DEF TypeInv
<1> QED
  BY <1>1, <1>2, <1>3, PTL DEF Spec
-----------------------------------------------------------------------------
(* Stopped queues *)

\* Something will make the worker restart a stopped queue: frames it has not
\* taken, or a cache that is not empty, and while it sends from that cache one
\* so long that a batch cannot empty it.
Behind(i, a) ==
    \/ txq[i][a] # <<>>
    \/ IF pc = "send" /\ a = ac THEN Len(cache[i][a]) >= Low ELSE cache[i][a] # <<>>

FlowInv == \A i \in Ifaces, a \in Ac :
    stopped[i][a] = 1 /\ thermal = 0 /\ emptied[i][a] = 0 => Behind(i, a)

LEMMA FlowInit == Init => FlowInv
  BY DEF Init, FlowInv

\* The marks.
LEMMA Marks == Low \in Nat /\ High \in Nat /\ PktLimit \in Nat /\ PktLimit < Low
               /\ Low < High /\ 0 < Low
  BY TxAssumption

LEMMA FlowStack ==
  ASSUME TypeOK, FlowInv, NEW j \in Ifaces, Xmit(j)
  PROVE  FlowInv'
<1> USE DEF worker, flags, history
<1>1. UNCHANGED <<cache, pc, ac, thermal>>
  BY DEF Xmit, XmitQueue, XmitWake, XmitStop
<1>2. CASE XmitQueue(j)
  <2> SUFFICES ASSUME NEW i \in Ifaces, NEW a \in Ac,
                      stopped'[i][a] = 1, thermal' = 0, emptied'[i][a] = 0
               PROVE  Behind(i, a)'
    BY DEF FlowInv
  <2>1. Behind(i, a)
    BY <1>1, <1>2 DEF XmitQueue, FlowInv
  <2>2. txq[i][a] \in Seq(FrameNo) /\ next \in FrameNo /\ a \in Queue
    BY <1>2, FrameFacts DEF XmitQueue, TypeOK
  <2>3. txq'[i][a] = txq[i][a] \/ txq'[i][a] = Append(txq[i][a], next)
    <3>1. txq \in [Ifaces -> [Queue -> Seq(FrameNo)]]
      BY DEF TypeOK
    <3>2. txq' = [txq EXCEPT ![j][Frame[next].q] = Append(txq[j][Frame[next].q], next)]
      BY <1>2 DEF XmitQueue
    <3> QED BY <2>2, <3>1, <3>2
  <2>4. Append(txq[i][a], next) # <<>>
    BY <2>2
  <2> QED BY <1>1, <2>1, <2>3, <2>4 DEF Behind
<1>3. CASE XmitWake(j)
  BY <1>1, <1>3 DEF XmitWake, FlowInv, Behind
<1>4. CASE XmitStop(j)
  <2> SUFFICES ASSUME NEW i \in Ifaces, NEW a \in Ac,
                      stopped'[i][a] = 1, thermal' = 0, emptied'[i][a] = 0
               PROVE  Behind(i, a)
    BY <1>1, <1>4 DEF FlowInv, Behind, XmitStop
  <2> DEFINE q == xmit[j].q
  <2>1. \/ UNCHANGED <<stopped, emptied>>
        \/ /\ q \in Ac /\ Len(txq[j][q]) + Len(cache[j][q]) >= High
           /\ stopped' = [stopped EXCEPT ![j][q] = 1]
           /\ emptied' = [emptied EXCEPT ![j][q] = 0]
    BY <1>4 DEF XmitStop
  <2> HIDE DEF q
  <2>2. CASE UNCHANGED <<stopped, emptied>>
    BY <1>1, <2>2 DEF FlowInv
  <2>3. CASE /\ q \in Ac /\ Len(txq[j][q]) + Len(cache[j][q]) >= High
             /\ stopped' = [stopped EXCEPT ![j][q] = 1]
             /\ emptied' = [emptied EXCEPT ![j][q] = 0]
    <3>1. CASE i = j /\ a = q
      <4>1. txq[i][a] \in Seq(FrameNo) /\ cache[i][a] \in Seq(FrameNo)
        <5>1. a \in Queue
          BY FrameFacts
        <5> QED BY <5>1 DEF TypeOK
      <4>2. Len(txq[i][a]) = 0 => Len(cache[i][a]) >= Low /\ cache[i][a] # <<>>
        BY <2>3, <3>1, <4>1, Marks
      <4> QED BY <4>1, <4>2 DEF Behind
    <3>2. CASE ~(i = j /\ a = q)
      <4>1. stopped'[i][a] = stopped[i][a] /\ emptied'[i][a] = emptied[i][a]
        BY <2>3, <3>2 DEF TypeOK
      <4> QED BY <1>1, <4>1 DEF FlowInv
    <3> QED BY <3>1, <3>2
  <2> QED BY <2>1, <2>2, <2>3
<1> QED BY <1>2, <1>3, <1>4 DEF Xmit

LEMMA FlowOutside ==
  ASSUME FlowInv,
         \/ CreditReturn \/ SendCommand \/ ThermalTrip \/ ThermalResume
         \/ \E i \in Ifaces : LinkDown(i) \/ LinkReset(i)
         \/ \E p \in Peers : PeerLeaves(p) \/ PeerUnbound(p)
         \/ UNCHANGED vars
  PROVE  FlowInv'
<1> USE DEF worker, stack, flags, history
<1>1. UNCHANGED <<txq, cache, ac, pc, emptied>>
  BY DEF CreditReturn, SendCommand, ThermalTrip, ThermalResume, LinkDown, LinkReset,
         PeerLeaves, PeerUnbound, vars
<1>2. CASE ThermalTrip
  BY <1>2 DEF ThermalTrip, FlowInv
<1>3. CASE ThermalResume
  BY <1>3 DEF ThermalResume, FlowInv
<1>4. CASE ~(ThermalTrip \/ ThermalResume)
  <2>1. UNCHANGED <<stopped, thermal>>
    BY <1>4 DEF CreditReturn, SendCommand, LinkDown, LinkReset, PeerLeaves, PeerUnbound, vars
  <2> QED BY <1>1, <2>1 DEF FlowInv, Behind
<1> QED BY <1>2, <1>3, <1>4

LEMMA FlowWorker ==
  ASSUME TypeOK, FlowInv, Worker
  PROVE  FlowInv'
<1> USE DEF stack, flags, history
<1>0. thermal' = thermal
  BY DEF Worker, WorkerStart, WorkerTop, WorkerGather, WorkerCheck, WorkerSend,
         WorkerBus, WorkerEnd
<1> SUFFICES ASSUME NEW i \in Ifaces, NEW a \in Ac,
                    stopped'[i][a] = 1, thermal = 0, emptied'[i][a] = 0
             PROVE  Behind(i, a)'
  BY <1>0 DEF FlowInv
<1>1. txq[i][a] \in Seq(FrameNo) /\ cache[i][a] \in Seq(FrameNo) /\ ac \in Ac
  BY FrameFacts DEF TypeOK
<1>2. stopped[i][a] = 1 /\ emptied[i][a] = 0 => Behind(i, a)
  BY DEF FlowInv
<1>3. CASE WorkerStart \/ WorkerTop \/ WorkerBus \/ WorkerEnd
  <2>1. UNCHANGED <<txq, cache, stopped, emptied>> /\ pc # "send" /\ pc' # "send"
    BY <1>3 DEF WorkerStart, WorkerTop, WorkerBus, WorkerEnd, PassEnd
  <2> QED BY <1>2, <2>1 DEF Behind
<1>4. CASE WorkerGather
  <2>1. stopped' = stopped /\ pc = "gather" /\ pc' = "check"
    BY <1>4 DEF WorkerGather
  <2>2. CASE a # ac
    <3>1. /\ txq' = [h \in Ifaces |-> [q \in Queue |->
                       IF q = ac \/ (q = AckQ /\ ac = BE) THEN <<>> ELSE txq[h][q]]]
          /\ cache' = [h \in Ifaces |-> [cache[h] EXCEPT ![ac] =
                         IF h \in {x \in Ifaces : deauth[x] = 1} THEN <<>> ELSE Taken(h)]]
          /\ emptied' = [h \in Ifaces |-> [emptied[h] EXCEPT ![ac] =
                           IF h \in {x \in Ifaces : deauth[x] = 1} /\ Taken(h) # <<>>
                           THEN 1 ELSE @]]
      BY <1>4 DEF WorkerGather
    <3>2. txq'[i][a] = txq[i][a]
      BY <2>2, <3>1, FrameFacts
    <3>3. cache'[i][a] = cache[i][a] /\ emptied'[i][a] = emptied[i][a]
      BY <2>2, <3>1 DEF TypeOK
    <3> QED BY <1>2, <2>1, <3>2, <3>3 DEF Behind
  <2>3. CASE a = ac
    <3>1. /\ cache'[i][ac] = IF deauth[i] = 1 THEN <<>> ELSE Taken(i)
          /\ emptied'[i][ac] = IF deauth[i] = 1 /\ Taken(i) # <<>> THEN 1 ELSE emptied[i][ac]
      BY <1>1, <1>4 DEF WorkerGather, TypeOK
    <3>2. Behind(i, a) => Taken(i) # <<>>
      <4>1. MergePureAck(txq[i][AckQ]).out \in Seq(FrameNo)
        BY TakenType DEF AckState
      <4>2. ASSUME NEW r \in Seq(FrameNo), NEW s \in Seq(FrameNo), NEW t \in Seq(FrameNo),
                   r # <<>> \/ t # <<>>
            PROVE  r \o s \o t # <<>> /\ r \o <<>> \o t # <<>>
        BY <4>2
      <4> QED BY <1>1, <2>1, <2>3, <4>1, <4>2 DEF Behind, Taken
    <3>3. Behind(i, a)
      <4>1. emptied[i][a] = 0
        BY <2>3, <3>1
      <4> QED BY <1>2, <2>1, <4>1
    <3> QED BY <2>1, <2>3, <3>1, <3>2, <3>3 DEF Behind
  <2> QED BY <2>2, <2>3
<1>5. CASE WorkerCheck
  <2>1. /\ UNCHANGED <<txq, cache, emptied>> /\ pc = "check" /\ (pc' = "send" => ac' = ac)
        /\ stopped' = [h \in Ifaces |-> [stopped[h] EXCEPT ![ac] =
                         IF h \in {x \in Ifaces : cache[x][ac] # <<>>} /\ Restarts(h)
                         THEN 0 ELSE @]]
    BY <1>5 DEF WorkerCheck
  <2>2. CASE a # ac
    <3>1. stopped'[i][a] = stopped[i][a]
      BY <2>1, <2>2 DEF TypeOK
    <3> QED BY <1>2, <1>5, <2>1, <2>2, <3>1 DEF Behind, WorkerCheck
  <2>3. CASE a = ac
    <3>1. stopped[i][a] = 1 /\ (cache[i][a] = <<>> \/ ~Restarts(i))
      BY <1>1, <2>1, <2>3 DEF TypeOK
    <3>2. txq[i][a] # <<>> \/ cache[i][a] # <<>>
      BY <1>2, <1>5, <2>1, <3>1 DEF Behind, WorkerCheck
    <3>3. cache[i][a] # <<>> => Len(cache[i][a]) >= Low
      BY <1>1, <2>3, <3>1, Marks DEF Restarts
    <3>4. txq'[i][a] = txq[i][a] /\ cache'[i][a] = cache[i][a]
      BY <2>1
    <3> QED BY <3>2, <3>3, <3>4 DEF Behind
  <2> QED BY <2>2, <2>3
<1>6. CASE WorkerSend
  <2>1. UNCHANGED <<txq, stopped, ac>> /\ pc = "send" /\ pc' # "send"
    BY <1>6 DEF WorkerSend, PassEnd
  <2>2. CASE credit = 0
    <3>1. UNCHANGED <<cache, emptied>>
      BY <1>6, <2>2 DEF WorkerSend
    <3>2. Len(cache[i][a]) >= Low => cache[i][a] # <<>>
      BY <1>1, Marks
    <3> QED BY <1>2, <2>1, <3>1, <3>2 DEF Behind
  <2>3. CASE credit # 0
    <3>1. PICK k \in [Ifaces -> 0..Len(Frame)] :
              /\ Share(k)
              /\ emptied' = [h \in Ifaces |-> [emptied[h] EXCEPT ![ac] =
                               IF ToSet(Heads(h, k)) \subseteq Valid THEN @ ELSE 1]]
              /\ cache' = [h \in Ifaces |-> [cache[h] EXCEPT ![ac] =
                             SubSeq(@, k[h] + 1, Len(@))]]
      BY <1>6, <2>3 DEF WorkerSend
    <3>2. CASE a # ac
      <4>1. cache'[i][a] = cache[i][a] /\ emptied'[i][a] = emptied[i][a]
        BY <3>1, <3>2 DEF TypeOK
      <4> QED BY <1>2, <2>1, <3>2, <4>1 DEF Behind
    <3>3. CASE a = ac
      <4>1. /\ cache'[i][ac] = SubSeq(cache[i][ac], k[i] + 1, Len(cache[i][ac]))
            /\ emptied'[i][ac] = IF ToSet(Heads(i, k)) \subseteq Valid THEN emptied[i][ac] ELSE 1
        <5>1. cache[i] \in [Ac -> Seq(FrameNo)] /\ emptied[i] \in [Ac -> {0, 1}]
          BY DEF TypeOK
        <5>2. /\ cache'[i] = [cache[i] EXCEPT ![ac] =
                               SubSeq(cache[i][ac], k[i] + 1, Len(cache[i][ac]))]
              /\ emptied'[i] = [emptied[i] EXCEPT ![ac] =
                               IF ToSet(Heads(i, k)) \subseteq Valid THEN emptied[i][ac] ELSE 1]
          BY <3>1
        <5> QED BY <1>1, <5>1, <5>2
      <4>2. emptied[i][a] = 0 /\ ToSet(Heads(i, k)) \subseteq Valid
        BY <3>3, <4>1
      <4>3. \A h \in Ifaces : k[h] <= Len(cache[h][ac])
        BY <3>1 DEF Share
      <4>4. Heads(i, k) \in Seq(FrameNo) /\ Len(Heads(i, k)) = k[i]
            /\ k[i] \in 0..Len(cache[i][ac])
        BY <4>3, ShareType
      <4>5. \A x \in 1..Len(Heads(i, k)) : Heads(i, k)[x] \in Valid
        BY <4>2, <4>4 DEF ToSet
      <4>6. Len(Only(Heads(i, k), Valid)) = k[i]
        <5>1. Keeps(Heads(i, k), Valid, Only(Heads(i, k), Valid))
          BY <4>4, OnlyKeeps
        <5> QED BY <4>4, <4>5, <5>1 DEF Keeps
      <4>7. Len(Only(Heads(i, k), Valid)) <= Len(Batch(k)) /\ Len(Batch(k)) \in Nat
        BY <4>3, BatchLen
      <4>8. Len(Batch(k)) <= PktLimit
        BY <3>1, Marks DEF Share
      <4>9. k[i] < Low
        BY <4>4, <4>6, <4>7, <4>8, Marks
      <4>10. txq[i][a] # <<>> \/ Len(cache[i][a]) >= Low
        BY <1>2, <2>1, <3>3, <4>2 DEF Behind
      <4>11. Len(cache[i][a]) >= Low => cache'[i][a] # <<>>
        <5> SUFFICES ASSUME Len(cache[i][a]) >= Low PROVE Len(cache'[i][a]) > 0
          OBVIOUS
        <5>1. Len(SubSeq(cache[i][a], k[i] + 1, Len(cache[i][a]))) = Len(cache[i][a]) - k[i]
          BY <1>1, <3>3, <4>4
        <5> QED BY <1>1, <3>3, <4>1, <4>4, <4>9, <5>1, Marks
      <4> QED BY <2>1, <4>10, <4>11 DEF Behind
    <3> QED BY <3>2, <3>3
  <2> QED BY <2>2, <2>3
<1> QED BY <1>3, <1>4, <1>5, <1>6 DEF Worker

LEMMA FlowNext == TypeInv /\ FlowInv /\ [Next]_vars => FlowInv'
  BY FlowStack, FlowWorker, FlowOutside DEF Next, TypeInv

LEMMA FlowSuffices == TypeOK /\ FlowInv => OnlyWipeStrandsQueue
<1> SUFFICES ASSUME TypeOK, FlowInv, NEW i \in Ifaces, NEW a \in Ac,
                    stopped[i][a] = 1, thermal = 0, txq[i][a] = <<>>, cache[i][a] = <<>>,
                    emptied[i][a] # 1
             PROVE  FALSE
  BY DEF OnlyWipeStrandsQueue
<1>1. emptied[i][a] = 0
  BY DEF TypeOK
<1>2. Behind(i, a)
  BY <1>1 DEF FlowInv
<1> QED BY <1>2, Marks DEF Behind

\* For any marks in the order of the code's, a netdev queue stays stopped with
\* nothing behind it only after frames were thrown away: a batch is too short
\* to empty a cache that is still above the low mark.
THEOREM OnlyWipesStrandQueues == Spec => []OnlyWipeStrandsQueue
<1>1. Init => CreditInv /\ TypeInv /\ FlowInv
  BY CreditInit, TypeInit, FlowInit
<1>2. CreditInv /\ TypeInv /\ FlowInv /\ [Next]_vars => (CreditInv /\ TypeInv /\ FlowInv)'
  BY CreditNext, TypeNext, FlowNext
<1>3. TypeInv /\ FlowInv => OnlyWipeStrandsQueue
  BY FlowSuffices DEF TypeInv
<1> QED
  BY <1>1, <1>2, <1>3, PTL DEF Spec
-----------------------------------------------------------------------------
(* The order of data frames *)

SameLane(m, n) == Frame[m].iface = Frame[n].iface /\ Frame[m].q = Frame[n].q

\* Data frames of one interface and category stand in the order of the stack.
Ordered(s) == \A j, k \in 1..Len(s) :
    j < k /\ s[j] \in Data /\ SameLane(s[j], s[k]) => s[j] < s[k]

\* The same for two sets of frames, all of A before all of B.
Precedes(A, B) == \A m \in A, n \in B : m \in Data /\ SameLane(m, n) => m < n

LEMMA ConcatElems ==
  ASSUME NEW s \in Seq(FrameNo), NEW t \in Seq(FrameNo)
  PROVE  /\ s \o t \in Seq(FrameNo)
         /\ Elems(s \o t) = Elems(s) \union Elems(t)
<1>1. /\ s \o t \in Seq(FrameNo) /\ Len(s \o t) = Len(s) + Len(t)
      /\ Len(s) \in Nat /\ Len(t) \in Nat
      /\ \A j \in 1..Len(s) : (s \o t)[j] = s[j]
      /\ \A j \in 1..Len(t) : (s \o t)[Len(s) + j] = t[j]
  OBVIOUS
<1> DEFINE u == s \o t
<1> HIDE DEF u
<1>2. ASSUME NEW j \in 1..Len(u) PROVE u[j] \in Elems(s) \union Elems(t)
  <2>1. CASE j <= Len(s)
    BY <1>1, <2>1 DEF u, Elems
  <2>2. CASE j > Len(s)
    <3>1. j - Len(s) \in 1..Len(t) /\ u[Len(s) + (j - Len(s))] = t[j - Len(s)]
          /\ Len(s) + (j - Len(s)) = j
      BY <1>1, <2>2 DEF u
    <3> QED BY <3>1 DEF Elems
  <2> QED BY <1>1, <2>1, <2>2 DEF u
<1>3. ASSUME NEW j \in 1..Len(s) PROVE s[j] \in Elems(u)
  BY <1>1 DEF u, Elems
<1>4. ASSUME NEW j \in 1..Len(t) PROVE t[j] \in Elems(u)
  <2>1. Len(s) + j \in 1..Len(u) /\ u[Len(s) + j] = t[j]
    BY <1>1 DEF u
  <2> QED BY <2>1 DEF Elems
<1>5. Elems(u) = Elems(s) \union Elems(t)
  BY <1>2, <1>3, <1>4 DEF Elems
<1> QED BY <1>1, <1>5 DEF u

LEMMA ConcatOrdered ==
  ASSUME NEW s \in Seq(FrameNo), NEW t \in Seq(FrameNo)
  PROVE  Ordered(s \o t) <=> Ordered(s) /\ Ordered(t) /\ Precedes(Elems(s), Elems(t))
<1> DEFINE u == s \o t
<1>1. /\ Len(u) = Len(s) + Len(t) /\ Len(s) \in Nat /\ Len(t) \in Nat
      /\ \A j \in 1..Len(s) : u[j] = s[j]
      /\ \A j \in 1..Len(t) : u[Len(s) + j] = t[j]
  OBVIOUS
<1> HIDE DEF u
<1>2. ASSUME Ordered(u) PROVE Ordered(s) /\ Ordered(t) /\ Precedes(Elems(s), Elems(t))
  <2>1. ASSUME NEW j \in 1..Len(s), NEW k \in 1..Len(s), j < k, s[j] \in Data,
               SameLane(s[j], s[k])
        PROVE  s[j] < s[k]
    BY <1>1, <1>2, <2>1 DEF Ordered
  <2>2. ASSUME NEW j \in 1..Len(t), NEW k \in 1..Len(t), j < k, t[j] \in Data,
               SameLane(t[j], t[k])
        PROVE  t[j] < t[k]
    <3>1. Len(s) + j \in 1..Len(u) /\ Len(s) + k \in 1..Len(u) /\ Len(s) + j < Len(s) + k
      BY <1>1, <2>2
    <3>2. u[Len(s) + j] = t[j] /\ u[Len(s) + k] = t[k]
      BY <1>1
    <3> QED BY <1>2, <2>2, <3>1, <3>2 DEF Ordered
  <2>3. ASSUME NEW j \in 1..Len(s), NEW k \in 1..Len(t), s[j] \in Data,
               SameLane(s[j], t[k])
        PROVE  s[j] < t[k]
    <3>1. j \in 1..Len(u) /\ Len(s) + k \in 1..Len(u) /\ j < Len(s) + k
      BY <1>1
    <3>2. u[j] = s[j] /\ u[Len(s) + k] = t[k]
      BY <1>1
    <3> QED BY <1>2, <2>3, <3>1, <3>2 DEF Ordered
  <2> QED BY <2>1, <2>2, <2>3 DEF Ordered, Precedes, Elems
<1>3. ASSUME Ordered(s), Ordered(t), Precedes(Elems(s), Elems(t)) PROVE Ordered(u)
  <2> SUFFICES ASSUME NEW j \in 1..Len(u), NEW k \in 1..Len(u), j < k, u[j] \in Data,
                      SameLane(u[j], u[k])
               PROVE  u[j] < u[k]
    BY DEF Ordered
  <2>1. CASE k <= Len(s)
    <3>1. j \in 1..Len(s) /\ k \in 1..Len(s)
      BY <1>1, <2>1
    <3> QED BY <1>1, <1>3, <3>1 DEF Ordered
  <2>2. CASE j > Len(s)
    <3> DEFINE x == j - Len(s)
               y == k - Len(s)
    <3>1. x \in 1..Len(t) /\ y \in 1..Len(t) /\ x < y /\ Len(s) + x = j /\ Len(s) + y = k
      BY <1>1, <2>2
    <3> HIDE DEF x, y
    <3>2. u[j] = t[x] /\ u[k] = t[y]
      BY <1>1, <3>1
    <3> QED BY <1>3, <3>1, <3>2 DEF Ordered
  <2>3. CASE j <= Len(s) /\ k > Len(s)
    <3> DEFINE y == k - Len(s)
    <3>1. j \in 1..Len(s) /\ y \in 1..Len(t) /\ Len(s) + y = k
      BY <1>1, <2>3
    <3> HIDE DEF y
    <3>2. u[j] = s[j] /\ u[k] = t[y]
      BY <1>1, <3>1
    <3>3. u[j] \in Elems(s) /\ u[k] \in Elems(t)
      BY <3>1, <3>2 DEF Elems
    <3> QED BY <1>3, <3>3 DEF Precedes
  <2> QED BY <1>1, <2>1, <2>2, <2>3
<1> QED BY <1>2, <1>3 DEF u

LEMMA OnlyOrdered ==
  ASSUME NEW s \in Seq(FrameNo), NEW A
  PROVE  /\ Only(s, A) \in Seq(FrameNo) /\ Elems(Only(s, A)) \subseteq Elems(s) \cap A
         /\ Ordered(s) => Ordered(Only(s, A))
<1> DEFINE t == Only(s, A)
<1>1. Keeps(s, A, t)
  BY OnlyKeeps
<1> HIDE DEF t
<1>2. t \in Seq(FrameNo) /\ \A j \in 1..Len(t) : t[j] \in A /\ \E i \in 1..Len(s) : t[j] = s[i]
  BY <1>1 DEF Keeps
<1>3. Elems(t) \subseteq Elems(s) \cap A
  BY <1>2 DEF Elems
<1>4. ASSUME Ordered(s) PROVE Ordered(t)
  <2> SUFFICES ASSUME NEW j \in 1..Len(t), NEW k \in 1..Len(t), j < k, t[j] \in Data,
                      SameLane(t[j], t[k])
               PROVE  t[j] < t[k]
    BY DEF Ordered
  <2>1. PICK h \in 1..Len(s), i \in 1..Len(s) : h < i /\ t[j] = s[h] /\ t[k] = s[i]
    BY <1>1 DEF Keeps
  <2> QED BY <1>4, <2>1 DEF Ordered
<1> QED BY <1>2, <1>3, <1>4 DEF t

\* A sequence in two parts.
LEMMA Cut ==
  ASSUME NEW s \in Seq(FrameNo), NEW n \in 0..Len(s)
  PROVE  /\ SubSeq(s, 1, n) \in Seq(FrameNo) /\ SubSeq(s, n + 1, Len(s)) \in Seq(FrameNo)
         /\ s = SubSeq(s, 1, n) \o SubSeq(s, n + 1, Len(s))
<1> DEFINE L == Len(s)
           h == SubSeq(s, 1, n)
           r == SubSeq(s, n + 1, L)
<1>1. L \in Nat /\ n \in 0..L
  OBVIOUS
<1>2. h \in Seq(FrameNo) /\ Len(h) = n /\ \A j \in 1..n : h[j] = s[j]
  BY <1>1
<1>3. r \in Seq(FrameNo) /\ Len(r) = L - n /\ \A j \in 1..L - n : r[j] = s[n + j]
  BY <1>1
<1> HIDE DEF h, r
<1>4. Len(h \o r) = L /\ h \o r \in Seq(FrameNo)
  BY <1>1, <1>2, <1>3
<1>5. ASSUME NEW j \in 1..L PROVE (h \o r)[j] = s[j]
  <2>1. CASE j <= n
    BY <1>1, <1>2, <1>3, <2>1
  <2>2. CASE j > n
    <3>1. j - n \in 1..L - n /\ n + (j - n) = j
      BY <1>1, <2>2
    <3>2. (h \o r)[j] = r[j - n]
      BY <1>1, <1>2, <1>3, <2>2
    <3> QED BY <1>3, <3>1, <3>2
  <2>3. j <= n \/ j > n
    BY <1>1
  <2> QED BY <2>1, <2>2, <2>3
<1>6. h \o r = s
  BY <1>4, <1>5, SeqEqual
<1> QED BY <1>2, <1>3, <1>6 DEF h, r

\* A run of frames of one interface and queue, as the stack handed them over
\* before frame b.
Run(s, i, q, b) ==
    /\ \A j, k \in 1..Len(s) : j < k => s[j] < s[k]
    /\ \A n \in Elems(s) : n < b /\ Frame[n].iface = i /\ Frame[n].q = q

\* The queues hold the frames of their interface and category in order.
QueueInv == \A i \in Ifaces, q \in Queue : Run(txq[i][q], i, q, next)

LEMMA RunGrows ==
  ASSUME NEW s \in Seq(FrameNo), NEW i, NEW q, NEW b \in FrameNo, Run(s, i, q, b)
  PROVE  /\ Run(s, i, q, b + 1)
         /\ Frame[b].iface = i /\ Frame[b].q = q => Run(Append(s, b), i, q, b + 1)
<1> DEFINE t == Append(s, b)
<1>0. \A n \in FrameNo : n \in Nat
  BY FrameFacts
<1>1. Len(s) \in Nat /\ \A j \in 1..Len(s) : s[j] \in FrameNo /\ s[j] \in Elems(s)
  BY DEF Elems
<1>2. \A n \in Elems(s) : n \in Nat
  BY <1>0, <1>1 DEF Elems
<1>3. Run(s, i, q, b + 1)
  BY <1>0, <1>2 DEF Run
<1>4. /\ Len(t) = Len(s) + 1 /\ t[Len(s) + 1] = b
      /\ \A j \in 1..Len(s) : t[j] = s[j]
  BY <1>1
<1> HIDE DEF t
<1>5. ASSUME Frame[b].iface = i, Frame[b].q = q PROVE Run(t, i, q, b + 1)
  <2>1. ASSUME NEW j \in 1..Len(t), NEW k \in 1..Len(t), j < k PROVE t[j] < t[k]
    <3>1. j \in 1..Len(s)
      BY <1>1, <1>4, <2>1
    <3>2. t[j] = s[j] /\ s[j] < b
      BY <1>1, <1>4, <3>1 DEF Run
    <3>3. CASE k = Len(s) + 1
      BY <1>4, <3>2, <3>3
    <3>4. CASE k # Len(s) + 1
      <4>1. k \in 1..Len(s) /\ t[k] = s[k]
        BY <1>1, <1>4, <3>4
      <4> QED BY <2>1, <3>1, <3>2, <4>1 DEF Run
    <3> QED BY <3>3, <3>4
  <2>2. ASSUME NEW n \in Elems(t) PROVE n < b + 1 /\ Frame[n].iface = i /\ Frame[n].q = q
    <3>1. PICK j \in 1..Len(t) : n = t[j]
      BY DEF Elems
    <3>2. CASE j = Len(s) + 1
      BY <1>0, <1>4, <1>5, <3>1, <3>2
    <3>3. CASE j # Len(s) + 1
      <4>1. n = s[j] /\ j \in 1..Len(s)
        BY <1>1, <1>4, <3>1, <3>3
      <4>2. n \in Elems(s)
        BY <1>1, <4>1
      <4> QED BY <1>3, <4>2 DEF Run
    <3> QED BY <3>2, <3>3
  <2> QED BY <2>1, <2>2 DEF Run
<1> QED BY <1>3, <1>5 DEF t

LEMMA QueueInit == Init => QueueInv
<1>1. \A i, q, b : Run(<<>>, i, q, b)
  BY DEF Run, Elems
<1> QED BY <1>1 DEF Init, QueueInv

\* What a step does to the queues.
LEMMA QueueSteps ==
  ASSUME [Next]_vars
  PROVE  \/ UNCHANGED <<txq, next, merged>>
         \/ \E i \in Ifaces : XmitQueue(i)
         \/ WorkerGather
<1> USE DEF worker, stack, flags, history
<1>1. ASSUME NEW i \in Ifaces, Xmit(i), ~XmitQueue(i) PROVE UNCHANGED <<txq, next, merged>>
  BY <1>1 DEF Xmit, XmitWake, XmitStop
<1>2. ASSUME Worker, ~WorkerGather PROVE UNCHANGED <<txq, next, merged>>
  BY <1>2 DEF Worker, WorkerStart, WorkerTop, WorkerCheck, WorkerSend, WorkerBus, WorkerEnd
<1>3. ASSUME \/ CreditReturn \/ SendCommand \/ ThermalTrip \/ ThermalResume
             \/ \E i \in Ifaces : LinkDown(i) \/ LinkReset(i)
             \/ \E p \in Peers : PeerLeaves(p) \/ PeerUnbound(p)
             \/ UNCHANGED vars
      PROVE  UNCHANGED <<txq, next, merged>>
  BY <1>3 DEF CreditReturn, SendCommand, ThermalTrip, ThermalResume, LinkDown, LinkReset,
              PeerLeaves, PeerUnbound, vars
<1> QED BY <1>1, <1>2, <1>3 DEF Next

\* The queue of the caller grows, the others stay.
LEMMA QueueAppends ==
  ASSUME TypeOK, NEW i \in Ifaces, XmitQueue(i)
  PROVE  /\ next \in FrameNo /\ Frame[next].iface = i /\ Frame[next].q \in Queue
         /\ next' = next + 1
         /\ \A h \in Ifaces, q \in Queue :
               txq'[h][q] = IF h = i /\ q = Frame[next].q THEN Append(txq[h][q], next)
                            ELSE txq[h][q]
<1>1. /\ next \in FrameNo /\ Frame[next].iface = i /\ next' = next + 1
      /\ txq' = [txq EXCEPT ![i][Frame[next].q] = Append(txq[i][Frame[next].q], next)]
  BY DEF XmitQueue
<1>2. Frame[next].q \in Queue
  BY <1>1, FrameFacts
<1>3. txq \in [Ifaces -> [Queue -> Seq(FrameNo)]]
  BY DEF TypeOK
<1> QED BY <1>1, <1>2, <1>3

\* The worker empties the queue of its category, and that of the ACKs with it.
LEMMA QueueGathers ==
  ASSUME WorkerGather
  PROVE  /\ next' = next
         /\ \A h \in Ifaces, q \in Queue :
               txq'[h][q] = IF q = ac \/ (q = AckQ /\ ac = BE) THEN <<>> ELSE txq[h][q]
  BY DEF WorkerGather

LEMMA QueueNext == TypeOK /\ QueueInv /\ [Next]_vars => QueueInv'
<1> SUFFICES ASSUME TypeOK, QueueInv, [Next]_vars PROVE QueueInv'
  OBVIOUS
<1>1. CASE UNCHANGED <<txq, next, merged>>
  BY <1>1 DEF QueueInv
<1>2. ASSUME NEW i \in Ifaces, XmitQueue(i) PROVE QueueInv'
  <2> SUFFICES ASSUME NEW h \in Ifaces, NEW q \in Queue PROVE Run(txq'[h][q], h, q, next')
    BY DEF QueueInv
  <2>1. Run(txq[h][q], h, q, next) /\ txq[h][q] \in Seq(FrameNo)
    BY DEF QueueInv, TypeOK
  <2>2. /\ next \in FrameNo /\ Frame[next].iface = i /\ next' = next + 1
        /\ txq'[h][q] = IF h = i /\ q = Frame[next].q THEN Append(txq[h][q], next)
                        ELSE txq[h][q]
    BY <1>2, QueueAppends
  <2>3. /\ Run(txq[h][q], h, q, next + 1)
        /\ h = i /\ q = Frame[next].q => Run(Append(txq[h][q], next), h, q, next + 1)
    BY <2>1, <2>2, RunGrows
  <2> QED BY <2>2, <2>3
<1>3. CASE WorkerGather
  <2> SUFFICES ASSUME NEW h \in Ifaces, NEW q \in Queue PROVE Run(txq'[h][q], h, q, next')
    BY DEF QueueInv
  <2>1. next' = next /\ (txq'[h][q] = <<>> \/ txq'[h][q] = txq[h][q])
    BY <1>3, QueueGathers
  <2>2. Run(<<>>, h, q, next)
    BY DEF Run, Elems
  <2> QED BY <2>1, <2>2 DEF QueueInv
<1> QED BY <1>1, <1>2, <1>3, QueueSteps
-----------------------------------------------------------------------------
(* Merged ACKs *)

\* The worker has taken ACK m: it is in no queue.
TakenAck(m) == \A i \in Ifaces : m \notin Elems(txq[i][AckQ])

Covers(m, n) ==
    /\ m \in (1..next - 1) \ merged /\ TakenAck(m)
    /\ Frame[m].stream = Frame[n].stream
    /\ n < m \/ OtherPair(n)

\* The ACKs that were merged away, and what stands for them, are out of the
\* queues, so no later merge can touch them.
AckInv == \A n \in merged :
    n \in Bare /\ n < next /\ TakenAck(n) /\ \E m \in FrameNo : Covers(m, n)

LEMMA AckInit == Init => AckInv
  BY DEF Init, AckInv

\* Handing over more frames takes no pair of ACKs away.
LEMMA PairStays ==
  ASSUME next' \in Nat, next \in Nat, next <= next', NEW n, OtherPair(n)
  PROVE  OtherPair(n)'
<1>1. PICK x \in 1..next - 1, y \in 1..next - 1 :
        /\ x # y /\ Frame[x].stream = Frame[y].stream /\ Frame[x].stream # Frame[n].stream
        /\ \A z \in {x, y} : Frame[z].q = AckQ /\ Frame[z].iface = Frame[n].iface
  BY DEF OtherPair
<1>2. x \in 1..next' - 1 /\ y \in 1..next' - 1
  <2>1. ASSUME NEW a \in Nat, NEW b \in Nat, a <= b PROVE 1..a - 1 \subseteq 1..b - 1
    BY <2>1
  <2>2. 1..next - 1 \subseteq 1..next' - 1
    BY <2>1
  <2> QED BY <1>1, <2>2
<1> QED BY <1>1, <1>2 DEF OtherPair

\* What one interface's merge drops, is covered by what the merge keeps.
LEMMA DropCovered ==
  ASSUME TypeOK, QueueInv, AckInv, NEW i \in Ifaces,
         NEW n \in MergePureAck(txq[i][AckQ]).drop
  PROVE  /\ n \in Elems(txq[i][AckQ]) /\ n \in Bare
         /\ \E m \in Elems(txq[i][AckQ]) :
               /\ m \notin MergePureAck(txq[i][AckQ]).drop
               /\ Frame[m].stream = Frame[n].stream
               /\ n < m \/ OtherPair(n)
<1> DEFINE q == txq[i][AckQ]
           Q == Elems(q)
           a == MergePureAck(q)
<1>1. q \in Seq(FrameNo) /\ AckQ \in Queue
  BY FrameFacts DEF TypeOK
<1>2. Run(q, i, AckQ, next)
  BY <1>1 DEF QueueInv
<1>3. MergeInv(Q, a)
  <2>1. \A j, k \in 1..Len(q) : j < k => q[j] < q[k]
    BY <1>2 DEF Run
  <2> HIDE DEF q
  <2> QED BY <1>1, <2>1, MergeCovers
<1>4. Q \subseteq FrameNo /\ \A m \in Q : m < next /\ Frame[m].iface = i /\ Frame[m].q = AckQ
  BY <1>1, <1>2 DEF Run, Elems
<1> HIDE DEF q, Q, a
<1>5. n \in a.drop
  BY DEF a, q
<1>6. n \in Q /\ n \in Bare
  BY <1>3, <1>5 DEF MergeInv
<1>7. PICK m \in Q \ (a.drop \union Elems(a.ackq)) :
         Frame[m].stream = Frame[n].stream /\ (n < m \/ PairIn(Q, n))
  BY <1>3, <1>5 DEF MergeInv
<1>8. ASSUME PairIn(Q, n) PROVE OtherPair(n)
  <2>1. PICK x \in Q, y \in Q : /\ x # y /\ Frame[x].stream = Frame[y].stream
                                /\ Frame[x].stream # Frame[n].stream
    BY <1>8 DEF PairIn
  <2>2. \A z \in Q : z \in 1..next - 1
    <3>1. next \in Nat
      BY FrameFacts DEF TypeOK
    <3> QED BY <1>4, <3>1, FrameFacts
  <2>3. \A z \in {x, y} : Frame[z].q = AckQ /\ Frame[z].iface = Frame[n].iface
    BY <1>4, <1>6
  <2> QED BY <2>1, <2>2, <2>3 DEF OtherPair
<1> QED BY <1>6, <1>7, <1>8 DEF a, Q, q

LEMMA AckNext == TypeOK /\ QueueInv /\ AckInv /\ [Next]_vars => AckInv'
<1> SUFFICES ASSUME TypeOK, QueueInv, AckInv, [Next]_vars PROVE AckInv'
  OBVIOUS
<1>0. next \in Nat /\ \A m \in FrameNo : m \in Nat
  BY FrameFacts DEF TypeOK
<1>1. CASE UNCHANGED <<txq, next, merged>>
  BY <1>1 DEF AckInv, Covers, TakenAck, OtherPair
<1>2. ASSUME NEW i \in Ifaces, XmitQueue(i) PROVE AckInv'
  <2>1. /\ next' = next + 1 /\ merged' = merged /\ next \in FrameNo
        /\ \A h \in Ifaces : txq'[h][AckQ] = Append(txq[h][AckQ], next)
                             \/ txq'[h][AckQ] = txq[h][AckQ]
    BY <1>2, QueueAppends, FrameFacts DEF XmitQueue, history
  <2>2. ASSUME NEW m, m # next, TakenAck(m) PROVE TakenAck(m)'
    <3> SUFFICES ASSUME NEW h \in Ifaces PROVE m \notin Elems(txq'[h][AckQ])
      BY DEF TakenAck
    <3>1. txq[h][AckQ] \in Seq(FrameNo) /\ m \notin Elems(txq[h][AckQ])
      BY <2>2, FrameFacts DEF TypeOK, TakenAck
    <3>2. ASSUME NEW s \in Seq(FrameNo), m \notin Elems(s) PROVE m \notin Elems(Append(s, next))
      BY <2>1, <2>2, <3>2 DEF Elems
    <3> QED BY <2>1, <3>1, <3>2
  <2> SUFFICES ASSUME NEW n \in merged
               PROVE  /\ n \in Bare /\ n < next + 1 /\ TakenAck(n)'
                      /\ \E m \in FrameNo : Covers(m, n)'
    BY <2>1 DEF AckInv
  <2>3. n \in Bare /\ n < next /\ TakenAck(n) /\ n \in FrameNo
    BY DEF AckInv, TypeOK
  <2>4. PICK m \in FrameNo : Covers(m, n)
    BY DEF AckInv
  <2>5. m \in 1..next' - 1 /\ m # next /\ m \notin merged'
    BY <1>0, <2>1, <2>4 DEF Covers
  <2>6. OtherPair(n) => OtherPair(n)'
    BY <1>0, <2>1, PairStays
  <2>7. Covers(m, n)'
    BY <2>2, <2>4, <2>5, <2>6 DEF Covers
  <2>8. n < next + 1 /\ TakenAck(n)'
    BY <1>0, <2>2, <2>3
  <2> QED BY <2>3, <2>7, <2>8
<1>3. CASE WorkerGather /\ ac # BE
  <2>1. merged' = merged /\ next' = next
    BY <1>3 DEF WorkerGather
  <2>2. \A h \in Ifaces : txq'[h][AckQ] = txq[h][AckQ]
    <3>1. ac # AckQ
      BY FrameFacts DEF TypeOK
    <3> QED BY <1>3, <3>1, QueueGathers, FrameFacts
  <2>3. \A m : TakenAck(m)' <=> TakenAck(m)
    BY <2>2 DEF TakenAck
  <2>4. \A n \in merged : OtherPair(n)' <=> OtherPair(n)
    BY <2>1 DEF OtherPair
  <2> QED BY <2>1, <2>3, <2>4 DEF AckInv, Covers
<1>4. CASE WorkerGather /\ ac = BE
  <2> DEFINE Q(i) == Elems(txq[i][AckQ])
             drop(i) == MergePureAck(txq[i][AckQ]).drop
  <2>1. next' = next /\ merged' = merged \union UNION {drop(i) : i \in Ifaces}
    BY <1>4 DEF WorkerGather
  <2>2. \A m : TakenAck(m)'
    <3>1. \A h \in Ifaces : txq'[h][AckQ] = <<>>
      BY <1>4, QueueGathers, FrameFacts
    <3> QED BY <3>1 DEF TakenAck, Elems
  <2>3. \A i \in Ifaces : \A m \in Q(i) : m \in 1..next - 1 /\ m \in FrameNo /\ Frame[m].iface = i
    <3> SUFFICES ASSUME NEW i \in Ifaces, NEW m \in Q(i)
                 PROVE  m \in 1..next - 1 /\ m \in FrameNo /\ Frame[m].iface = i
      OBVIOUS
    <3>1. txq[i][AckQ] \in Seq(FrameNo) /\ Run(txq[i][AckQ], i, AckQ, next)
      BY FrameFacts DEF TypeOK, QueueInv
    <3>2. m \in FrameNo /\ m < next /\ Frame[m].iface = i
      BY <3>1 DEF Run, Elems
    <3> QED BY <1>0, <3>2, FrameFacts
  <2>4. ASSUME NEW i \in Ifaces, NEW n \in drop(i)
        PROVE  /\ n \in Q(i) /\ n \in Bare
               /\ \E m \in Q(i) : /\ m \notin drop(i) /\ Frame[m].stream = Frame[n].stream
                                  /\ n < m \/ OtherPair(n)
    BY <2>4, DropCovered
  <2> HIDE DEF Q, drop
  \* What a merge keeps was not dropped before, nor is it at another interface.
  <2>5. ASSUME NEW i \in Ifaces, NEW m \in Q(i), m \notin drop(i) PROVE m \notin merged'
    <3>1. m \notin merged
      BY <2>5 DEF AckInv, TakenAck, Q
    <3>2. ASSUME NEW h \in Ifaces, m \in drop(h) PROVE FALSE
      <4>1. m \in Q(h)
        BY <2>4, <3>2
      <4>2. h = i
        BY <2>3, <2>5, <4>1
      <4> QED BY <2>5, <3>2, <4>2
    <3> QED BY <2>1, <3>1, <3>2
  <2>6. \A n : OtherPair(n)' <=> OtherPair(n)
    BY <2>1 DEF OtherPair
  <2> SUFFICES ASSUME NEW n \in merged'
               PROVE  n \in Bare /\ n < next /\ \E m \in FrameNo : Covers(m, n)'
    BY <2>1, <2>2 DEF AckInv
  <2>7. CASE n \in merged
    <3>1. PICK m \in FrameNo : Covers(m, n)
      BY <2>7 DEF AckInv
    <3>2. m \notin merged'
      <4>1. m \notin merged /\ \A i \in Ifaces : m \notin Q(i)
        BY <3>1 DEF Covers, TakenAck, Q
      <4> QED BY <2>1, <2>4, <4>1
    <3>3. Covers(m, n)'
      BY <2>1, <2>2, <2>6, <3>1, <3>2 DEF Covers
    <3> QED BY <2>7, <3>3 DEF AckInv
  <2>8. CASE n \notin merged
    <3>1. PICK i \in Ifaces : n \in drop(i)
      BY <2>1, <2>8
    <3>2. n \in Q(i) /\ n \in Bare
      BY <2>4, <3>1
    <3>3. PICK m \in Q(i) : /\ m \notin drop(i) /\ Frame[m].stream = Frame[n].stream
                            /\ n < m \/ OtherPair(n)
      BY <2>4, <3>1
    <3>4. m \in FrameNo /\ m \in (1..next - 1) \ merged' /\ n < next
      BY <1>0, <2>3, <2>5, <3>2, <3>3
    <3>5. Covers(m, n)'
      BY <2>1, <2>2, <2>6, <3>3, <3>4 DEF Covers
    <3> QED BY <3>2, <3>4, <3>5
  <2> QED BY <2>7, <2>8
<1> QED BY <1>1, <1>2, <1>3, <1>4, QueueSteps

\* For any frames, in any number and of any streams: a pure ACK that is merged
\* away has no TCP options, and an ACK of its stream is kept, the newer one or,
\* when two ACKs of another stream were merged too, perhaps an older.
THEOREM MergedAcksAreCovered == Spec => []MergedAckIsCovered
<1>1. Init => CreditInv /\ TypeInv /\ QueueInv /\ AckInv
  BY CreditInit, TypeInit, QueueInit, AckInit
<1>2. CreditInv /\ TypeInv /\ QueueInv /\ AckInv /\ [Next]_vars
         => (CreditInv /\ TypeInv /\ QueueInv /\ AckInv)'
  BY CreditNext, TypeNext, QueueNext, AckNext DEF TypeInv
<1>3. AckInv => MergedAckIsCovered
  BY DEF AckInv, Covers, MergedAckIsCovered
<1> QED
  BY <1>1, <1>2, <1>3, PTL DEF Spec
-----------------------------------------------------------------------------
(* Order of leaving *)

\* The frames that have left the caches.
Left == Elems(sent) \union Elems(batch)

\* A cache holds data frames of its own interface and category only, in order,
\* after all that left and before all that is still queued.
Waits(i, a) ==
    /\ \A n \in Elems(cache[i][a]) :
          n < next /\ (n \in Data => Frame[n].iface = i /\ Frame[n].q = a)
    /\ Ordered(cache[i][a])
    /\ Precedes(Elems(cache[i][a]), Elems(txq[i][a]))
    /\ Precedes(Left, Elems(cache[i][a]) \union Elems(txq[i][a]))

OrderInv ==
    /\ Elems(sent) \subseteq Data
    /\ pc # "bus" => batch = <<>>
    /\ Ordered(sent) /\ Ordered(batch) /\ Precedes(Elems(sent), Elems(batch))
    /\ \A n \in Left : n < next
    /\ \A i \in Ifaces, a \in Ac : Waits(i, a)

LEMMA OfNothing == Elems(<<>>) = {} /\ Ordered(<<>>)
  BY DEF Elems, Ordered

LEMMA OrderInit == Init => OrderInv
<1> SUFFICES ASSUME Init PROVE OrderInv
  OBVIOUS
<1>1. sent = <<>> /\ batch = <<>>
      /\ \A i \in Ifaces, a \in Ac : cache[i][a] = <<>>
  BY DEF Init
<1>2. Left = {}
  BY <1>1, OfNothing DEF Left
<1>3. \A B : Precedes({}, B)
  BY DEF Precedes
<1>4. ASSUME NEW i \in Ifaces, NEW a \in Ac PROVE Waits(i, a)
  BY <1>1, <1>2, <1>3, <1>4, OfNothing DEF Waits
<1> QED BY <1>1, <1>2, <1>3, <1>4, OfNothing DEF OrderInv

LEMMA SubPrecedes ==
  ASSUME NEW A, NEW B, NEW C, NEW D, Precedes(A, B), C \subseteq A, D \subseteq B
  PROVE  Precedes(C, D)
  BY DEF Precedes

LEMMA ElemsType ==
  ASSUME NEW s \in Seq(FrameNo)
  PROVE  Elems(s) \subseteq FrameNo
  BY DEF Elems

\* The sequences of the model, typed.
LEMMA OrderTypes ==
  ASSUME TypeOK
  PROVE  /\ sent \in Seq(FrameNo) /\ batch \in Seq(FrameNo)
         /\ \A i \in Ifaces, a \in Ac : cache[i][a] \in Seq(FrameNo)
         /\ \A i \in Ifaces, q \in Queue : txq[i][q] \in Seq(FrameNo)
         /\ ac \in Ac /\ next \in Nat
  BY FrameFacts DEF TypeOK

\* A frame that waits in the lane of a data frame stands where it belongs.
LEMMA LaneOf ==
  ASSUME TypeOK, QueueInv, OrderInv, NEW i \in Ifaces, NEW a \in Ac,
         NEW m \in Elems(cache[i][a]) \union Elems(txq[i][a]), NEW n \in Data, SameLane(n, m)
  PROVE  m \in Data /\ Frame[n].iface = i /\ Frame[n].q = a
<1>1. m \in FrameNo
  BY OrderTypes, ElemsType, FrameFacts
<1>2. Frame[m].q = Frame[n].q /\ Frame[m].iface = Frame[n].iface /\ m \in Data
  BY <1>1 DEF SameLane, Data
<1>3. CASE m \in Elems(cache[i][a])
  <2>1. Waits(i, a)
    BY DEF OrderInv
  <2>2. m \in Data => Frame[m].iface = i /\ Frame[m].q = a
    BY <1>3, <2>1 DEF Waits
  <2> QED BY <1>2, <2>2
<1>4. CASE m \in Elems(txq[i][a])
  BY <1>2, <1>4, FrameFacts DEF QueueInv, Run
<1> QED BY <1>2, <1>3, <1>4

\* What the worker takes: the cache, merged ACKs and the queue, in this order.
LEMMA TakenOrdered ==
  ASSUME TypeOK, QueueInv, OrderInv, NEW i \in Ifaces
  PROVE  /\ Taken(i) \in Seq(FrameNo) /\ Ordered(Taken(i))
         /\ \A n \in Elems(Taken(i)) :
               n \in Elems(cache[i][ac]) \union Elems(txq[i][ac])
                  \/ (n \notin Data /\ Frame[n].q = AckQ /\ n < next)
<1> DEFINE c == cache[i][ac]
           t == txq[i][ac]
           q == txq[i][AckQ]
           o == IF ac = BE THEN MergePureAck(q).out ELSE <<>>
<1>1. c \in Seq(FrameNo) /\ t \in Seq(FrameNo) /\ q \in Seq(FrameNo)
  BY OrderTypes, FrameFacts
<1>2. o \in Seq(FrameNo)
  <2>1. MergePureAck(q).out \in Seq(FrameNo)
    BY TakenType DEF AckState
  <2> QED BY <2>1
<1>3. ASSUME NEW n \in Elems(o) PROVE n \notin Data /\ Frame[n].q = AckQ /\ n < next
  <2>1. ac = BE /\ n \in Elems(MergePureAck(q).out)
    BY <1>3, OfNothing
  <2>2. Run(q, i, AckQ, next)
    BY FrameFacts DEF QueueInv
  <2>3. MergeInv(Elems(q), MergePureAck(q))
    <3>1. \A j, k \in 1..Len(q) : j < k => q[j] < q[k]
      BY <2>2 DEF Run
    <3> HIDE DEF q
    <3> QED BY <1>1, <3>1, MergeCovers
  <2>4. n \in Elems(q)
    BY <2>1, <2>3 DEF MergeInv
  <2> QED BY <2>2, <2>4, FrameFacts DEF Run, Data
<1>4. Taken(i) = (c \o o) \o t
  BY DEF Taken
<1>5. Ordered(c) /\ Precedes(Elems(c), Elems(t))
  BY OrderTypes DEF OrderInv, Waits
<1>6. Ordered(t)
  <2>1. Run(t, i, ac, next)
    BY OrderTypes, FrameFacts DEF QueueInv
  <2> HIDE DEF t
  <2> QED BY <2>1 DEF Run, Ordered
<1> HIDE DEF c, t, q, o
<1>7. /\ c \o o \in Seq(FrameNo) /\ Elems(c \o o) = Elems(c) \union Elems(o)
      /\ (c \o o) \o t \in Seq(FrameNo)
      /\ Elems((c \o o) \o t) = Elems(c \o o) \union Elems(t)
  BY <1>1, <1>2, ConcatElems
<1>8. Ordered(o)
  BY <1>3 DEF Ordered, Elems
<1>9. Precedes(Elems(c), Elems(o)) /\ Precedes(Elems(o), Elems(t))
  <2>1. Precedes(Elems(o), Elems(t))
    BY <1>3 DEF Precedes
  <2>2. Precedes(Elems(c), Elems(o))
    BY <1>3, FrameFacts DEF Precedes, SameLane, Data
  <2> QED BY <2>1, <2>2
<1>10. Ordered(c \o o)
  BY <1>1, <1>2, <1>5, <1>8, <1>9, ConcatOrdered
<1>11. Precedes(Elems(c \o o), Elems(t))
  BY <1>5, <1>7, <1>9 DEF Precedes
<1>12. Ordered((c \o o) \o t)
  BY <1>1, <1>6, <1>7, <1>10, <1>11, ConcatOrdered
<1>13. \A n \in Elems((c \o o) \o t) : n \in Elems(c) \union Elems(t) \/ n \in Elems(o)
  BY <1>7
<1>14. Taken(i) \in Seq(FrameNo) /\ Ordered(Taken(i))
  BY <1>4, <1>7, <1>12
<1>15. \A n \in Elems(Taken(i)) : n \in Elems(c) \union Elems(t)
                                 \/ (n \notin Data /\ Frame[n].q = AckQ /\ n < next)
  <2> SUFFICES ASSUME NEW n \in Elems(Taken(i)), n \notin Elems(c) \union Elems(t)
               PROVE  n \notin Data /\ Frame[n].q = AckQ /\ n < next
    OBVIOUS
  <2>1. n \in Elems((c \o o) \o t)
    BY <1>4
  <2>2. n \in Elems(o)
    BY <1>13, <2>1
  <2> QED BY <1>3, <2>2
<1> QED BY <1>14, <1>15 DEF c, t

\* A batch is in order, and made of the heads of the caches.
LEMMA BatchOrdered ==
  ASSUME TypeOK, OrderInv, NEW k \in [Ifaces -> 0..Len(Frame)],
         \A i \in Ifaces : k[i] <= Len(cache[i][ac])
  PROVE  /\ Ordered(Batch(k))
         /\ \A n \in Elems(Batch(k)) : \E i \in Ifaces : n \in Elems(Heads(i, k))
<1>1. ASSUME NEW i \in Ifaces
      PROVE  /\ Heads(i, k) \in Seq(FrameNo) /\ Ordered(Heads(i, k))
             /\ \A n \in Elems(Heads(i, k)) : n \in Data => Frame[n].iface = i
  <2> DEFINE c == cache[i][ac]
             h == Heads(i, k)
             r == SubSeq(c, k[i] + 1, Len(c))
  <2>1. c \in Seq(FrameNo) /\ k[i] \in 0..Len(c)
    BY ShareType
  <2>2. h \in Seq(FrameNo) /\ r \in Seq(FrameNo) /\ c = h \o r
    <3> HIDE DEF c
    <3>1. h = SubSeq(c, 1, k[i])
      BY DEF Heads, c
    <3> QED BY <2>1, <3>1, Cut
  <2>3. Ordered(c) /\ \A n \in Elems(c) : n \in Data => Frame[n].iface = i
    BY OrderTypes DEF OrderInv, Waits
  <2> HIDE DEF c, h, r
  <2>4. Ordered(h) /\ Elems(h) \subseteq Elems(c)
    BY <2>2, <2>3, ConcatOrdered, ConcatElems
  <2> QED BY <2>2, <2>3, <2>4 DEF h
<1>2. PICK b \in [SUBSET Ifaces -> Seq(FrameNo)] :
           /\ b[{}] = <<>>
           /\ \A s \in SUBSET Ifaces : s # {} =>
                 b[s] = Only(Heads(Order[s], k), Valid) \o b[s \ {Order[s]}]
           /\ Batch(k) = b[Ifaces]
  BY <1>1, BatchDef
<1> DEFINE P == {s \in SUBSET Ifaces :
                   /\ Ordered(b[s])
                   /\ \A n \in Elems(b[s]) : \E i \in s : n \in Elems(Heads(i, k))}
<1>3. {} \in P
  BY <1>2, OfNothing
<1>4. ASSUME NEW s \in SUBSET Ifaces, s # {} PROVE \E x \in s : s \ {x} \in P => s \in P
  <2> DEFINE x == Order[s]
             r == s \ {x}
             o == Only(Heads(x, k), Valid)
  <2>1. x \in s /\ x \in Ifaces /\ r \in SUBSET Ifaces
    BY <1>4, OrderChooses DEF Chooses
  <2>2. b[s] = o \o b[r]
    BY <1>2, <1>4
  <2>3. o \in Seq(FrameNo) /\ Ordered(o) /\ Elems(o) \subseteq Elems(Heads(x, k))
    BY <1>1, <2>1, OnlyOrdered
  <2>4. b[r] \in Seq(FrameNo)
    <3> HIDE DEF r
    <3> QED BY <2>1
  <2> HIDE DEF o, x, r
  <2>5. Elems(b[s]) = Elems(o) \union Elems(b[r])
    BY <2>2, <2>3, <2>4, ConcatElems
  <2>6. ASSUME r \in P PROVE s \in P
    <3>1. Ordered(b[r]) /\ \A n \in Elems(b[r]) : \E i \in r : n \in Elems(Heads(i, k))
      BY <2>6
    <3>2. Precedes(Elems(o), Elems(b[r]))
      <4> SUFFICES ASSUME NEW m \in Elems(o), NEW n \in Elems(b[r]), m \in Data, SameLane(m, n)
                   PROVE  FALSE
        BY DEF Precedes
      <4>1. Frame[m].iface = x
        BY <1>1, <2>1, <2>3
      <4>2. PICK i \in r : n \in Elems(Heads(i, k))
        BY <3>1
      <4>3. n \in Data
        BY <2>4, ElemsType DEF SameLane, Data
      <4>4. Frame[n].iface = i /\ i # x
        BY <1>1, <2>1, <4>2, <4>3 DEF r
      <4> QED BY <4>1, <4>4 DEF SameLane
    <3>3. Ordered(b[s])
      BY <2>2, <2>3, <2>4, <3>1, <3>2, ConcatOrdered
    <3>4. \A n \in Elems(b[s]) : \E i \in s : n \in Elems(Heads(i, k))
      BY <2>1, <2>3, <2>5, <3>1 DEF r
    <3> QED BY <3>3, <3>4
  <2> QED BY <2>1, <2>6 DEF r
<1>5. Ifaces \in P
  <2> HIDE DEF P
  <2> QED BY <1>3, <1>4, Shrink, TxAssumption
<1> QED BY <1>2, <1>5

LEMMA OrderXmit ==
  ASSUME TypeOK, QueueInv, OrderInv, NEW j \in Ifaces, XmitQueue(j)
  PROVE  OrderInv'
<1>1. /\ UNCHANGED <<sent, batch, cache, pc>> /\ next' = next + 1
      /\ \A i \in Ifaces, q \in Queue :
            txq'[i][q] = Append(txq[i][q], next) \/ txq'[i][q] = txq[i][q]
  BY QueueAppends DEF XmitQueue, worker, history
<1>2. Left' = Left /\ next \in Nat
  BY <1>1, OrderTypes DEF Left
<1>3. \A n \in Left : n < next /\ n \in Nat
  BY OrderTypes, ElemsType, FrameFacts DEF OrderInv, Left
<1>4. ASSUME NEW i \in Ifaces, NEW a \in Ac PROVE Waits(i, a)'
  <2>1. Waits(i, a) /\ cache[i][a] \in Seq(FrameNo) /\ txq[i][a] \in Seq(FrameNo)
    BY OrderTypes, FrameFacts DEF OrderInv
  <2>2. Elems(txq'[i][a]) \subseteq Elems(txq[i][a]) \union {next}
    <3>1. ASSUME NEW s \in Seq(FrameNo) PROVE Elems(Append(s, next)) \subseteq Elems(s) \union {next}
      BY DEF Elems
    <3>2. txq'[i][a] = Append(txq[i][a], next) \/ txq'[i][a] = txq[i][a]
      BY <1>1, FrameFacts
    <3> QED BY <2>1, <3>1, <3>2
  <2>3. \A n \in Elems(cache[i][a]) : n < next /\ n \in Nat
    BY <2>1, ElemsType, FrameFacts DEF Waits
  <2>4. Precedes(Elems(cache[i][a]), Elems(txq'[i][a]))
    BY <2>1, <2>2, <2>3 DEF Waits, Precedes
  <2>5. Precedes(Left, Elems(cache[i][a]) \union Elems(txq'[i][a]))
    BY <1>3, <2>1, <2>2 DEF Waits, Precedes
  <2>6. \A n \in Elems(cache[i][a]) :
           n < next + 1 /\ (n \in Data => Frame[n].iface = i /\ Frame[n].q = a)
    BY <1>2, <2>1, <2>3 DEF Waits
  <2>7. Ordered(cache[i][a])
    BY <2>1 DEF Waits
  <2> QED BY <1>1, <1>2, <2>4, <2>5, <2>6, <2>7 DEF Waits
<1>5. \A n \in Left : n < next + 1
  BY <1>2, <1>3
<1> QED BY <1>1, <1>2, <1>4, <1>5 DEF OrderInv

LEMMA OrderGather ==
  ASSUME TypeOK, QueueInv, OrderInv, WorkerGather
  PROVE  OrderInv'
<1>1. /\ UNCHANGED <<sent, batch, next>> /\ pc = "gather"
      /\ cache' = [i \in Ifaces |-> [cache[i] EXCEPT ![ac] =
                       IF i \in {x \in Ifaces : deauth[x] = 1} THEN <<>> ELSE Taken(i)]]
  BY DEF WorkerGather
<1>2. Left' = Left /\ next \in Nat
  BY <1>1, OrderTypes DEF Left
<1>3. ASSUME NEW i \in Ifaces, NEW a \in Ac PROVE Waits(i, a)'
  <2>0. Waits(i, a) /\ cache \in [Ifaces -> [Ac -> Seq(FrameNo)]]
    BY DEF OrderInv, TypeOK
  <2>1. CASE a # ac
    <3>1. cache'[i][a] = cache[i][a]
      BY <1>1, <2>0, <2>1
    <3>2. txq'[i][a] = txq[i][a]
      BY <2>1, QueueGathers, FrameFacts
    <3> QED BY <1>1, <1>2, <2>0, <3>1, <3>2 DEF Waits
  <2>2. CASE a = ac
    <3>1. Elems(txq'[i][a]) = {}
      BY <2>2, QueueGathers, OfNothing, FrameFacts
    <3>2. cache'[i][a] = <<>> \/ cache'[i][a] = Taken(i)
      BY <1>1, <2>0, <2>2
    <3>3. CASE cache'[i][a] = <<>>
      BY <1>1, <3>1, <3>3, OfNothing DEF Waits, Precedes
    <3>4. CASE cache'[i][a] = Taken(i)
      <4> DEFINE T == Taken(i)
      <4>1. /\ Ordered(T)
            /\ \A n \in Elems(T) :
                  n \in Elems(cache[i][a]) \union Elems(txq[i][a])
                     \/ (n \notin Data /\ Frame[n].q = AckQ /\ n < next)
        BY <2>2, TakenOrdered
      <4> HIDE DEF T
      <4>2. \A n \in Elems(cache[i][a]) \union Elems(txq[i][a]) : n < next
        BY <2>0, FrameFacts DEF Waits, QueueInv, Run
      <4>3. \A n \in Elems(T) : n \in Data => Frame[n].iface = i /\ Frame[n].q = a
        <5> SUFFICES ASSUME NEW n \in Elems(T), n \in Data
                     PROVE  Frame[n].iface = i /\ Frame[n].q = a
          OBVIOUS
        <5>1. n \in Elems(cache[i][a]) \union Elems(txq[i][a]) /\ SameLane(n, n)
          BY <4>1 DEF SameLane
        <5> QED BY <5>1, LaneOf
      <4>4. Precedes(Left, Elems(T))
        <5> SUFFICES ASSUME NEW m \in Left, NEW n \in Elems(T), m \in Data, SameLane(m, n)
                     PROVE  m < n
          BY DEF Precedes
        <5>1. Frame[n].q # AckQ
          BY FrameFacts DEF SameLane, Data
        <5>2. n \in Elems(cache[i][a]) \union Elems(txq[i][a])
          BY <4>1, <5>1
        <5> QED BY <2>0, <5>2 DEF Waits, Precedes
      <4>5. Precedes(Elems(T), {}) /\ Precedes(Left, Elems(T) \union {})
        BY <4>4 DEF Precedes
      <4>6. \A n \in Elems(T) : n < next
        BY <4>1, <4>2
      <4>7. cache'[i][a] = T
        BY <3>4 DEF T
      <4> QED BY <1>1, <1>2, <3>1, <4>1, <4>3, <4>5, <4>6, <4>7 DEF Waits
    <3> QED BY <3>2, <3>3, <3>4
  <2> QED BY <2>1, <2>2
<1>4. /\ Elems(sent) \subseteq Data /\ batch = <<>>
      /\ Ordered(sent) /\ Ordered(batch) /\ Precedes(Elems(sent), Elems(batch))
      /\ \A n \in Left : n < next
  BY <1>1 DEF OrderInv
<1> QED BY <1>1, <1>2, <1>3, <1>4 DEF OrderInv

LEMMA OrderSend ==
  ASSUME TypeOK, QueueInv, OrderInv, WorkerSend, credit # 0
  PROVE  OrderInv'
<1>1. PICK k \in [Ifaces -> 0..Len(Frame)] :
          /\ Share(k) /\ batch' = Batch(k)
          /\ cache' = [i \in Ifaces |-> [cache[i] EXCEPT ![ac] =
                         SubSeq(cache[i][ac], k[i] + 1, Len(cache[i][ac]))]]
  BY DEF WorkerSend
<1>2. UNCHANGED <<sent, txq, next>> /\ pc = "send" /\ pc' = "bus"
  BY DEF WorkerSend, stack
<1>3. \A i \in Ifaces : k[i] <= Len(cache[i][ac])
  BY <1>1 DEF Share
<1> DEFINE H(i) == Elems(Heads(i, k))
           C(i) == Elems(cache[i][ac])
           R(i) == Elems(SubSeq(cache[i][ac], k[i] + 1, Len(cache[i][ac])))
<1>4. ASSUME NEW i \in Ifaces
      PROVE  /\ H(i) \subseteq C(i) /\ R(i) \subseteq C(i) /\ Precedes(H(i), R(i))
             /\ Ordered(SubSeq(cache[i][ac], k[i] + 1, Len(cache[i][ac])))
  <2> DEFINE c == cache[i][ac]
             h == Heads(i, k)
             r == SubSeq(c, k[i] + 1, Len(c))
  <2>1. c \in Seq(FrameNo) /\ k[i] \in 0..Len(c) /\ Ordered(c)
    BY <1>3, ShareType, OrderTypes DEF OrderInv, Waits
  <2>2. h \in Seq(FrameNo) /\ r \in Seq(FrameNo) /\ c = h \o r
    <3> HIDE DEF c
    <3>1. h = SubSeq(c, 1, k[i])
      BY DEF Heads, c
    <3> QED BY <2>1, <3>1, Cut
  <2> HIDE DEF c, h, r
  <2>3. Ordered(r) /\ Precedes(Elems(h), Elems(r)) /\ Elems(c) = Elems(h) \union Elems(r)
    BY <2>1, <2>2, ConcatOrdered, ConcatElems
  <2> QED BY <2>3 DEF c, h, r
<1>5. Ordered(batch') /\ \A n \in Elems(batch') : \E i \in Ifaces : n \in H(i)
  BY <1>1, <1>3, BatchOrdered
<1>6. \A i \in Ifaces, a \in Ac : Waits(i, a)
  BY DEF OrderInv
<1>7. \A i \in Ifaces, a \in Ac :
        Elems(cache'[i][a]) = IF a = ac THEN R(i) ELSE Elems(cache[i][a])
  <2>1. cache \in [Ifaces -> [Ac -> Seq(FrameNo)]] /\ ac \in Ac
    BY DEF TypeOK
  <2> QED BY <1>1, <2>1
<1>8. \A i \in Ifaces, a \in Ac : Ordered(cache'[i][a])
  <2>1. cache \in [Ifaces -> [Ac -> Seq(FrameNo)]] /\ ac \in Ac
    BY DEF TypeOK
  <2>2. \A i \in Ifaces, a \in Ac :
          cache'[i][a] = IF a = ac THEN SubSeq(cache[i][ac], k[i] + 1, Len(cache[i][ac]))
                         ELSE cache[i][a]
    BY <1>1, <2>1
  <2> SUFFICES ASSUME NEW i \in Ifaces, NEW a \in Ac PROVE Ordered(cache'[i][a])
    OBVIOUS
  <2>3. Waits(i, a)
    BY <1>6
  <2>4. CASE a = ac
    <3>1. cache'[i][a] = SubSeq(cache[i][ac], k[i] + 1, Len(cache[i][ac]))
      BY <2>2, <2>4
    <3> QED BY <1>4, <3>1
  <2>5. CASE a # ac
    <3>1. cache'[i][a] = cache[i][a]
      BY <2>2, <2>5
    <3> QED BY <2>3, <3>1 DEF Waits
  <2> QED BY <2>4, <2>5
<1> HIDE DEF H, R
<1>9. ac \in Ac
  BY OrderTypes
<1>10. Left' = Elems(sent) \union Elems(batch') /\ Elems(sent) \subseteq Left
  BY <1>2 DEF Left
\* What leaves now comes before what stays and what is queued.
<1>11. ASSUME NEW n \in Elems(batch'), n \in Data, NEW i \in Ifaces, NEW a \in Ac,
              NEW m \in Elems(cache'[i][a]) \union Elems(txq[i][a]), SameLane(n, m)
       PROVE  n < m
  <2>1. PICK h \in Ifaces : n \in H(h)
    BY <1>5
  <2>2. m \in Elems(cache[i][a]) \union Elems(txq[i][a])
    BY <1>4, <1>7, <1>11
  <2>3. Frame[n].iface = i /\ Frame[n].q = a
    BY <1>11, <2>2, LaneOf
  <2>4. n \in C(h)
    BY <1>4, <2>1
  <2>5. Frame[n].iface = h /\ Frame[n].q = ac
    BY <1>6, <1>9, <1>11, <2>4 DEF Waits
  <2>6. h = i /\ a = ac
    BY <2>3, <2>5
  <2>7. CASE m \in Elems(cache'[i][a])
    <3>1. m \in R(i) /\ n \in H(i)
      BY <1>7, <2>1, <2>6, <2>7
    <3> QED BY <1>4, <1>11, <3>1 DEF Precedes
  <2>8. CASE m \in Elems(txq[i][a])
    <3>1. Precedes(C(i), Elems(txq[i][ac]))
      BY <1>6, <1>9 DEF Waits
    <3> QED BY <1>11, <2>4, <2>6, <2>8, <3>1 DEF Precedes
  <2> QED BY <1>11, <2>7, <2>8
<1>12. Precedes(Elems(sent), Elems(batch'))
  <2> SUFFICES ASSUME NEW m \in Elems(sent), NEW n \in Elems(batch'), m \in Data, SameLane(m, n)
               PROVE  m < n
    BY DEF Precedes
  <2>1. PICK h \in Ifaces : n \in C(h)
    BY <1>4, <1>5
  <2>2. Precedes(Left, C(h) \union Elems(txq[h][ac]))
    BY <1>6, <1>9 DEF Waits
  <2> QED BY <1>10, <2>1, <2>2 DEF Precedes
<1>13. \A n \in Left' : n < next'
  <2>1. \A h \in Ifaces : \A n \in C(h) : n < next
    BY <1>6, <1>9 DEF Waits
  <2>2. \A n \in Elems(sent) : n < next
    BY <1>10 DEF OrderInv
  <2> QED BY <1>2, <1>4, <1>5, <1>10, <2>1, <2>2
<1>14. ASSUME NEW i \in Ifaces, NEW a \in Ac PROVE Waits(i, a)'
  <2> DEFINE E == Elems(cache'[i][a])
             t == Elems(txq[i][a])
  <2>1. E \subseteq Elems(cache[i][a])
    BY <1>4, <1>7
  <2>2. Waits(i, a)
    BY <1>6
  <2> HIDE DEF E, t
  <2>3. \A n \in E : n < next /\ (n \in Data => Frame[n].iface = i /\ Frame[n].q = a)
    BY <2>1, <2>2 DEF Waits
  <2>4. Precedes(E, t)
    BY <2>1, <2>2 DEF Waits, Precedes, t
  <2>5. Precedes(Left', E \union t)
    BY <1>10, <1>11, <2>1, <2>2 DEF Waits, Precedes, E, t
  <2> QED BY <1>2, <1>8, <2>3, <2>4, <2>5 DEF Waits, E, t
<1>15. Elems(sent) \subseteq Data /\ Ordered(sent)
  BY DEF OrderInv
<1> QED BY <1>2, <1>5, <1>12, <1>13, <1>14, <1>15 DEF OrderInv

LEMMA OrderBus ==
  ASSUME TypeOK, OrderInv, WorkerBus
  PROVE  OrderInv'
<1> DEFINE d == Only(batch, Data)
<1>1. /\ UNCHANGED <<txq, next, cache>> /\ batch' = <<>>
      /\ sent' = sent \/ sent' = sent \o d
  BY DEF WorkerBus, stack
<1>2. sent \in Seq(FrameNo) /\ batch \in Seq(FrameNo)
  BY OrderTypes
<1>3. /\ Elems(sent) \subseteq Data /\ Ordered(sent) /\ Ordered(batch)
      /\ Precedes(Elems(sent), Elems(batch))
  BY DEF OrderInv
<1>4. d \in Seq(FrameNo) /\ Elems(d) \subseteq Elems(batch) \cap Data /\ Ordered(d)
  BY <1>2, <1>3, OnlyOrdered
<1> HIDE DEF d
<1>5. Elems(sent \o d) = Elems(sent) \union Elems(d)
  BY <1>2, <1>4, ConcatElems
<1>6. Ordered(sent \o d)
  <2>1. Precedes(Elems(sent), Elems(d))
    BY <1>3, <1>4 DEF Precedes
  <2> QED BY <1>2, <1>3, <1>4, <2>1, ConcatOrdered
<1>7. Elems(sent') \subseteq Data /\ Ordered(sent') /\ Elems(sent') \subseteq Left
  BY <1>1, <1>3, <1>4, <1>5, <1>6 DEF Left
<1>8. Left' \subseteq Left
  BY <1>1, <1>7, OfNothing DEF Left
<1>9. ASSUME NEW i \in Ifaces, NEW a \in Ac PROVE Waits(i, a)'
  <2>1. Waits(i, a)
    BY DEF OrderInv
  <2> QED BY <1>1, <1>8, <2>1 DEF Waits, Precedes
<1>10. Precedes(Elems(sent'), {})
  BY DEF Precedes
<1>11. \A n \in Left' : n < next'
  BY <1>1, <1>8 DEF OrderInv
<1> QED BY <1>1, <1>7, <1>9, <1>10, <1>11, OfNothing DEF OrderInv

\* The other steps leave the frames where they are.
LEMMA OrderStays ==
  ASSUME [Next]_vars, \A i \in Ifaces : ~XmitQueue(i), ~WorkerGather, ~WorkerBus,
         ~(WorkerSend /\ credit # 0)
  PROVE  UNCHANGED <<sent, batch, txq, next, cache>> /\ (pc' # "bus" => pc # "bus")
<1> USE DEF worker, stack, flags, history
<1>1. ASSUME NEW i \in Ifaces, XmitWake(i) \/ XmitStop(i)
      PROVE  UNCHANGED <<sent, batch, txq, next, cache, pc>>
  BY <1>1 DEF XmitWake, XmitStop
<1>2. CASE WorkerStart \/ WorkerTop \/ WorkerCheck \/ WorkerEnd
  BY <1>2 DEF WorkerStart, WorkerTop, WorkerCheck, WorkerEnd, PassEnd
<1>3. CASE WorkerSend /\ credit = 0
  BY <1>3 DEF WorkerSend, PassEnd
<1>4. ASSUME \/ CreditReturn \/ SendCommand \/ ThermalTrip \/ ThermalResume
             \/ \E i \in Ifaces : LinkDown(i) \/ LinkReset(i)
             \/ \E p \in Peers : PeerLeaves(p) \/ PeerUnbound(p)
             \/ UNCHANGED vars
      PROVE  UNCHANGED <<sent, batch, txq, next, cache, pc>>
  BY <1>4 DEF CreditReturn, SendCommand, ThermalTrip, ThermalResume, LinkDown, LinkReset,
              PeerLeaves, PeerUnbound, vars
<1> QED BY <1>1, <1>2, <1>3, <1>4 DEF Next, Xmit, Worker

LEMMA OrderNext == TypeOK /\ QueueInv /\ OrderInv /\ [Next]_vars => OrderInv'
<1> SUFFICES ASSUME TypeOK, QueueInv, OrderInv, [Next]_vars,
                    \A i \in Ifaces : ~XmitQueue(i), ~WorkerGather, ~WorkerBus,
                    ~(WorkerSend /\ credit # 0)
             PROVE  OrderInv'
  BY OrderXmit, OrderGather, OrderSend, OrderBus
<1>1. UNCHANGED <<sent, batch, txq, next, cache>> /\ (pc' # "bus" => pc # "bus")
  BY OrderStays
<1>2. Left' = Left
  BY <1>1 DEF Left
<1>3. ASSUME NEW i \in Ifaces, NEW a \in Ac PROVE Waits(i, a)'
  <2>1. Waits(i, a)
    BY DEF OrderInv
  <2> QED BY <1>1, <1>2, <2>1 DEF Waits
<1>4. Elems(sent') = Elems(sent) /\ Elems(batch') = Elems(batch)
      /\ (Ordered(sent') <=> Ordered(sent)) /\ (Ordered(batch') <=> Ordered(batch))
  BY <1>1
<1>5. Precedes(Elems(sent'), Elems(batch')) /\ Elems(sent') \subseteq Data
      /\ Ordered(sent') /\ Ordered(batch') /\ (pc' # "bus" => batch' = <<>>)
  <2>1. /\ Precedes(Elems(sent), Elems(batch)) /\ Elems(sent) \subseteq Data
        /\ Ordered(sent) /\ Ordered(batch) /\ (pc # "bus" => batch = <<>>)
    BY DEF OrderInv
  <2>2. sent' = sent /\ batch' = batch /\ (pc' # "bus" => pc # "bus")
    BY <1>1
  <2>3. pc' # "bus" => batch' = <<>>
    BY <2>1, <2>2
  <2> QED BY <2>1, <2>2, <2>3, <1>4
<1>6. \A n \in Left' : n < next'
  BY <1>1, <1>2 DEF OrderInv
<1> QED BY <1>3, <1>5, <1>6 DEF OrderInv

\* For any frames, interfaces, categories and shares: the data frames of one
\* interface and category leave in the order in which the stack sent them.
THEOREM FramesLeaveInOrder == Spec => []InOrder
<1>1. Init => CreditInv /\ TypeInv /\ QueueInv /\ OrderInv
  BY CreditInit, TypeInit, QueueInit, OrderInit
<1>2. CreditInv /\ TypeInv /\ QueueInv /\ OrderInv /\ [Next]_vars
         => (CreditInv /\ TypeInv /\ QueueInv /\ OrderInv)'
  BY CreditNext, TypeNext, QueueNext, OrderNext DEF TypeInv
<1>3. TypeInv /\ OrderInv => InOrder
  <2> SUFFICES ASSUME TypeOK, OrderInv, NEW j \in DOMAIN sent, NEW k \in DOMAIN sent, j < k,
                      Frame[sent[j]].iface = Frame[sent[k]].iface,
                      Frame[sent[j]].q = Frame[sent[k]].q
               PROVE  sent[j] < sent[k]
    BY DEF InOrder, TypeInv
  <2>1. j \in 1..Len(sent) /\ k \in 1..Len(sent)
    BY OrderTypes
  <2>2. sent[j] \in Data /\ SameLane(sent[j], sent[k])
    BY <2>1 DEF OrderInv, Elems, SameLane
  <2> QED BY <2>1, <2>2 DEF OrderInv, Ordered
<1> QED
  BY <1>1, <1>2, <1>3, PTL DEF Spec
=============================================================================
