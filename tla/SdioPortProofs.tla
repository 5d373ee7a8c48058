---------------------------- MODULE SdioPortProofs ----------------------------
(***************************************************************************)
(* Proofs about SdioPort for any length of the ring buffers, any sizes of  *)
(* reads and packets and any number of events.                             *)
(***************************************************************************)
EXTENDS SdioPort, SequenceTheorems, FiniteSetTheorems, FunctionTheorems, TLAPS

USE SdioPortAssumption

Slots == 0..(Length - 1)
Bytes == Nat \X Nat
Channel == [state : {"idle", "open", "clse", "asst"}, wp : Slots, rp : Slots,
            rx_done : BOOLEAN, rx_flow_ctrl : BOOLEAN, next_seqno : Nat]
Readers == [pc : {"idle", "try", "test", "wait", "take", "fread", "fwrite"}, size : Nat,
            got : Seq(Bytes), ftl : SUBSET Ports]
Receivers == [pc : {"idle", "fread", "fwrite", "complete"}, p : Ports, ftl : SUBSET Ports]
Firmwares == [state : {"boot", "up", "dump", "off"}, seqno : [Ports -> Nat \ {0}]]
DataPackets == [kind : {"data"}, p : Ports, seqno : 1..MaxEvent, len : Lens]
Notices == [kind : {"assert", "dumpdone", "version"}, p : {"atc"}, seqno : {0}, len : {0}]
AirPackets == DataPackets \cup Notices

\* The types; a read under way asks for a size, and no packet has a number
\* beyond the events.
TypeInv ==
  /\ port \in [Ports -> Channel] /\ ring \in [Ports -> [Slots -> Bytes]]
  /\ reader \in [Ports -> Readers]
  /\ \A p \in Ports : reader[p].pc # "idle" => reader[p].size \in Sizes
  /\ rx \in Receivers /\ ftl \in SUBSET Ports /\ events \in 0..MaxEvent
  /\ fw \in Firmwares /\ \A p \in Ports : fw.seqno[p] <= events + 1
  /\ air \in Seq(AirPackets)
-----------------------------------------------------------------------------
(* Places in the ring                                                      *)

\* The remainder of a place at most one round on.
LEMMA ModIs ==
  ASSUME NEW x \in 0..(2 * Length - 1)
  PROVE  x % Length = Place(x) /\ Place(x) \in Slots
<1>1. Length \in Nat \ {0}
  OBVIOUS
<1>2. CASE x < Length
  BY <1>1, <1>2 DEF Place, Slots
<1>3. CASE ~(x < Length)
  BY <1>1, <1>3 DEF Place, Slots
<1> QED
  BY <1>2, <1>3

\* The bytes between two places.
LEMMA DistanceIs ==
  ASSUME NEW w \in Slots, NEW r \in Slots
  PROVE  /\ (Length + w - r) % Length = IF r <= w THEN w - r ELSE Length + w - r
         /\ (Length + w - r) % Length \in Slots
<1>1. Length + w - r \in 0..(2 * Length - 1) /\ w \in Int /\ r \in Int /\ Length \in Nat
  BY DEF Slots
<1> QED
  BY <1>1, ModIs DEF Place, Slots

LEMMA UsedIs ==
  ASSUME TypeInv, NEW p \in Ports
  PROVE  /\ port[p].wp \in Slots /\ port[p].rp \in Slots
         /\ Used(p) = IF port[p].rp <= port[p].wp THEN port[p].wp - port[p].rp
                      ELSE Length + port[p].wp - port[p].rp
         /\ Used(p) \in Slots /\ RoomIn(p) = Length - 1 - Used(p) /\ RoomIn(p) \in Slots
<1>1. port[p].wp \in Slots /\ port[p].rp \in Slots
  BY DEF TypeInv, Channel
<1>2. Used(p) = (Length + port[p].wp - port[p].rp) % Length
  BY DEF Used
<1>3. Used(p) \in Slots
        /\ Used(p) = IF port[p].rp <= port[p].wp THEN port[p].wp - port[p].rp
                      ELSE Length + port[p].wp - port[p].rp
  BY <1>1, <1>2, DistanceIs
<1> QED
  BY <1>1, <1>3 DEF RoomIn, Slots

\* What a read takes: at least a byte, and no more than there is.
LEMMA LowerIs ==
  ASSUME NEW a \in Nat \ {0}, NEW b \in Nat \ {0}
  PROVE  LowerOf(a, b) \in Nat \ {0} /\ LowerOf(a, b) <= a /\ LowerOf(a, b) <= b
  BY DEF LowerOf
-----------------------------------------------------------------------------
(* Packets on the way                                                      *)

LEMMA HeadIs ==
  ASSUME TypeInv, air # <<>>
  PROVE  /\ Head(air) \in AirPackets /\ Head(air) = air[1] /\ Len(air) \in Nat \ {0}
         /\ Tail(air) \in Seq(AirPackets)
         /\ Head(air).kind = "data" => Head(air) \in DataPackets
  BY HeadTailProperties DEF TypeInv, AirPackets, Notices, DataPackets

LEMMA CutIs ==
  ASSUME TypeInv, NEW n \in 0..Len(air)
  PROVE  SubSeq(air, 1, n) \in Seq(AirPackets)
<1>1. air \in Seq(AirPackets) /\ Len(air) \in Nat
  BY DEF TypeInv
<1>2. \A i \in 1..n : air[i] \in AirPackets
  BY <1>1
<1> QED
  BY <1>1, <1>2, SubSeqProperties

\* The first packet is handed over: what becomes of it.
Copied(p, d) ==
  [ring EXCEPT ![p] = [j \in DOMAIN @ |->
      IF \E i \in 1..d.len : j = Place(port[p].wp + (i - 1))
      THEN <<d.seqno, CHOOSE i \in 1..d.len : j = Place(port[p].wp + (i - 1))>> ELSE @[j]]]

LEMMA RxDataIs ==
  ASSUME TypeInv, RxData
  PROVE  LET d == Head(air)  p == d.p  q == port[p]
         IN  /\ air # <<>> /\ air' = Tail(air) /\ d \in DataPackets
             /\ UNCHANGED <<reader, ftl, cp_state, fw, odd, events>>
             /\ \/ /\ q.state = "idle" \/ (p # "log" /\ d.seqno # q.next_seqno)
                   /\ UNCHANGED <<rx, port, ring>>
                \/ /\ p = "log" \/ d.seqno = q.next_seqno
                   /\ Drop(p) /\ UNCHANGED <<rx, ring>>
                \/ /\ p = "log" \/ d.seqno = q.next_seqno
                   /\ d.len <= RoomIn(p)
                   /\ \E stops \in BOOLEAN :
                        /\ port' = [port EXCEPT ![p].next_seqno = @ + 1,
                                                ![p].wp = Place(q.wp + d.len),
                                                ![p].rx_flow_ctrl = @ \/ stops]
                        /\ rx' = [rx EXCEPT !.p = p, !.pc = IF stops THEN "fread" ELSE "complete"]
                   /\ ring' = Copied(p, d)
<1> DEFINE d == Head(air)
           p == d.p
           q == port[p]
<1>1. /\ air # <<>> /\ air' = Tail(air) /\ d \in DataPackets
      /\ UNCHANGED <<reader, ftl, cp_state, fw, odd, events>>
  BY HeadIs DEF RxData, Take, RxOnly
<1>2. CASE q.state = "idle" \/ (p # "log" /\ d.seqno # q.next_seqno)
  BY <1>1, <1>2 DEF RxData
<1>3. CASE ~(q.state = "idle" \/ (p # "log" /\ d.seqno # q.next_seqno))
  <2>1. CASE Fits(p, d.len)
    BY <1>1, <1>3, <2>1 DEF RxData, Fits, Copied
  <2>2. CASE ~Fits(p, d.len)
    BY <1>1, <1>3, <2>2 DEF RxData
  <2> QED
    BY <2>1, <2>2
<1> QED
  BY <1>2, <1>3
-----------------------------------------------------------------------------
(* The types, by the action.                                               *)

LEMMA PortTypes ==
  ASSUME TypeInv, NEW p \in Ports, Open(p) \/ Close(p)
  PROVE  TypeInv'
<1>1. CASE Open(p)
  <2>1. Fresh \in Channel /\ [i \in 0..(Length - 1) |-> Free] \in [Slots -> Bytes]
    BY DEF Fresh, Channel, Slots, Free, Bytes
  <2>2. port' \in [Ports -> Channel] /\ ring' \in [Ports -> [Slots -> Bytes]]
    BY <1>1, <2>1 DEF Open, TypeInv
  <2>3. events' \in 0..MaxEvent /\ events <= events'
    BY <1>1 DEF Open, TypeInv
  <2>4. \A q \in Ports : fw.seqno[q] <= events' + 1
    BY <2>3 DEF TypeInv, Firmwares
  <2> QED
    BY <1>1, <2>2, <2>3, <2>4 DEF Open, TypeInv
<1>2. CASE Close(p)
  <2>2. port' \in [Ports -> Channel]
    <3>1. port' = [port EXCEPT ![p] = [@ EXCEPT !.state = "clse", !.next_seqno = 1,
                                                 !.rx_done = TRUE]]
      BY <1>2 DEF Close
    <3>2. port[p] \in Channel
      BY DEF TypeInv
    <3>3. [port[p] EXCEPT !.state = "clse", !.next_seqno = 1, !.rx_done = TRUE] \in Channel
      BY <3>2 DEF Channel
    <3> QED
      BY <3>1, <3>3 DEF TypeInv
  <2>3. events' \in 0..MaxEvent /\ events <= events'
    BY <1>2 DEF Close, TypeInv
  <2>4. \A q \in Ports : fw.seqno[q] <= events' + 1
    BY <2>3 DEF TypeInv, Firmwares
  <2> QED
    BY <1>2, <2>2, <2>3, <2>4 DEF Close, TypeInv
<1> QED
  BY <1>1, <1>2

LEMMA TroubleIs ==
  ASSUME TypeInv, events' = events \/ (events < MaxEvent /\ events' = events + 1)
  PROVE  events' \in 0..MaxEvent /\ \A q \in Ports : fw.seqno[q] <= events' + 1
<1>1. events \in 0..MaxEvent /\ events' \in 0..MaxEvent /\ events <= events'
  BY DEF TypeInv
<1> QED
  BY <1>1 DEF TypeInv, Firmwares

\* The bytes of a read.
Got(p, n) == [i \in 1..n |-> ring[p][Place(port[p].rp + (i - 1))]]
Freed(p, n) ==
  [ring EXCEPT ![p] = [j \in DOMAIN @ |->
      IF j \in {Place(port[p].rp + i) : i \in 0..(n - 1)} THEN Free ELSE @[j]]]

\* What it takes and where it leaves the reader and the buffer.
LEMMA ReadTakesIs ==
  ASSUME TypeInv, NEW p \in Ports, ReadTakes(p)
  PROVE  LET n == LowerOf(reader[p].size, Used(p))
             e == Place(port[p].rp + n)
         IN  /\ UNCHANGED <<ftl, odd, events, rx, cp_state, fw, air>>
             /\ \/ /\ Used(p) = 0 /\ UNCHANGED <<port, ring>>
                   /\ reader' = [reader EXCEPT ![p].pc = "try"]
                \/ /\ Used(p) # 0 /\ n \in 1..Used(p) /\ ring' = Freed(p, n)
                   /\ \E pc \in {"fread", "idle"} :
                         reader' = [reader EXCEPT ![p].pc = pc, ![p].got = Got(p, n)]
                   /\ \E flow \in BOOLEAN :
                         port' = [port EXCEPT ![p].rp = IF e = port[p].wp THEN 0 ELSE e,
                                              ![p].wp = IF e = port[p].wp THEN 0 ELSE @,
                                              ![p].rx_flow_ctrl = flow]
<1>1. UNCHANGED <<ftl, odd, events, rx, cp_state, fw, air>>
  BY DEF ReadTakes, ReaderOnly
<1>2. CASE Used(p) = 0
  BY <1>1, <1>2 DEF ReadTakes, ReaderTo
<1>3. CASE Used(p) # 0
  <2> DEFINE n == LowerOf(reader[p].size, Used(p))
             place(i) == Place(port[p].rp + i)
             empty == place(n) = port[p].wp
             room == Length - 1 - ((Length + port[p].wp - place(n)) % Length)
             goesOn == port[p].rx_flow_ctrl /\ MayGoOn(room)
  <2>1. n \in 1..Used(p)
    <3>1. reader[p].size \in Nat \ {0} /\ Used(p) \in Nat \ {0}
      BY <1>3, UsedIs DEF ReadTakes, ReaderAt, TypeInv, Slots
    <3> QED
      BY <3>1, LowerIs
  <2>2. /\ reader' = [reader EXCEPT ![p].pc = IF goesOn THEN "fread" ELSE "idle",
                                    ![p].got = [i \in 1..n |-> ring[p][place(i - 1)]]]
        /\ ring' = [ring EXCEPT ![p] = [j \in DOMAIN @ |->
                        IF j \in {place(i) : i \in 0..(n - 1)} THEN Free ELSE @[j]]]
        /\ port' = [port EXCEPT ![p].rp = IF empty THEN 0 ELSE place(n),
                                ![p].wp = IF empty THEN 0 ELSE @,
                                ![p].rx_flow_ctrl = @ /\ ~goesOn]
    BY <1>3 DEF ReadTakes
  <2>3. \E flow \in BOOLEAN : flow = (port[p].rx_flow_ctrl /\ ~goesOn)
    OBVIOUS
  <2>4. \E pc \in {"fread", "idle"} : pc = IF goesOn THEN "fread" ELSE "idle"
    OBVIOUS
  <2>5. ring' = Freed(p, n)
    BY <2>2 DEF Freed
  <2> HIDE DEF goesOn
  <2>6. \E pc \in {"fread", "idle"} :
            reader' = [reader EXCEPT ![p].pc = pc, ![p].got = Got(p, n)]
    BY <2>2, <2>4 DEF Got
  <2>7. \E flow \in BOOLEAN :
            port' = [port EXCEPT ![p].rp = IF empty THEN 0 ELSE place(n),
                                 ![p].wp = IF empty THEN 0 ELSE @,
                                 ![p].rx_flow_ctrl = flow]
    <3>1. port[p].rx_flow_ctrl \in BOOLEAN /\ p \in DOMAIN port
      BY DEF TypeInv, Channel
    <3> QED
      BY <2>2, <2>3, <3>1
  <2> QED
    BY <1>1, <1>3, <2>1, <2>5, <2>6, <2>7
<1> QED
  BY <1>2, <1>3

\* The reader goes from place to place.
LEMMA ReaderTypes ==
  ASSUME TypeInv, NEW p \in Ports,
         Read(p) \/ ReadTries(p) \/ ReadTests(p) \/ ReadWoken(p) \/ ReadFtl(p) \/ ReadSetsFtl(p)
  PROVE  TypeInv'
<1>1. port[p] \in Channel /\ reader[p] \in Readers /\ Sizes \subseteq Nat \ {0}
  BY DEF TypeInv
<1>2. UNCHANGED <<ring, rx, cp_state, fw, air>>
  BY DEF Read, ReadTries, ReadTests, ReadWoken, ReadFtl, ReadSetsFtl, ReaderOnly
<1>3. port' \in [Ports -> Channel]
  <2>1. \/ port' = port
        \/ \E st \in {"idle", "open", "clse", "asst"}, done \in BOOLEAN :
              port' = [port EXCEPT ![p] = [@ EXCEPT !.state = st, !.rx_done = done]]
    <3>1. CASE Read(p)
      <4>1. \/ port' = port \/ port' = [port EXCEPT ![p].state = "idle"]
            \/ port' = [port EXCEPT ![p].state = "open"]
        BY <3>1 DEF Read, AfterAssert
      <4>2. \A st : [port EXCEPT ![p].state = st]
                      = [port EXCEPT ![p] = [@ EXCEPT !.state = st, !.rx_done = port[p].rx_done]]
        BY <1>1 DEF TypeInv, Channel
      <4>3. port[p].rx_done \in BOOLEAN
        BY <1>1 DEF Channel
      <4> QED
        BY <4>1, <4>2, <4>3
    <3>2. CASE ReadTries(p) \/ ReadWoken(p)
      <4>1. \E st \in {port[p].state, "idle", "open"} :
              port' = [port EXCEPT ![p] = [@ EXCEPT !.state = st, !.rx_done = FALSE]]
        <5>1. CASE ReadTries(p)
          BY <1>1, <5>1 DEF ReadTries, TypeInv, Channel
        <5>2. CASE ReadWoken(p)
          <6> DEFINE to(st) == [port EXCEPT ![p] = [@ EXCEPT !.state = st, !.rx_done = FALSE]]
                     woken == [port EXCEPT ![p].rx_done = FALSE]
          <6>1. woken = to(port[p].state)
            BY <1>1 DEF TypeInv, Channel
          <6>2. \A st : [woken EXCEPT ![p].state = st] = to(st)
            BY <1>1 DEF TypeInv, Channel
          <6>3. AfterAssert(p)[p].state \in {port[p].state, "open"}
            BY DEF AfterAssert, TypeInv
          <6>4. \/ port' = woken \/ port' = [woken EXCEPT ![p].state = "idle"]
                \/ port' = [woken EXCEPT ![p].state = AfterAssert(p)[p].state]
            BY <5>2 DEF ReadWoken
          <6> HIDE DEF to, woken
          <6>5. \E st \in {port[p].state, "idle", "open"} : port' = to(st)
            BY <6>1, <6>2, <6>3, <6>4
          <6> QED
            BY <6>5 DEF to
        <5> QED
          BY <3>2, <5>1, <5>2
      <4>2. port[p].state \in {"idle", "open", "clse", "asst"}
        BY <1>1 DEF Channel
      <4> QED
        BY <4>1, <4>2
    <3>3. CASE ReadTests(p) \/ ReadFtl(p) \/ ReadSetsFtl(p)
      BY <3>3 DEF ReadTests, ReadFtl, ReadSetsFtl
    <3> QED
      BY <3>1, <3>2, <3>3
  <2>2. \A st \in {"idle", "open", "clse", "asst"}, done \in BOOLEAN :
           [port[p] EXCEPT !.state = st, !.rx_done = done] \in Channel
    BY <1>1 DEF Channel
  <2>3. port' = port \/ \E c \in Channel : port' = [port EXCEPT ![p] = c]
    BY <2>1, <2>2
  <2> QED
    BY <2>3 DEF TypeInv
<1>4. /\ reader' \in [Ports -> Readers]
      /\ \A q \in Ports : reader'[q].pc # "idle" => reader'[q].size \in Sizes
  <2>1. CASE Read(p)
    <3>1. \E r \in Readers : reader' = [reader EXCEPT ![p] = r] /\ r.size \in Sizes
      <4>1. \E size \in Sizes, pc \in {"idle", "try"} :
              reader' = [reader EXCEPT ![p] = [pc |-> pc, size |-> size, got |-> <<>>, ftl |-> {}]]
        BY <2>1 DEF Read
      <4>2. <<>> \in Seq(Bytes)
        BY EmptySeq
      <4>3. \A size \in Sizes, pc \in {"idle", "try"} :
              [pc |-> pc, size |-> size, got |-> <<>>, ftl |-> {}] \in Readers
        BY <1>1, <4>2 DEF Readers
      <4>4. PICK size \in Sizes, pc \in {"idle", "try"} :
              reader' = [reader EXCEPT ![p] = [pc |-> pc, size |-> size, got |-> <<>>, ftl |-> {}]]
        BY <4>1
      <4> DEFINE to == [pc |-> pc, size |-> size, got |-> <<>>, ftl |-> {}]
      <4>5. to \in Readers /\ to.size \in Sizes /\ reader' = [reader EXCEPT ![p] = to]
        BY <4>3, <4>4
      <4> HIDE DEF to
      <4> QED
        BY <4>5
    <3>2. PICK r \in Readers : reader' = [reader EXCEPT ![p] = r] /\ r.size \in Sizes
      BY <3>1
    <3> QED
      BY <3>2 DEF TypeInv
  <2>2. CASE ~Read(p)
    <3>1. /\ reader[p].pc # "idle"
          /\ \E pc \in {"idle", "try", "test", "wait", "take", "fread", "fwrite"},
                f \in SUBSET Ports : reader' = [reader EXCEPT ![p] = [@ EXCEPT !.pc = pc, !.ftl = f]]
      <4>1. reader[p].ftl \in SUBSET Ports /\ ftl \in SUBSET Ports
        BY <1>1 DEF TypeInv, Readers
      <4>2. \A pc : [reader EXCEPT ![p].pc = pc]
                      = [reader EXCEPT ![p] = [@ EXCEPT !.pc = pc, !.ftl = reader[p].ftl]]
        BY <1>1 DEF TypeInv, Readers
      <4>3. /\ reader[p].pc # "idle"
            /\ \/ \E pc \in {"test", "take", "idle", "wait"} : reader' = [reader EXCEPT ![p].pc = pc]
               \/ reader' = [reader EXCEPT ![p].pc = "fwrite", ![p].ftl = ftl \ {p}]
               \/ reader' = [reader EXCEPT ![p].pc = "idle", ![p].ftl = {}]
        <5>1. CASE ReadTries(p) \/ ReadTests(p) \/ ReadWoken(p)
          BY <5>1 DEF ReadTries, ReadTests, ReadWoken, ReaderAt, ReaderTo
        <5>2. CASE ReadFtl(p) \/ ReadSetsFtl(p)
          BY <5>2 DEF ReadFtl, ReadSetsFtl, ReaderAt, ReaderTo
        <5> QED
          BY <2>2, <5>1, <5>2
      <4>4. \A pc, f : [reader EXCEPT ![p].pc = pc, ![p].ftl = f]
                         = [reader EXCEPT ![p] = [@ EXCEPT !.pc = pc, !.ftl = f]]
        BY <1>1 DEF TypeInv, Readers
      <4> DEFINE to(pc, f) == [reader EXCEPT ![p] = [@ EXCEPT !.pc = pc, !.ftl = f]]
                 Places == {"idle", "try", "test", "wait", "take", "fread", "fwrite"}
      <4>5. \/ \E pc \in Places : reader' = to(pc, reader[p].ftl)
            \/ reader' = to("fwrite", ftl \ {p}) \/ reader' = to("idle", {})
        <5>1. CASE \E pc \in {"test", "take", "idle", "wait"} : reader' = [reader EXCEPT ![p].pc = pc]
          <6>1. PICK pc \in {"test", "take", "idle", "wait"} : reader' = [reader EXCEPT ![p].pc = pc]
            BY <5>1
          <6>2. pc \in Places /\ reader' = to(pc, reader[p].ftl)
            BY <4>2, <6>1
          <6> QED
            BY <6>2
        <5>2. CASE reader' = [reader EXCEPT ![p].pc = "fwrite", ![p].ftl = ftl \ {p}]
          <6>1. reader' = to("fwrite", ftl \ {p})
            BY <4>4, <5>2
          <6> QED
            BY <6>1
        <5>3. CASE reader' = [reader EXCEPT ![p].pc = "idle", ![p].ftl = {}]
          BY <4>4, <5>3
        <5> QED
          BY <4>3, <5>1, <5>2, <5>3
      <4>6. ftl \ {p} \in SUBSET Ports /\ {} \in SUBSET Ports
        BY <4>1
      <4> HIDE DEF to
      <4>7. \E pc \in Places, f \in SUBSET Ports : reader' = to(pc, f)
        BY <4>1, <4>5, <4>6
      <4> QED
        BY <4>3, <4>7 DEF to
    <3>2. \A pc \in {"idle", "try", "test", "wait", "take", "fread", "fwrite"}, f \in SUBSET Ports :
             LET r == [reader[p] EXCEPT !.pc = pc, !.ftl = f]
             IN  r \in Readers /\ r.size = reader[p].size
      BY <1>1 DEF Readers
    <3>3. PICK pc \in {"idle", "try", "test", "wait", "take", "fread", "fwrite"},
               f \in SUBSET Ports : reader' = [reader EXCEPT ![p] = [@ EXCEPT !.pc = pc, !.ftl = f]]
      BY <3>1
    <3> DEFINE r == [reader[p] EXCEPT !.pc = pc, !.ftl = f]
    <3>4. r \in Readers /\ r.size \in Sizes /\ reader' = [reader EXCEPT ![p] = r]
      BY <3>1, <3>2, <3>3 DEF TypeInv
    <3> HIDE DEF r
    <3> QED
      BY <3>4 DEF TypeInv
  <2> QED
    BY <2>1, <2>2
<1>5. ftl' \in SUBSET Ports
  BY <1>1 DEF Read, ReadTries, ReadTests, ReadWoken, ReadFtl, ReadSetsFtl, TypeInv, Readers
<1>6. events' \in 0..MaxEvent /\ \A q \in Ports : fw.seqno[q] <= events' + 1
  <2>1. events' = events \/ (events < MaxEvent /\ events' = events + 1)
    BY DEF Read, ReadTries, ReadTests, ReadWoken, ReadFtl, ReadSetsFtl, Trouble
  <2> QED
    BY <2>1, TroubleIs
<1> QED
  BY <1>2, <1>3, <1>4, <1>5, <1>6 DEF TypeInv

LEMMA TakesTypes ==
  ASSUME TypeInv, NEW p \in Ports, ReadTakes(p)
  PROVE  TypeInv'
<1> DEFINE n == LowerOf(reader[p].size, Used(p))
           e == Place(port[p].rp + n)
<1>1. port[p] \in Channel /\ reader[p] \in Readers /\ ring[p] \in [Slots -> Bytes]
  BY DEF TypeInv
<1>2. UNCHANGED <<ftl, odd, events, rx, cp_state, fw, air>>
  BY ReadTakesIs
<1>3. CASE Used(p) = 0
  <2>1. UNCHANGED <<port, ring>> /\ reader' = [reader EXCEPT ![p].pc = "try"]
    BY <1>3, ReadTakesIs
  <2>2. [reader[p] EXCEPT !.pc = "try"] \in Readers /\ reader[p].size \in Sizes
    BY <1>1 DEF Readers, ReadTakes, ReaderAt, TypeInv
  <2> QED
    BY <1>2, <2>1, <2>2 DEF TypeInv, Readers
<1>4. CASE Used(p) # 0
  <2>1. n \in 1..Used(p) /\ ring' = Freed(p, n)
    BY <1>4, ReadTakesIs
  <2>2. PICK pc \in {"fread", "idle"} :
            reader' = [reader EXCEPT ![p].pc = pc, ![p].got = Got(p, n)]
    BY <1>4, ReadTakesIs
  <2>3. PICK flow \in BOOLEAN :
            port' = [port EXCEPT ![p].rp = IF e = port[p].wp THEN 0 ELSE e,
                                 ![p].wp = IF e = port[p].wp THEN 0 ELSE @,
                                 ![p].rx_flow_ctrl = flow]
    BY <1>4, ReadTakesIs
  <2> HIDE DEF n
  <2>4. \A i \in 0..n : Place(port[p].rp + i) \in Slots
    <3>1. port[p].rp \in Slots /\ Used(p) \in Slots
      BY UsedIs
    <3>2. \A i \in 0..n : port[p].rp + i \in 0..(2 * Length - 1)
      BY <2>1, <3>1 DEF Slots
    <3> QED
      BY <3>2, ModIs
  <2>5. port' \in [Ports -> Channel]
    <3>1. e \in Slots /\ 0 \in Slots /\ port[p].wp \in Slots
      BY <2>1, <2>4, UsedIs DEF Slots
    <3>2. [port[p] EXCEPT !.rp = IF e = port[p].wp THEN 0 ELSE e,
                          !.wp = IF e = port[p].wp THEN 0 ELSE @, !.rx_flow_ctrl = flow] \in Channel
      BY <1>1, <3>1 DEF Channel
    <3> QED
      BY <2>3, <3>2 DEF TypeInv
  <2>6. ring' \in [Ports -> [Slots -> Bytes]]
    <3>1. Free \in Bytes
      BY DEF Free, Bytes
    <3> QED
      BY <1>1, <2>1, <3>1 DEF Freed, TypeInv
  <2>7. Got(p, n) \in Seq(Bytes)
    <3>2. n \in Nat
      BY <2>1, UsedIs DEF Slots
    <3>3. \A i \in 1..n : i - 1 \in 0..n
      BY <3>2
    <3>1. \A i \in 1..n : ring[p][Place(port[p].rp + (i - 1))] \in Bytes
      BY <1>1, <2>4, <3>3
    <3> QED
      BY <3>1, <3>2 DEF Got
  <2>8. /\ [reader[p] EXCEPT !.pc = pc, !.got = Got(p, n)] \in Readers
        /\ reader[p].size \in Sizes
    BY <1>1, <2>7 DEF Readers, ReadTakes, ReaderAt, TypeInv
  <2>9. /\ reader' \in [Ports -> Readers]
        /\ \A q \in Ports : reader'[q].pc # "idle" => reader'[q].size \in Sizes
    BY <2>2, <2>8 DEF TypeInv, Readers
  <2> QED
    BY <1>2, <2>5, <2>6, <2>9 DEF TypeInv
<1> QED
  BY <1>3, <1>4

LEMMA DataTypes ==
  ASSUME TypeInv, RxData
  PROVE  TypeInv'
<1> DEFINE d == Head(air)
           p == d.p
<1>1. /\ air # <<>> /\ air' = Tail(air) /\ d \in DataPackets
      /\ UNCHANGED <<reader, ftl, cp_state, fw, odd, events>>
  BY RxDataIs
<1>2. air' \in Seq(AirPackets) /\ p \in Ports /\ d.len \in Nat \ {0} /\ d.seqno \in Nat
  BY <1>1, HeadIs DEF DataPackets
<1>3. port[p] \in Channel /\ port[p].next_seqno + 1 \in Nat
  BY <1>2 DEF TypeInv, Channel
<1> HIDE DEF d
<1>4. CASE UNCHANGED <<rx, port, ring>>
  BY <1>1, <1>2, <1>4 DEF TypeInv
<1>5. CASE Drop(p) /\ UNCHANGED <<rx, ring>>
  <2>1. port' \in [Ports -> Channel]
    BY <1>3, <1>5 DEF Drop, TypeInv, Channel
  <2> QED
    BY <1>1, <1>2, <1>5, <2>1 DEF TypeInv
<1>6. ASSUME NEW stops \in BOOLEAN, d.len <= RoomIn(p), ring' = Copied(p, d),
             port' = [port EXCEPT ![p].next_seqno = @ + 1,
                                  ![p].wp = Place(port[p].wp + d.len),
                                  ![p].rx_flow_ctrl = @ \/ stops],
             rx' = [rx EXCEPT !.p = p, !.pc = IF stops THEN "fread" ELSE "complete"]
      PROVE  TypeInv'
  <2>1. port[p].wp + d.len \in 0..(2 * Length - 1)
    <3>1. /\ port[p].wp \in 0..(Length - 1) /\ RoomIn(p) \in 0..(Length - 1)
          /\ d.len \in Nat /\ d.len <= RoomIn(p)
      BY <1>2, <1>6, UsedIs DEF Slots
    <3> QED
      BY <3>1
  <2>2. Place(port[p].wp + d.len) \in Slots
    BY <2>1, ModIs
  <2>3. [port[p] EXCEPT !.next_seqno = @ + 1, !.wp = Place(port[p].wp + d.len),
                        !.rx_flow_ctrl = @ \/ stops] \in Channel
    BY <1>3, <2>2 DEF Channel
  <2>4. port' \in [Ports -> Channel]
    BY <1>2, <1>6, <2>3 DEF TypeInv
  <2>5. ring' \in [Ports -> [Slots -> Bytes]]
    <3>1. \A j : (\E i \in 1..d.len : j = Place(port[p].wp + (i - 1)))
                 => (CHOOSE i \in 1..d.len : j = Place(port[p].wp + (i - 1))) \in Nat
      <4>1. \A i \in 1..d.len : i \in Nat
        BY <1>2
      <4> QED
        BY <4>1
    <3>2. ring[p] \in [Slots -> Bytes]
      BY <1>2 DEF TypeInv
    <3> QED
      BY <1>2, <1>6, <3>1, <3>2 DEF Copied, TypeInv, Bytes
  <2>6. rx' \in Receivers
    BY <1>2, <1>6 DEF TypeInv, Receivers
  <2> QED
    BY <1>1, <1>2, <2>4, <2>5, <2>6 DEF TypeInv
<1> QED
  BY <1>4, <1>5, <1>6, RxDataIs DEF d

LEMMA RxTypes ==
  ASSUME TypeInv, RxFtl \/ RxSetsFtl \/ RxCompletes
  PROVE  TypeInv'
<1>1. rx \in Receivers /\ UNCHANGED <<ring, cp_state, fw, air, reader>>
  BY DEF TypeInv, RxFtl, RxSetsFtl, RxCompletes, RxOnly
<1>2. rx' \in Receivers /\ ftl' \in SUBSET Ports
  <2>1. /\ rx.p \in Ports /\ ftl \in SUBSET Ports /\ rx.ftl \in SUBSET Ports
        /\ ftl \cup {rx.p} \in SUBSET Ports /\ {} \in SUBSET Ports
    BY <1>1 DEF TypeInv, Receivers
  <2>2. \A pc \in {"idle", "fread", "fwrite", "complete"}, f \in SUBSET Ports :
           [rx EXCEPT !.pc = pc, !.ftl = f] \in Receivers
    BY <1>1 DEF Receivers
  <2>3. ftl' \in {ftl, rx.ftl, {}}
    BY DEF RxFtl, RxSetsFtl, RxCompletes
  <2>4. \/ rx' = [rx EXCEPT !.pc = "fwrite", !.ftl = ftl \cup {rx.p}]
        \/ rx' = [rx EXCEPT !.pc = "complete", !.ftl = {}]
        \/ rx' = [rx EXCEPT !.pc = "idle", !.ftl = {}]
    BY DEF RxFtl, RxSetsFtl, RxCompletes, RxTo
  <2>5. rx' \in Receivers
    BY <2>1, <2>2, <2>4
  <2> QED
    BY <2>1, <2>3, <2>5
<1>3. port' \in [Ports -> Channel]
  <2>1. port' = port \/ port' = [port EXCEPT ![rx.p].rx_done = TRUE]
    BY DEF RxFtl, RxSetsFtl, RxCompletes
  <2>2. rx.p \in Ports /\ [port[rx.p] EXCEPT !.rx_done = TRUE] \in Channel
    <3>1. rx.p \in Ports /\ port[rx.p] \in Channel
      BY <1>1 DEF TypeInv, Receivers
    <3> QED
      BY <3>1 DEF Channel
  <2> QED
    BY <2>1, <2>2 DEF TypeInv
<1>4. events' \in 0..MaxEvent /\ \A q \in Ports : fw.seqno[q] <= events' + 1
  <2>1. events' = events \/ (events < MaxEvent /\ events' = events + 1)
    BY DEF RxFtl, RxSetsFtl, RxCompletes, Trouble
  <2> QED
    BY <2>1, TroubleIs
<1> QED
  BY <1>1, <1>2, <1>3, <1>4 DEF TypeInv

\* The firmware crashes and starts over.
LEMMA AssertTypes ==
  ASSUME TypeInv, RxAssert \/ RxDumpDone \/ RxVersion \/ ExceptionWork
  PROVE  TypeInv'
<1>1. UNCHANGED <<ring, rx, events, reader>>
  BY DEF RxAssert, RxDumpDone, RxVersion, ExceptionWork, RxOnly
<1>2. air' \in Seq(AirPackets)
  BY HeadIs, CutIs DEF RxAssert, RxDumpDone, RxVersion, ExceptionWork, Take
<1>3. PortsAssert => port' \in [Ports -> Channel]
  <2> SUFFICES ASSUME PortsAssert, NEW p \in Ports
               PROVE  /\ port' = [q \in Ports |-> port'[q]] /\ port'[p] \in Channel
    BY DEF PortsAssert
  <2>1. port' = [q \in Ports |-> port'[q]] /\ port[p] \in Channel
    BY DEF PortsAssert, TypeInv
  <2>2. \A next \in Nat :
           [port[p] EXCEPT !.state = "asst", !.rx_done = TRUE, !.next_seqno = next] \in Channel
    BY <2>1 DEF Channel
  <2>3. port[p].next_seqno \in Nat
    BY <2>1 DEF Channel
  <2> DEFINE next == IF p = "log" THEN 1 ELSE port[p].next_seqno
             marked == [port[p] EXCEPT !.state = "asst", !.rx_done = TRUE, !.next_seqno = next]
  <2>4. marked \in Channel
    BY <2>2, <2>3
  <2>5. port'[p] = port[p] \/ port'[p] = marked
    BY DEF PortsAssert
  <2> HIDE DEF marked
  <2> QED
    BY <2>1, <2>4, <2>5
<1>4. port' \in [Ports -> Channel]
  <2>1. port \in [Ports -> Channel] /\ "atc" \in Ports
    BY DEF TypeInv, Ports
  <2>2. port' = port \/ PortsAssert \/ port' = [port EXCEPT !["atc"].state = "open"]
    BY DEF RxAssert, RxDumpDone, RxVersion, ExceptionWork
  <2>3. [port["atc"] EXCEPT !.state = "open"] \in Channel
    BY <2>1 DEF Channel
  <2> QED
    BY <1>3, <2>1, <2>2, <2>3
<1>5. Restart => /\ ftl' \in SUBSET Ports /\ fw' \in Firmwares
                 /\ \A q \in Ports : fw'.seqno[q] <= events + 1
  BY DEF Restart, TypeInv, Firmwares
<1>6. ftl' \in SUBSET Ports /\ fw' \in Firmwares /\ \A q \in Ports : fw'.seqno[q] <= events + 1
  BY <1>5 DEF RxAssert, RxDumpDone, RxVersion, ExceptionWork, TypeInv
<1> QED
  BY <1>1, <1>2, <1>4, <1>6 DEF TypeInv

LEMMA FwTypes ==
  ASSUME TypeInv, FwSends \/ FwCrashes \/ FwDumps \/ FwBoots
  PROVE  TypeInv'
<1>1. UNCHANGED <<port, ring, reader, rx, ftl, cp_state>> /\ air \in Seq(AirPackets)
  BY DEF FwSends, FwCrashes, FwDumps, FwBoots, FwOnly, TypeInv
<1>2. \A k \in {"assert", "dumpdone", "version"} : Notice(k) \in AirPackets
  BY DEF Notice, AirPackets, Notices
<1>3. CASE FwSends
  <2>1. PICK p \in Ports, len \in Lens :
             air' = Append(air, Data(p, fw.seqno[p], len)) /\ fw' = [fw EXCEPT !.seqno[p] = @ + 1]
    BY <1>3 DEF FwSends
  <2>2. events \in 0..MaxEvent /\ events < MaxEvent /\ events' = events + 1 /\ events' \in 0..MaxEvent
    BY <1>3 DEF FwSends, TypeInv
  <2>3. /\ fw \in Firmwares /\ fw.seqno[p] \in Nat \ {0} /\ fw.seqno[p] <= events + 1
        /\ \A q \in Ports : fw.seqno[q] \in Nat /\ fw.seqno[q] <= events + 1
    BY DEF TypeInv, Firmwares
  <2>4. Data(p, fw.seqno[p], len) \in AirPackets
    BY <2>2, <2>3 DEF Data, AirPackets, DataPackets
  <2>5. fw' \in Firmwares /\ \A q \in Ports : fw'.seqno[q] <= events' + 1
    <3>1. [fw.seqno EXCEPT ![p] = @ + 1] \in [Ports -> Nat \ {0}]
      BY <2>3 DEF Firmwares
    <3>2. fw' \in Firmwares /\ fw'.seqno = [fw.seqno EXCEPT ![p] = @ + 1]
      BY <2>1, <2>3, <3>1 DEF Firmwares
    <3>3. \A q \in Ports : fw'.seqno[q] = IF q = p THEN fw.seqno[q] + 1 ELSE fw.seqno[q]
      BY <2>3, <3>2 DEF Firmwares
    <3> QED
      BY <2>2, <2>3, <3>2, <3>3
  <2>6. air' \in Seq(AirPackets)
    BY <1>1, <2>1, <2>4
  <2> QED
    BY <1>1, <2>2, <2>5, <2>6 DEF TypeInv
<1>4. CASE FwCrashes \/ FwDumps \/ FwBoots
  <2>1. \E k \in {"assert", "dumpdone", "version"} : air' = Append(air, Notice(k))
    BY <1>4 DEF FwCrashes, FwDumps, FwBoots
  <2>2. air' \in Seq(AirPackets)
    BY <1>1, <1>2, <2>1
  <2>3. fw' \in Firmwares /\ fw'.seqno = fw.seqno
    BY <1>4 DEF FwCrashes, FwDumps, FwBoots, TypeInv, Firmwares
  <2>4. events' \in 0..MaxEvent /\ \A q \in Ports : fw.seqno[q] <= events' + 1
    <3>1. events' = events \/ (events < MaxEvent /\ events' = events + 1)
      BY <1>4 DEF FwCrashes, FwDumps, FwBoots, Trouble
    <3> QED
      BY <3>1, TroubleIs
  <2> QED
    BY <1>1, <2>2, <2>3, <2>4 DEF TypeInv
<1> QED
  BY <1>3, <1>4

LEMMA TypesInit == Init => TypeInv
<1> SUFFICES ASSUME Init  PROVE TypeInv
  OBVIOUS
<1>1. port \in [Ports -> Channel]
  <2>1. Fresh \in Channel /\ [Fresh EXCEPT !.state = "idle", !.next_seqno = 0] \in Channel
    <3>1. 0 \in Slots
      BY DEF Slots
    <3> QED
      BY <3>1 DEF Fresh, Channel
  <2> QED
    BY <2>1 DEF Init
<1>2. ring \in [Ports -> [Slots -> Bytes]]
  BY DEF Init, Free, Slots, Bytes
<1>3. reader \in [Ports -> Readers] /\ \A p \in Ports : reader[p].pc = "idle"
  <2>1. [pc |-> "idle", size |-> 0, got |-> <<>>, ftl |-> {}] \in Readers
    BY EmptySeq DEF Readers
  <2> QED
    BY <2>1 DEF Init
<1>4. rx \in Receivers /\ fw \in Firmwares /\ \A p \in Ports : fw.seqno[p] = 1
  BY DEF Init, Receivers, Firmwares, Ports
<1>5. air \in Seq(AirPackets)
  BY EmptySeq DEF Init
<1> QED
  BY <1>1, <1>2, <1>3, <1>4, <1>5 DEF Init, TypeInv

LEMMA TypesNext == TypeInv /\ [Next]_vars => TypeInv'
<1> SUFFICES ASSUME TypeInv, [Next]_vars  PROVE TypeInv'
  OBVIOUS
<1>1. ASSUME NEW p \in Ports, Open(p) \/ Close(p) \/ Reader(p)  PROVE TypeInv'
  BY <1>1, PortTypes, ReaderTypes, TakesTypes DEF Reader
<1>2. CASE Rx
  BY <1>2, DataTypes, RxTypes, AssertTypes DEF Rx
<1>3. CASE ExceptionWork
  BY <1>3, AssertTypes
<1>4. CASE FwSends \/ FwCrashes \/ FwDumps \/ FwBoots
  BY <1>4, FwTypes
<1>5. CASE UNCHANGED vars
  BY <1>5 DEF vars, TypeInv
<1> QED
  BY <1>1, <1>2, <1>3, <1>4, <1>5 DEF Next
-----------------------------------------------------------------------------
(* The numbers of the packets for the AT port.                             *)

AtcData(d) == d.kind = "data" /\ d.p = "atc"
CountedTo(s, i) == {j \in 1..(i - 1) : AtcData(s[j])}
CountTo(s, i) == Cardinality(CountedTo(s, i))

\* The packets on the way have the numbers from the one the port expects to
\* the one the firmware gives next.
Numbered(next, s, last) ==
  /\ next + CountTo(s, Len(s) + 1) = last
  /\ \A i \in 1..Len(s) : AtcData(s[i]) => s[i].seqno = next + CountTo(s, i)

StepInv ==
  "deaf" \notin odd /\ port["atc"].state \notin {"idle", "clse"} =>
      Numbered(port["atc"].next_seqno, air, fw.seqno["atc"])

LEMMA CountIs ==
  ASSUME NEW s, NEW i \in Nat
  PROVE  IsFiniteSet(CountedTo(s, i)) /\ CountTo(s, i) \in Nat
<1>1. IsFiniteSet(1..(i - 1))
  BY FS_Interval
<1> QED
  BY <1>1, FS_Subset, FS_CardinalityType DEF CountedTo, CountTo

LEMMA CountNone ==
  ASSUME NEW s, NEW i \in Nat, \A j \in 1..(i - 1) : ~AtcData(s[j])
  PROVE  CountTo(s, i) = 0
BY FS_EmptySet DEF CountTo, CountedTo

LEMMA CountNext ==
  ASSUME NEW s, NEW i \in Nat \ {0}
  PROVE  CountTo(s, i + 1) = CountTo(s, i) + (IF AtcData(s[i]) THEN 1 ELSE 0)
<1>1. IsFiniteSet(CountedTo(s, i)) /\ i \notin CountedTo(s, i)
  <2>1. i \in Nat /\ i \notin 1..(i - 1)
    OBVIOUS
  <2> QED
    BY <2>1, CountIs DEF CountedTo
<1>2. CASE AtcData(s[i])
  <2>1. CountedTo(s, i + 1) = CountedTo(s, i) \cup {i}
    BY <1>2 DEF CountedTo
  <2> QED
    BY <1>1, <1>2, <2>1, FS_AddElement DEF CountTo
<1>3. CASE ~AtcData(s[i])
  <2>1. CountedTo(s, i + 1) = CountedTo(s, i)
    BY <1>3 DEF CountedTo
  <2>2. CountTo(s, i) \in Nat
    BY CountIs
  <2> QED
    BY <1>3, <2>1, <2>2 DEF CountTo
<1> QED
  BY <1>2, <1>3

LEMMA CountSame ==
  ASSUME NEW s, NEW t, NEW i \in Nat, \A j \in 1..(i - 1) : s[j] = t[j]
  PROVE  CountTo(s, i) = CountTo(t, i)
<1>1. CountedTo(s, i) = CountedTo(t, i)
  BY DEF CountedTo
<1> QED
  BY <1>1 DEF CountTo

\* Without the first packet.
LEMMA CountTail ==
  ASSUME NEW s, NEW t, NEW i \in Nat \ {0}, \A j \in 1..(i - 1) : t[j] = s[j + 1]
  PROVE  CountTo(s, i + 1) = CountTo(t, i) + (IF AtcData(s[1]) THEN 1 ELSE 0)
<1> DEFINE S == CountedTo(t, i)
           T == CountedTo(s, i + 1) \ {1}
           f == [j \in S |-> j + 1]
<1>1. f \in Bijection(S, T)
  <2>1. \A j \in S : j + 1 \in T
    BY DEF CountedTo
  <2>2. \A j, k \in S : f[j] = f[k] => j = k
    BY DEF CountedTo
  <2>3. \A k \in T : k - 1 \in S /\ f[k - 1] = k
    BY DEF CountedTo
  <2> QED
    BY <2>1, <2>2, <2>3, Fun_IsBij
<1>2. IsFiniteSet(S) /\ IsFiniteSet(CountedTo(s, i + 1)) /\ CountTo(t, i) \in Nat
  BY CountIs
<1>3. Cardinality(T) = Cardinality(S)
  BY <1>1, <1>2, FS_Bijection DEF ExistsBijection
<1>4. Cardinality(T) = IF 1 \in CountedTo(s, i + 1) THEN CountTo(s, i + 1) - 1 ELSE CountTo(s, i + 1)
  BY <1>2, FS_RemoveElement DEF CountTo
<1>5. 1 \in CountedTo(s, i + 1) <=> AtcData(s[1])
  BY DEF CountedTo
<1>6. CountTo(s, i + 1) \in Nat /\ CountTo(t, i) = Cardinality(S)
  BY CountIs DEF CountTo
<1> HIDE DEF S, T, f
<1>7. CASE AtcData(s[1])
  <2>1. Cardinality(T) = CountTo(s, i + 1) - 1
    BY <1>4, <1>5, <1>7
  <2> QED
    BY <1>2, <1>3, <1>6, <1>7, <2>1
<1>8. CASE ~AtcData(s[1])
  <2>1. Cardinality(T) = CountTo(s, i + 1)
    BY <1>4, <1>5, <1>8
  <2> QED
    BY <1>2, <1>3, <1>6, <1>8, <2>1
<1> QED
  BY <1>7, <1>8

\* The next packet is taken.
LEMMA NumberedTail ==
  ASSUME NEW s \in Seq(AirPackets), s # <<>>, NEW next \in Nat, NEW last \in Nat,
         Numbered(next, s, last)
  PROVE  /\ AtcData(Head(s)) => Head(s).seqno = next
         /\ Numbered(IF AtcData(Head(s)) THEN next + 1 ELSE next, Tail(s), last)
<1> DEFINE one == IF AtcData(s[1]) THEN 1 ELSE 0
           t == Tail(s)
<1>1. /\ Len(s) \in Nat \ {0} /\ Head(s) = s[1] /\ Len(t) = Len(s) - 1
      /\ \A i \in 1..Len(t) : t[i] = s[i + 1]
  BY HeadTailProperties, EmptySeq
<1> HIDE DEF t
<1>2. \A i \in 1..(Len(t) + 1) : CountTo(s, i + 1) = CountTo(t, i) + one
  <2> TAKE i \in 1..(Len(t) + 1)
  <2>1. i \in Nat \ {0} /\ \A j \in 1..(i - 1) : t[j] = s[j + 1]
    BY <1>1
  <2> QED
    BY <2>1, CountTail
<1>3. \A i \in 1..(Len(t) + 1) : CountTo(t, i) \in Nat
  BY <1>1, CountIs
<1>4. CountTo(s, 1) = 0
  BY CountNone
<1>5. AtcData(Head(s)) => Head(s).seqno = next
  BY <1>1, <1>4 DEF Numbered
<1>6. next + one + CountTo(t, Len(t) + 1) = last
  BY <1>1, <1>2, <1>3 DEF Numbered
<1>7. ASSUME NEW i \in 1..Len(t), AtcData(t[i])
      PROVE  t[i].seqno = next + one + CountTo(t, i)
  <2>1. i + 1 \in 1..Len(s) /\ t[i] = s[i + 1] /\ i \in 1..(Len(t) + 1)
    BY <1>1
  <2>2. s[i + 1].seqno = next + CountTo(s, i + 1)
    BY <1>7, <2>1 DEF Numbered
  <2> QED
    BY <1>2, <1>3, <2>1, <2>2
<1>8. next + one = IF AtcData(Head(s)) THEN next + 1 ELSE next
  BY <1>1
<1> HIDE DEF one
<1>9. Numbered(next + one, t, last)
  BY <1>6, <1>7 DEF Numbered
<1> QED
  BY <1>5, <1>8, <1>9 DEF t

\* The firmware sends a packet.
LEMMA NumberedAppend ==
  ASSUME NEW s \in Seq(AirPackets), NEW e \in AirPackets, NEW next \in Nat, NEW last \in Nat,
         Numbered(next, s, last), AtcData(e) => e.seqno = last
  PROVE  Numbered(next, Append(s, e), IF AtcData(e) THEN last + 1 ELSE last)
<1> DEFINE t == Append(s, e)
<1>1. /\ Len(s) \in Nat /\ Len(t) = Len(s) + 1 /\ t[Len(s) + 1] = e
      /\ \A i \in 1..Len(s) : t[i] = s[i]
  BY AppendProperties
<1> HIDE DEF t
<1>2. \A i \in 1..(Len(s) + 1) : CountTo(t, i) = CountTo(s, i)
  <2> TAKE i \in 1..(Len(s) + 1)
  <2>1. \A j \in 1..(i - 1) : t[j] = s[j]
    BY <1>1
  <2> QED
    BY <1>1, <2>1, CountSame
<1>3. CountTo(s, Len(s) + 1) \in Nat /\ next + CountTo(s, Len(s) + 1) = last
  BY <1>1, CountIs DEF Numbered
<1>4. CountTo(t, Len(t) + 1) = CountTo(s, Len(s) + 1) + (IF AtcData(e) THEN 1 ELSE 0)
  <2>1. /\ Len(s) + 1 \in Nat \ {0} /\ Len(s) + 1 \in 1..(Len(s) + 1)
        /\ Len(t) + 1 = (Len(s) + 1) + 1
    BY <1>1
  <2>2. CountTo(t, (Len(s) + 1) + 1)
           = CountTo(t, Len(s) + 1) + (IF AtcData(t[Len(s) + 1]) THEN 1 ELSE 0)
    BY <2>1, CountNext
  <2> QED
    BY <1>1, <1>2, <2>1, <2>2
<1>5. ASSUME NEW i \in 1..Len(t), AtcData(t[i])
      PROVE  t[i].seqno = next + CountTo(t, i)
  <2>1. CASE i \in 1..Len(s)
    BY <1>1, <1>2, <1>5, <2>1 DEF Numbered
  <2>2. CASE i = Len(s) + 1
    BY <1>1, <1>2, <1>3, <1>5, <2>2
  <2> QED
    BY <1>1, <2>1, <2>2
<1>6. next + CountTo(t, Len(t) + 1) = IF AtcData(e) THEN last + 1 ELSE last
  BY <1>3, <1>4
<1> QED
  BY <1>5, <1>6 DEF Numbered, t

\* Nothing is on the way.
LEMMA NumberedNone ==
  ASSUME NEW s \in Seq(AirPackets), \A i \in 1..Len(s) : ~AtcData(s[i])
  PROVE  Numbered(1, s, 1)
<1>1. Len(s) \in Nat
  OBVIOUS
<1>2. CountTo(s, Len(s) + 1) = 0
  BY <1>1, CountNone
<1> QED
  BY <1>2 DEF Numbered

LEMMA NoneWaits ==
  ASSUME TypeInv, Waiting("atc") = 0
  PROVE  \A i \in 1..Len(air) : ~AtcData(air[i])
<1>1. Len(air) \in Nat /\ DOMAIN air = 1..Len(air)
  BY DEF TypeInv
<1>2. Waiting("atc") = CountTo(air, Len(air) + 1)
  BY <1>1 DEF Waiting, CountTo, CountedTo, AtcData
<1>3. IsFiniteSet(CountedTo(air, Len(air) + 1))
  BY <1>1, CountIs
<1>4. CountedTo(air, Len(air) + 1) = {}
  BY <1>2, <1>3, FS_EmptySet DEF CountTo
<1> QED
  BY <1>1, <1>4 DEF CountedTo

LEMMA Numbers ==
  ASSUME TypeInv
  PROVE  /\ port["atc"].next_seqno \in Nat /\ fw.seqno["atc"] \in Nat
         /\ air \in Seq(AirPackets) /\ Len(air) \in Nat
BY DEF TypeInv, Channel, Firmwares, Ports

\* What leaves the AT port's number, the firmware's and the way alone.
LEMMA NumberKept ==
  ASSUME StepInv, UNCHANGED <<fw, air>>, "deaf" \in odd => "deaf" \in odd',
         port'["atc"].next_seqno = port["atc"].next_seqno,
         port["atc"].state \in {"idle", "clse"} => port'["atc"].state \in {"idle", "clse"}
  PROVE  StepInv'
BY DEF StepInv

LEMMA OpenNumber ==
  ASSUME TypeInv, StepInv, NEW p \in Ports, Open(p)
  PROVE  StepInv'
<1>1. UNCHANGED <<fw, air>> /\ port \in [Ports -> Channel]
  BY DEF Open, TypeInv
<1>2. CASE p = "atc"
  <2>1. SUFFICES ASSUME "deaf" \notin odd'  PROVE Numbered(1, air, fw.seqno["atc"])
    BY <1>1, <1>2 DEF StepInv, Open, Fresh
  <2>2. fw.seqno["atc"] = 1 /\ Waiting("atc") = 0
    BY <1>2, <2>1 DEF Open
  <2>3. air \in Seq(AirPackets)
    BY DEF TypeInv
  <2> QED
    BY <2>2, <2>3, NoneWaits, NumberedNone
<1>3. CASE p # "atc"
  <2>1. port'["atc"] = port["atc"] /\ ("deaf" \in odd => "deaf" \in odd')
    BY <1>1, <1>3 DEF Open
  <2> QED
    BY <1>1, <2>1, NumberKept
<1> QED
  BY <1>2, <1>3

LEMMA ReaderNumber ==
  ASSUME TypeInv, StepInv, NEW p \in Ports, Close(p) \/ Reader(p)
  PROVE  StepInv'
<1>1. port \in [Ports -> Channel] /\ port[p] \in Channel /\ port["atc"] \in Channel
  BY DEF TypeInv, Ports
<1>2. UNCHANGED <<fw, air>> /\ ("deaf" \in odd => "deaf" \in odd')
  BY DEF Close, Reader, Read, ReadTries, ReadTests, ReadWoken, ReadTakes, ReadFtl, ReadSetsFtl,
         ReaderOnly, Trouble, Race
<1>3. \/ port'["atc"].state \in {"idle", "clse"}
      \/ /\ port'["atc"].next_seqno = port["atc"].next_seqno
         /\ port["atc"].state \notin {"idle", "clse"}
      \/ port'["atc"] = port["atc"]
  <2> DEFINE old == port["atc"]
             new == port'["atc"]
  <2>0. "atc" \in Ports /\ DOMAIN old = {"state", "wp", "rp", "rx_done", "rx_flow_ctrl", "next_seqno"}
    BY <1>1 DEF Ports, Channel
  <2>1. CASE Close(p)
    <3>1. new = IF p = "atc" THEN [old EXCEPT !.state = "clse", !.next_seqno = 1, !.rx_done = TRUE]
                ELSE old
      BY <1>1, <2>0, <2>1 DEF Close
    <3> QED
      BY <1>1, <3>1 DEF Channel
  <2>2. CASE Read(p)
    <3>1. CASE port[p].state = "clse"
      <4>1. new = IF p = "atc" THEN [old EXCEPT !.state = "idle"] ELSE old
        BY <1>1, <2>0, <2>2, <3>1 DEF Read
      <4> QED
        BY <1>1, <4>1 DEF Channel
    <3>2. CASE port[p].state # "clse"
      <4>1. port' = port \/ port' = AfterAssert(p)
        BY <2>2, <3>2 DEF Read
      <4> QED
        BY <1>1, <2>0, <4>1 DEF AfterAssert
    <3> QED
      BY <3>1, <3>2
  <2>3. CASE ReadTries(p)
    BY <1>1, <2>3 DEF ReadTries, Channel
  <2>4. CASE ReadTests(p) \/ ReadFtl(p) \/ ReadSetsFtl(p)
    BY <2>4 DEF ReadTests, ReadFtl, ReadSetsFtl
  <2>5. CASE ReadWoken(p)
    <3>1. port[p].state = "clse" => port' = [[port EXCEPT ![p].rx_done = FALSE] EXCEPT ![p].state = "idle"]
      BY <2>5 DEF ReadWoken
    <3>2. port[p].state # "clse" =>
             \/ port' = [port EXCEPT ![p].rx_done = FALSE]
             \/ port' = [[port EXCEPT ![p].rx_done = FALSE] EXCEPT ![p].state = AfterAssert(p)[p].state]
      BY <2>5 DEF ReadWoken
    <3>3. p = "atc" => AfterAssert(p)[p].state = old.state
      BY DEF AfterAssert
    <3>4. p # "atc" => new = old
      BY <1>1, <2>0, <3>1, <3>2
    <3>5. p = "atc" => \/ new = [[old EXCEPT !.rx_done = FALSE] EXCEPT !.state = "idle"]
                       \/ /\ old.state # "clse"
                          /\ \/ new = [old EXCEPT !.rx_done = FALSE]
                             \/ new = [[old EXCEPT !.rx_done = FALSE] EXCEPT !.state = old.state]
      BY <1>1, <2>0, <3>1, <3>2, <3>3
    <3> QED
      BY <1>1, <3>4, <3>5 DEF Channel
  <2>6. CASE ReadTakes(p)
    <3>1. \/ port' = port
          \/ \E rp, wp, flow : port' = [port EXCEPT ![p].rp = rp, ![p].wp = wp, ![p].rx_flow_ctrl = flow]
      <4> DEFINE e == Place(port[p].rp + LowerOf(reader[p].size, Used(p)))
      <4>1. \/ port' = port
            \/ \E flow \in BOOLEAN :
                  port' = [port EXCEPT ![p].rp = IF e = port[p].wp THEN 0 ELSE e,
                                       ![p].wp = IF e = port[p].wp THEN 0 ELSE @,
                                       ![p].rx_flow_ctrl = flow]
        BY <2>6, ReadTakesIs
      <4> QED
        BY <4>1
    <3>2. CASE port' = port
      BY <3>2
    <3>3. ASSUME NEW rp, NEW wp, NEW flow,
                 port' = [port EXCEPT ![p].rp = rp, ![p].wp = wp, ![p].rx_flow_ctrl = flow]
          PROVE  new.next_seqno = old.next_seqno /\ new.state = old.state
      <4>1. new = old \/ new = [old EXCEPT !.rp = rp, !.wp = wp, !.rx_flow_ctrl = flow]
        BY <1>1, <2>0, <3>3
      <4> QED
        BY <2>0, <4>1
    <3>5. new.next_seqno = old.next_seqno /\ new.state = old.state
      BY <3>1, <3>2, <3>3
    <3> QED
      BY <1>1, <3>5 DEF Channel
  <2> QED
    BY <2>1, <2>2, <2>3, <2>4, <2>5, <2>6 DEF Reader
<1> QED
  BY <1>2, <1>3, NumberKept DEF StepInv

LEMMA DataNumber ==
  ASSUME TypeInv, StepInv, RxData
  PROVE  StepInv'
<1> DEFINE d == Head(air)
           p == d.p
<1>1. air # <<>> /\ air' = Tail(air) /\ d \in DataPackets /\ UNCHANGED <<fw, odd>>
  BY RxDataIs
<1>2. p \in Ports /\ d.kind = "data" /\ port \in [Ports -> Channel] /\ port[p] \in Channel
  BY <1>1 DEF DataPackets, TypeInv
<1>3. /\ p # "atc" => port'["atc"] = port["atc"]
      /\ p = "atc" => \/ /\ port' = port
                         /\ port["atc"].state = "idle" \/ d.seqno # port["atc"].next_seqno
                      \/ /\ port'["atc"].next_seqno = port["atc"].next_seqno + 1
                         /\ port'["atc"].state = port["atc"].state
  <2> DEFINE old == port["atc"]
             new == port'["atc"]
             taken == [port EXCEPT ![p].next_seqno = @ + 1]
  <2>0. "atc" \in Ports /\ DOMAIN old = {"state", "wp", "rp", "rx_done", "rx_flow_ctrl", "next_seqno"}
    BY <1>2 DEF Ports, TypeInv, Channel
  <2>1. \/ port' = port /\ (port[p].state = "idle" \/ (p # "log" /\ d.seqno # port[p].next_seqno))
        \/ port' = taken
        \/ \E stops \in BOOLEAN :
              port' = [port EXCEPT ![p].next_seqno = @ + 1, ![p].wp = Place(port[p].wp + d.len),
                                   ![p].rx_flow_ctrl = @ \/ stops]
    BY RxDataIs DEF Drop
  <2>2. CASE port' = port /\ (port[p].state = "idle" \/ (p # "log" /\ d.seqno # port[p].next_seqno))
    BY <2>2
  <2>3. CASE port' = taken
    BY <1>2, <2>0, <2>3
  <2>4. ASSUME NEW stops \in BOOLEAN,
               port' = [port EXCEPT ![p].next_seqno = @ + 1, ![p].wp = Place(port[p].wp + d.len),
                                    ![p].rx_flow_ctrl = @ \/ stops]
        PROVE  /\ p # "atc" => new = old
               /\ p = "atc" => new.next_seqno = old.next_seqno + 1 /\ new.state = old.state
    <3>1. /\ p # "atc" => new = old
          /\ p = "atc" => new = [old EXCEPT !.next_seqno = @ + 1, !.wp = Place(old.wp + d.len),
                                            !.rx_flow_ctrl = @ \/ stops]
      BY <1>2, <2>0, <2>4
    <3> QED
      BY <2>0, <3>1
  <2> QED
    BY <2>1, <2>2, <2>3, <2>4
<1>4. SUFFICES ASSUME "deaf" \notin odd, port'["atc"].state \notin {"idle", "clse"}
               PROVE  Numbered(port'["atc"].next_seqno, Tail(air), fw.seqno["atc"])
  BY <1>1 DEF StepInv
<1>5. port["atc"].state \notin {"idle", "clse"}
  BY <1>3, <1>4
<1>6. Numbered(port["atc"].next_seqno, air, fw.seqno["atc"])
  BY <1>4, <1>5 DEF StepInv
<1>7. AtcData(d) <=> p = "atc"
  BY <1>2 DEF AtcData
<1>8. /\ AtcData(d) => d.seqno = port["atc"].next_seqno
      /\ Numbered(IF AtcData(d) THEN port["atc"].next_seqno + 1 ELSE port["atc"].next_seqno,
                  Tail(air), fw.seqno["atc"])
  BY <1>1, <1>6, Numbers, NumberedTail
<1>9. port'["atc"].next_seqno
         = IF AtcData(d) THEN port["atc"].next_seqno + 1 ELSE port["atc"].next_seqno
  BY <1>3, <1>5, <1>7, <1>8
<1> QED
  BY <1>8, <1>9

\* The chip starts over: the AT port goes on from number one, or is deaf.
LEMMA RestartNumber ==
  ASSUME TypeInv, StepInv, PortsAssert, Restart,
         \/ air # <<>> /\ air' = Tail(air)
         \/ \E n \in 0..Len(air) : air' = SubSeq(air, 1, n)
  PROVE  StepInv'
<1>1. port["atc"] \in Channel /\ air \in Seq(AirPackets) /\ Len(air) \in Nat
  BY DEF TypeInv, Ports
<1>2. port'["atc"] = IF port["atc"].state \in {"idle", "clse"} THEN port["atc"]
                     ELSE [port["atc"] EXCEPT !.state = "asst", !.rx_done = TRUE]
  BY <1>1 DEF PortsAssert, Ports, Channel
<1>3. SUFFICES ASSUME "deaf" \notin odd', port["atc"].state \notin {"idle", "clse"}
               PROVE  Numbered(port["atc"].next_seqno, air', 1)
  BY <1>1, <1>2 DEF StepInv, Restart, Channel, Ports
<1>4. port["atc"].next_seqno = 1 /\ Waiting("atc") = 0
  BY <1>3 DEF Restart
<1>5. \A i \in 1..Len(air) : ~AtcData(air[i])
  BY <1>4, NoneWaits
<1>6. air' \in Seq(AirPackets) /\ \A i \in 1..Len(air') : ~AtcData(air'[i])
  <2>1. CASE air # <<>> /\ air' = Tail(air)
    <3>1. /\ Tail(air) \in Seq(AirPackets) /\ Len(Tail(air)) = Len(air) - 1
          /\ \A i \in 1..Len(Tail(air)) : Tail(air)[i] = air[i + 1]
      BY <1>1, <2>1, HeadTailProperties
    <3>2. \A i \in 1..Len(Tail(air)) : i + 1 \in 1..Len(air)
      BY <1>1, <3>1
    <3> QED
      BY <1>5, <2>1, <3>1, <3>2
  <2>2. ASSUME NEW n \in 0..Len(air), air' = SubSeq(air, 1, n)
        PROVE  air' \in Seq(AirPackets) /\ \A i \in 1..Len(air') : ~AtcData(air'[i])
    <3>1. \A i \in 1..n : air[i] \in AirPackets /\ ~AtcData(air[i])
      BY <1>1, <1>5
    <3>2. /\ SubSeq(air, 1, n) \in Seq(AirPackets) /\ Len(SubSeq(air, 1, n)) = n
          /\ \A i \in 1..n : SubSeq(air, 1, n)[i] = air[i]
      BY <3>1, SubSeqProperties
    <3> QED
      BY <2>2, <3>1, <3>2
  <2> QED
    BY <2>1, <2>2
<1> QED
  BY <1>4, <1>6, NumberedNone

\* A notice is taken.
LEMMA NoticeNumber ==
  ASSUME TypeInv, StepInv, RxAssert \/ RxDumpDone \/ RxVersion
  PROVE  StepInv'
<1>1. air # <<>> /\ air' = Tail(air) /\ ~AtcData(Head(air))
  BY DEF RxAssert, RxDumpDone, RxVersion, Take, AtcData
<1>2. CASE PortsAssert /\ Restart
  BY <1>1, <1>2, RestartNumber
<1>3. CASE /\ UNCHANGED <<fw, odd>> /\ port'["atc"].next_seqno = port["atc"].next_seqno
           /\ port["atc"].state \in {"idle", "clse"} => port'["atc"].state = port["atc"].state
  <2>1. SUFFICES ASSUME "deaf" \notin odd, port["atc"].state \notin {"idle", "clse"}
                 PROVE  Numbered(port["atc"].next_seqno, Tail(air), fw.seqno["atc"])
    BY <1>1, <1>3 DEF StepInv
  <2>2. Numbered(port["atc"].next_seqno, air, fw.seqno["atc"])
    BY <2>1 DEF StepInv
  <2> QED
    BY <1>1, <2>2, Numbers, NumberedTail
<1>4. \/ PortsAssert /\ Restart
      \/ /\ UNCHANGED <<fw, odd>> /\ port'["atc"].next_seqno = port["atc"].next_seqno
         /\ port["atc"].state \in {"idle", "clse"} => port'["atc"].state = port["atc"].state
  <2>1. port["atc"] \in Channel /\ port \in [Ports -> Channel] /\ "atc" \in Ports
    BY DEF TypeInv, Ports
  <2>2. CASE RxAssert
    BY <2>2 DEF RxAssert
  <2>3. CASE RxDumpDone
    BY <2>3 DEF RxDumpDone
  <2>4. CASE RxVersion
    BY <2>1, <2>4 DEF RxVersion, Channel
  <2> QED
    BY <2>2, <2>3, <2>4
<1> QED
  BY <1>2, <1>3, <1>4

LEMMA FwNumber ==
  ASSUME TypeInv, StepInv, FwSends \/ FwCrashes \/ FwDumps \/ FwBoots
  PROVE  StepInv'
<1>1. port' = port /\ odd' = odd
  BY DEF FwSends, FwCrashes, FwDumps, FwBoots, FwOnly, Trouble
<1>2. SUFFICES ASSUME "deaf" \notin odd, port["atc"].state \notin {"idle", "clse"}
               PROVE  Numbered(port["atc"].next_seqno, air', fw'.seqno["atc"])
  BY <1>1 DEF StepInv
<1>3. Numbered(port["atc"].next_seqno, air, fw.seqno["atc"])
  BY <1>2 DEF StepInv
<1>4. CASE FwSends
  <2>1. PICK p \in Ports, len \in Lens :
             air' = Append(air, Data(p, fw.seqno[p], len)) /\ fw' = [fw EXCEPT !.seqno[p] = @ + 1]
    BY <1>4 DEF FwSends
  <2>2. events \in 0..MaxEvent /\ events < MaxEvent /\ fw \in Firmwares
        /\ fw.seqno[p] \in Nat \ {0} /\ fw.seqno[p] <= events + 1
    BY <1>4 DEF FwSends, TypeInv, Firmwares
  <2> DEFINE e == Data(p, fw.seqno[p], len)
  <2>3. e \in AirPackets /\ (AtcData(e) <=> p = "atc") /\ e.seqno = fw.seqno[p]
    BY <2>2 DEF Data, AirPackets, DataPackets, AtcData
  <2>4. fw'.seqno["atc"] = IF p = "atc" THEN fw.seqno["atc"] + 1 ELSE fw.seqno["atc"]
    BY <2>1, <2>2 DEF Firmwares, Ports
  <2> HIDE DEF e
  <2>5. AtcData(e) => e.seqno = fw.seqno["atc"]
    BY <2>3
  <2>6. Numbered(port["atc"].next_seqno, Append(air, e),
                 IF AtcData(e) THEN fw.seqno["atc"] + 1 ELSE fw.seqno["atc"])
    BY <1>3, <2>3, <2>5, Numbers, NumberedAppend
  <2> QED
    BY <2>1, <2>3, <2>4, <2>6 DEF e
<1>5. CASE FwCrashes \/ FwDumps \/ FwBoots
  <2>1. PICK k \in {"assert", "dumpdone", "version"} : air' = Append(air, Notice(k))
    BY <1>5 DEF FwCrashes, FwDumps, FwBoots
  <2>2. fw'.seqno = fw.seqno
    BY <1>5 DEF FwCrashes, FwDumps, FwBoots, TypeInv, Firmwares
  <2>3. Notice(k) \in AirPackets /\ ~AtcData(Notice(k))
    BY DEF Notice, AirPackets, Notices, AtcData
  <2> QED
    BY <1>3, <2>1, <2>2, <2>3, Numbers, NumberedAppend
<1> QED
  BY <1>4, <1>5

LEMMA StepNext == TypeInv /\ StepInv /\ [Next]_vars => StepInv'
<1> SUFFICES ASSUME TypeInv, StepInv, [Next]_vars  PROVE StepInv'
  OBVIOUS
<1>1. ASSUME NEW p \in Ports, Open(p) \/ Close(p) \/ Reader(p)  PROVE StepInv'
  BY <1>1, OpenNumber, ReaderNumber
<1>2. CASE RxData
  BY <1>2, DataNumber
<1>3. CASE RxFtl \/ RxSetsFtl \/ RxCompletes
  <2>1. UNCHANGED <<fw, air>> /\ ("deaf" \in odd => "deaf" \in odd')
    BY <1>3 DEF RxFtl, RxSetsFtl, RxCompletes, Trouble, Race
  <2>2. port' = port \/ port' = [port EXCEPT ![rx.p].rx_done = TRUE]
    BY <1>3 DEF RxFtl, RxSetsFtl, RxCompletes
  <2>3. port \in [Ports -> Channel] /\ "atc" \in Ports /\ port["atc"] \in Channel
    BY DEF TypeInv, Ports
  <2>4. /\ port'["atc"].next_seqno = port["atc"].next_seqno
        /\ port'["atc"].state = port["atc"].state
    BY <2>2, <2>3 DEF Channel
  <2> QED
    BY <2>1, <2>4, NumberKept
<1>4. CASE RxAssert \/ RxDumpDone \/ RxVersion
  BY <1>4, NoticeNumber
<1>5. CASE ExceptionWork
  BY <1>5, RestartNumber DEF ExceptionWork
<1>6. CASE FwSends \/ FwCrashes \/ FwDumps \/ FwBoots
  BY <1>6, FwNumber
<1>7. CASE UNCHANGED vars
  BY <1>7, NumberKept DEF vars
<1> QED
  BY <1>1, <1>2, <1>3, <1>4, <1>5, <1>6, <1>7 DEF Next, Rx

LEMMA InvAlways == Spec => [](TypeInv /\ StepInv)
<1>1. Init => TypeInv /\ StepInv
  <2> SUFFICES ASSUME Init  PROVE TypeInv /\ StepInv
    OBVIOUS
  <2>1. TypeInv
    BY TypesInit
  <2>2. air = <<>> /\ fw.seqno["atc"] = 1
        /\ (port["atc"].state = "idle" \/ port["atc"].next_seqno = 1)
    BY DEF Init, Fresh, Ports
  <2>3. Numbered(1, <<>>, 1)
    <3>1. <<>> \in Seq(AirPackets) /\ \A i \in 1..Len(<<>>) : FALSE
      BY EmptySeq
    <3> QED
      BY <3>1, NumberedNone
  <2> QED
    BY <2>1, <2>2, <2>3 DEF StepInv
<1> QED
  BY <1>1, TypesNext, StepNext, PTL DEF Spec

\* The AT port expects the number the firmware gives the next packet, whatever
\* the sizes and the events: the RX thread drops no packet as lost that was not
\* lost (skw_sdio_rx.c), until the port is deaf.
THEOREM StepKept == Spec => []InStep
<1>1. TypeInv /\ StepInv => InStep
  <2> SUFFICES ASSUME TypeInv, StepInv, port["atc"].state = "open", "deaf" \notin odd
               PROVE  port["atc"].next_seqno + Waiting("atc") = fw.seqno["atc"]
    BY DEF InStep
  <2>1. Numbered(port["atc"].next_seqno, air, fw.seqno["atc"])
    BY DEF StepInv
  <2>2. Waiting("atc") = CountTo(air, Len(air) + 1)
    <3>1. DOMAIN air = 1..((Len(air) + 1) - 1)
      BY DEF TypeInv
    <3> QED
      BY <3>1 DEF Waiting, CountTo, CountedTo, AtcData
  <2> QED
    BY <2>1, <2>2 DEF Numbered
<1> QED
  BY <1>1, InvAlways, PTL
-----------------------------------------------------------------------------
(* The ring holds the stream.                                              *)

\* The bytes between two places of a buffer.
UsedOf(q) == (Length + q.wp - q.rp) % Length
ContentOf(q, r) == [i \in 1..UsedOf(q) |-> r[(q.rp + i - 1) % Length]]

LEMMA PlaceOnce ==
  ASSUME NEW r \in Slots, NEW a \in Slots, NEW b \in Slots, Place(r + a) = Place(r + b)
  PROVE  a = b
BY DEF Place, Slots

\* Where a packet is put, counted from the first byte not read.
Behind(rp, wp, n, len) ==
  /\ Place(wp + len) = Place(rp + (n + len))
  /\ \A i \in 1..len : /\ Place(rp + (n + (i - 1))) \in Slots
                      /\ Place(wp + (i - 1)) = Place(rp + (n + (i - 1)))
  /\ \A i \in 1..n : Place(rp + (i - 1)) \in Slots
  /\ \A i \in 1..n, k \in 1..len : Place(rp + (i - 1)) # Place(wp + (k - 1))
  /\ \A i, k \in 1..len : Place(rp + (n + (i - 1))) = Place(wp + (k - 1)) => k = i

LEMMA PlacesBehind ==
  ASSUME NEW rp \in Slots, NEW n \in Slots, NEW len \in Nat, n + len \in Slots
  PROVE  Behind(rp, Place(rp + n), n, len)
<1>1. Length \in Nat \ {0}
  OBVIOUS
<1>2. Place(Place(rp + n) + len) = Place(rp + (n + len))
  BY <1>1 DEF Place, Slots
<1>3. \A i \in 1..len : /\ Place(rp + (n + (i - 1))) \in Slots
                       /\ Place(Place(rp + n) + (i - 1)) = Place(rp + (n + (i - 1)))
  BY <1>1 DEF Place, Slots
<1>4. \A i \in 1..n : Place(rp + (i - 1)) \in Slots
  BY <1>1 DEF Place, Slots
<1>5. \A i \in 1..n, k \in 1..len : Place(rp + (i - 1)) # Place(Place(rp + n) + (k - 1))
  BY <1>1 DEF Place, Slots
<1>6. \A i, k \in 1..len :
         Place(rp + (n + (i - 1))) = Place(Place(rp + n) + (k - 1)) => k = i
  BY <1>1 DEF Place, Slots
<1> QED
  BY <1>2, <1>3, <1>4, <1>5, <1>6 DEF Behind

\* What is left when the first bytes are read.
Left(rp, wp, u, n) ==
  /\ n \in Slots /\ u \in Nat /\ u - n \in Slots /\ u - n \in Nat
  /\ Place(rp + n) \in Slots
  /\ Place(Place(rp + n) + (u - n)) = wp
  /\ Place(rp + n) = wp => n = u
  /\ \A i \in 1..(u - n) :
        /\ n + i \in 1..u /\ (n + i) - 1 = n + (i - 1)
        /\ Place(rp + (n + (i - 1))) \in Slots
        /\ Place(Place(rp + n) + (i - 1)) = Place(rp + (n + (i - 1)))
        /\ \A k \in 0..(n - 1) : Place(rp + (n + (i - 1))) # Place(rp + k)

LEMMA PlacesLeft ==
  ASSUME NEW rp \in Slots, NEW u \in Slots, NEW n \in 1..u
  PROVE  Left(rp, Place(rp + u), u, n)
<1>1. Length \in Nat \ {0}
  OBVIOUS
<1>2. n \in Slots /\ u \in Nat /\ u - n \in Slots /\ u - n \in Nat
  BY <1>1 DEF Slots
<1>3. /\ Place(rp + n) \in Slots /\ Place(Place(rp + n) + (u - n)) = Place(rp + u)
      /\ Place(rp + n) = Place(rp + u) => n = u
  BY <1>1 DEF Place, Slots
<1>4. ASSUME NEW i \in 1..(u - n)
      PROVE  /\ n + i \in 1..u /\ (n + i) - 1 = n + (i - 1)
             /\ Place(rp + (n + (i - 1))) \in Slots
             /\ Place(Place(rp + n) + (i - 1)) = Place(rp + (n + (i - 1)))
             /\ \A k \in 0..(n - 1) : Place(rp + (n + (i - 1))) # Place(rp + k)
  <2>1. n + i \in 1..u /\ (n + i) - 1 = n + (i - 1)
    BY <1>1 DEF Slots
  <2>2. /\ Place(rp + (n + (i - 1))) \in Slots
        /\ Place(Place(rp + n) + (i - 1)) = Place(rp + (n + (i - 1)))
    BY <1>1 DEF Place, Slots
  <2>3. \A k \in 0..(n - 1) : Place(rp + (n + (i - 1))) # Place(rp + k)
    BY <1>1 DEF Place, Slots
  <2> QED
    BY <2>1, <2>2, <2>3
<1> QED
  BY <1>2, <1>3, <1>4 DEF Left

LEMMA PlaceIs ==
  ASSUME NEW r \in Slots, NEW a \in Slots
  PROVE  (r + a) % Length = Place(r + a) /\ Place(r + a) \in Slots
<1>1. r + a \in 0..(2 * Length - 1)
  BY DEF Slots
<1> QED
  BY <1>1, ModIs

LEMMA UsedOfIs ==
  ASSUME NEW q \in Channel
  PROVE  /\ q.rp \in Slots /\ q.wp \in Slots /\ UsedOf(q) \in Slots
         /\ UsedOf(q) = IF q.rp <= q.wp THEN q.wp - q.rp ELSE Length + q.wp - q.rp
         /\ Place(q.rp + UsedOf(q)) = q.wp
<1>1. q.rp \in Slots /\ q.wp \in Slots
  BY DEF Channel
<1>2. /\ UsedOf(q) \in Slots
      /\ UsedOf(q) = IF q.rp <= q.wp THEN q.wp - q.rp ELSE Length + q.wp - q.rp
  BY <1>1, DistanceIs DEF UsedOf
<1>3. Place(q.rp + UsedOf(q)) = q.wp
  BY <1>1, <1>2 DEF Place, Slots
<1> QED
  BY <1>1, <1>2, <1>3

LEMMA ContentOfIs ==
  ASSUME NEW q \in Channel, NEW r \in [Slots -> Bytes]
  PROVE  /\ ContentOf(q, r) \in Seq(Bytes) /\ Len(ContentOf(q, r)) = UsedOf(q)
         /\ UsedOf(q) \in Nat
         /\ \A i \in 1..UsedOf(q) : ContentOf(q, r)[i] = r[Place(q.rp + (i - 1))]
<1>1. UsedOf(q) \in Slots /\ q.rp \in Slots /\ UsedOf(q) \in Nat
  BY UsedOfIs DEF Slots
<1>2. \A i \in 1..UsedOf(q) : /\ i - 1 \in Slots /\ q.rp + i - 1 = q.rp + (i - 1)
  BY <1>1 DEF Slots
<1>3. \A i \in 1..UsedOf(q) : /\ (q.rp + i - 1) % Length = Place(q.rp + (i - 1))
                             /\ Place(q.rp + (i - 1)) \in Slots
  BY <1>1, <1>2, PlaceIs
<1>4. ContentOf(q, r) = [i \in 1..UsedOf(q) |-> r[Place(q.rp + (i - 1))]]
  BY <1>3 DEF ContentOf
<1>5. \A i \in 1..UsedOf(q) : r[Place(q.rp + (i - 1))] \in Bytes
  BY <1>3
<1> QED
  BY <1>1, <1>4, <1>5

\* A packet goes behind what is there.
CopiedTo(r, wp, seqno, len) ==
  [j \in Slots |-> IF \E i \in 1..len : j = Place(wp + (i - 1))
                   THEN <<seqno, CHOOSE i \in 1..len : j = Place(wp + (i - 1))>> ELSE r[j]]

Accepts(q, r, seqno, len, q2, r2) ==
  /\ UsedOf(q) + len \in Slots
  /\ q2.rp = q.rp /\ q2.wp = Place(q.wp + len) /\ r2 = CopiedTo(r, q.wp, seqno, len)

\* Concatenation as an operator of its own, for the instances of AcceptedIs.
Joined(s, t) == s \o t

LEMMA AcceptedIs ==
  ASSUME NEW q \in Channel, NEW r \in [Slots -> Bytes], NEW seqno \in Nat, NEW len \in Nat \ {0},
         NEW q2 \in Channel, NEW r2 \in [Slots -> Bytes], Accepts(q, r, seqno, len, q2, r2)
  PROVE  ContentOf(q2, r2) = Joined(ContentOf(q, r), Packet(seqno, len))
<1> /\ UsedOf(q) + len \in Slots
    /\ q2.rp = q.rp /\ q2.wp = Place(q.wp + len) /\ r2 = CopiedTo(r, q.wp, seqno, len)
  BY DEF Accepts
<1> DEFINE n == UsedOf(q)
<1>1. /\ q.rp \in Slots /\ q.wp \in Slots /\ n \in Slots /\ n + len \in Slots
      /\ n \in Nat /\ len \in Nat /\ Place(q.rp + n) = q.wp
  BY UsedOfIs DEF Slots
<1> HIDE DEF n
<1>2. /\ Place(q.wp + len) = Place(q.rp + (n + len))
      /\ \A i \in 1..len : /\ Place(q.rp + (n + (i - 1))) \in Slots
                          /\ Place(q.wp + (i - 1)) = Place(q.rp + (n + (i - 1)))
      /\ \A i \in 1..n : Place(q.rp + (i - 1)) \in Slots
      /\ \A i \in 1..n, k \in 1..len : Place(q.rp + (i - 1)) # Place(q.wp + (k - 1))
      /\ \A i, k \in 1..len :
            Place(q.rp + (n + (i - 1))) = Place(q.wp + (k - 1)) => k = i
  <2>1. Behind(q.rp, Place(q.rp + n), n, len)
    BY <1>1, PlacesBehind
  <2>2. Behind(q.rp, q.wp, n, len)
    BY <1>1, <2>1
  <2> QED
    BY <2>2 DEF Behind
<1>3. UsedOf(q2) = n + len
  <2>1. q2.wp = Place(q2.rp + UsedOf(q2)) /\ UsedOf(q2) \in Slots
    BY UsedOfIs
  <2>2. Place(q.rp + (n + len)) = Place(q.rp + UsedOf(q2))
    BY <1>2, <2>1
  <2> QED
    BY <1>1, <2>1, <2>2, PlaceOnce
<1>6. ASSUME NEW i \in 1..n  PROVE r2[Place(q.rp + (i - 1))] = r[Place(q.rp + (i - 1))]
  BY <1>2 DEF CopiedTo
<1>7. ASSUME NEW i \in 1..len  PROVE r2[Place(q.rp + (n + (i - 1)))] = <<seqno, i>>
  <2> DEFINE j == Place(q.rp + (n + (i - 1)))
  <2>1. j \in Slots /\ j = Place(q.wp + (i - 1))
    BY <1>2
  <2>2. \A k \in 1..len : j = Place(q.wp + (k - 1)) => k = i
    BY <1>2
  <2> HIDE DEF j
  <2>3. (CHOOSE k \in 1..len : j = Place(q.wp + (k - 1))) = i
    BY <2>1, <2>2
  <2>4. r2[j] = <<seqno, CHOOSE k \in 1..len : j = Place(q.wp + (k - 1))>>
    BY <2>1 DEF CopiedTo
  <2> QED
    BY <2>3, <2>4 DEF j
<1> DEFINE old == ContentOf(q, r)
           new == ContentOf(q2, r2)
           packet == Packet(seqno, len)
<1>8. /\ old \in Seq(Bytes) /\ Len(old) = n
      /\ \A i \in 1..n : old[i] = r[Place(q.rp + (i - 1))]
  BY ContentOfIs DEF n
<1>9. /\ new \in Seq(Bytes) /\ Len(new) = n + len
      /\ \A i \in 1..(n + len) : new[i] = r2[Place(q.rp + (i - 1))]
  <2>1. /\ new \in Seq(Bytes) /\ Len(new) = UsedOf(q2)
        /\ \A i \in 1..UsedOf(q2) : new[i] = r2[Place(q2.rp + (i - 1))]
    BY ContentOfIs
  <2> HIDE DEF new
  <2> QED
    BY <1>3, <2>1
<1>10. /\ packet \in Seq(Bytes) /\ Len(packet) = len
       /\ \A i \in 1..len : packet[i] = <<seqno, i>>
  <2>1. \A i \in 1..len : <<seqno, i>> \in Bytes
    BY DEF Bytes
  <2> QED
    BY <2>1 DEF Packet
<1> HIDE DEF old, new, packet
<1>11. /\ old \o packet \in Seq(Bytes) /\ Len(old \o packet) = n + len
       /\ \A i \in 1..(n + len) : (old \o packet)[i] = IF i <= n THEN old[i] ELSE packet[i - n]
  <2>1. /\ old \o packet \in Seq(Bytes) /\ Len(old \o packet) = Len(old) + Len(packet)
        /\ \A i \in 1..(Len(old) + Len(packet)) :
              (old \o packet)[i] = IF i <= Len(old) THEN old[i] ELSE packet[i - Len(old)]
    BY <1>8, <1>10, ConcatProperties
  <2> QED
    BY <1>8, <1>10, <2>1
<1>12. ASSUME NEW i \in 1..(n + len)  PROVE new[i] = (old \o packet)[i]
  <2>1. CASE i <= n
    <3>1. i \in 1..n /\ i \in 1..(n + len)
      BY <1>1, <2>1
    <3>2. new[i] = r2[Place(q.rp + (i - 1))]
      BY <1>9, <3>1
    <3>3. (old \o packet)[i] = r[Place(q.rp + (i - 1))]
      BY <1>8, <1>11, <2>1, <3>1
    <3> QED
      BY <1>6, <3>1, <3>2, <3>3
  <2>2. CASE ~(i <= n)
    <3>1. i - n \in 1..len /\ n + ((i - n) - 1) = i - 1
      BY <1>1, <2>2
    <3>2. r2[Place(q.rp + (i - 1))] = <<seqno, i - n>>
      BY <1>7, <3>1
    <3> QED
      BY <1>9, <1>10, <1>11, <2>2, <3>1, <3>2
  <2> QED
    BY <2>1, <2>2
<1>13. new = old \o packet
  BY <1>9, <1>11, <1>12, SeqEqual
<1> QED
  BY <1>13 DEF old, new, packet, Joined

\* A read takes the first bytes and leaves the others, across the end of the
\* ring and the reset of an empty one.
GotFrom(r, rp, n) == [i \in 1..n |-> r[Place(rp + (i - 1))]]
FreedFrom(r, rp, n) ==
  [j \in Slots |-> IF j \in {Place(rp + i) : i \in 0..(n - 1)} THEN Free ELSE r[j]]

LEMMA TakenIs ==
  ASSUME NEW q \in Channel, NEW r \in [Slots -> Bytes], NEW n \in 1..UsedOf(q),
         NEW q2 \in Channel,
         q2.rp = IF Place(q.rp + n) = q.wp THEN 0 ELSE Place(q.rp + n),
         q2.wp = IF Place(q.rp + n) = q.wp THEN 0 ELSE q.wp,
         NEW r2 \in [Slots -> Bytes], r2 = FreedFrom(r, q.rp, n)
  PROVE  /\ GotFrom(r, q.rp, n) = SubSeq(ContentOf(q, r), 1, n)
         /\ ContentOf(q2, r2) = SubSeq(ContentOf(q, r), n + 1, UsedOf(q))
<1> DEFINE u == UsedOf(q)
           old == ContentOf(q, r)
           new == ContentOf(q2, r2)
<1>0. /\ q.rp \in Slots /\ q.wp \in Slots /\ u \in Slots /\ Place(q.rp + u) = q.wp /\ n \in 1..u
  BY UsedOfIs
<1>1. /\ n \in Slots /\ u \in Nat /\ u - n \in Slots /\ u - n \in Nat
      /\ Place(q.rp + n) \in Slots
      /\ Place(Place(q.rp + n) + (u - n)) = q.wp
      /\ Place(q.rp + n) = q.wp => n = u
      /\ \A i \in 1..(u - n) :
            /\ n + i \in 1..u /\ (n + i) - 1 = n + (i - 1)
            /\ Place(q.rp + (n + (i - 1))) \in Slots
            /\ Place(Place(q.rp + n) + (i - 1)) = Place(q.rp + (n + (i - 1)))
            /\ \A k \in 0..(n - 1) : Place(q.rp + (n + (i - 1))) # Place(q.rp + k)
  <2>1. Left(q.rp, Place(q.rp + u), u, n)
    BY <1>0, PlacesLeft
  <2>2. Left(q.rp, q.wp, u, n)
    BY <1>0, <2>1
  <2> QED
    BY <2>2 DEF Left
<1>2. /\ old \in Seq(Bytes) /\ Len(old) = u
      /\ \A i \in 1..u : old[i] \in Bytes /\ old[i] = r[Place(q.rp + (i - 1))]
  <2>1. /\ old \in Seq(Bytes) /\ Len(old) = u
        /\ \A i \in 1..u : old[i] = r[Place(q.rp + (i - 1))]
    BY ContentOfIs
  <2> QED
    BY <2>1, ElementOfSeq
<1>3. /\ new \in Seq(Bytes) /\ Len(new) = UsedOf(q2) /\ UsedOf(q2) \in Slots
      /\ \A i \in 1..UsedOf(q2) : new[i] = r2[Place(q2.rp + (i - 1))]
  BY ContentOfIs, UsedOfIs
<1>4. n \in 1..u
  OBVIOUS
<1> HIDE DEF u, old, new
<1>5. [i \in 1..n |-> r[Place(q.rp + (i - 1))]] = SubSeq(old, 1, n)
  <2> DEFINE got == [i \in 1..n |-> r[Place(q.rp + (i - 1))]]
             sub == SubSeq(old, 1, n)
  <2>1. /\ n \in Nat /\ \A i \in 1..n : i \in 1..u /\ old[i] \in Bytes
    BY <1>1, <1>2, <1>4
  <2>2. /\ sub \in Seq(Bytes) /\ Len(sub) = n /\ \A i \in 1..n : sub[i] = old[i]
    BY <2>1, SubSeqProperties
  <2>3. \A i \in 1..n : r[Place(q.rp + (i - 1))] = old[i]
    BY <1>2, <2>1
  <2>4. got \in Seq(Bytes) /\ Len(got) = n /\ \A i \in 1..n : got[i] = old[i]
    BY <2>1, <2>3
  <2> HIDE DEF got, sub
  <2>5. got = sub
    BY <2>2, <2>4, SeqEqual
  <2> QED
    BY <2>5 DEF got, sub
<1>6. new = SubSeq(old, n + 1, u)
  <2> DEFINE sub == SubSeq(old, n + 1, u)
             e == Place(q.rp + n)
  <2>1. /\ sub \in Seq(Bytes) /\ Len(sub) = u - n
        /\ \A i \in 1..(u - n) : sub[i] = old[n + i]
    <3>1. /\ n + 1 \in Int /\ u \in Int /\ \A i \in (n + 1)..u : i \in 1..u /\ old[i] \in Bytes
          /\ u - (n + 1) + 1 = u - n /\ (n + 1 <= u \/ u - n = 0)
      BY <1>1, <1>2, <1>4
    <3>2. /\ sub \in Seq(Bytes) /\ Len(sub) = IF n + 1 <= u THEN u - (n + 1) + 1 ELSE 0
          /\ \A i \in 1..(u - (n + 1) + 1) : sub[i] = old[(n + 1) + i - 1]
      BY <3>1, SubSeqProperties
    <3>3. \A i \in 1..(u - n) : (n + 1) + i - 1 = n + i
      BY <1>1
    <3> HIDE DEF sub
    <3>4. Len(sub) = u - n
      BY <3>1, <3>2
    <3> QED
      BY <3>1, <3>2, <3>3, <3>4
  <2> HIDE DEF sub
  <2>2. CASE e = q.wp
    <3>1. n = u
      BY <1>1, <2>2
    <3>2. UsedOf(q2) = 0
      <4>1. q2.rp = 0 /\ q2.wp = 0
        BY <2>2
      <4> QED
        BY <4>1, UsedOfIs
    <3>3. u - n = 0
      BY <1>1, <3>1
    <3> QED
      BY <1>3, <2>1, <3>2, <3>3, SeqEqual DEF sub
  <2>3. CASE e # q.wp
    <3>1. q2.rp = e /\ q2.wp = q.wp /\ e \in Slots
      BY <1>1, <2>3
    <3>3. Place(e + (u - n)) = Place(e + UsedOf(q2))
      BY <1>1, <3>1, UsedOfIs
    <3>4. UsedOf(q2) = u - n
      BY <1>1, <1>3, <3>1, <3>3, PlaceOnce
    <3>5. ASSUME NEW i \in 1..(u - n)  PROVE new[i] = sub[i]
      <4> DEFINE j == Place(q.rp + (n + (i - 1)))
      <4>1. /\ n + i \in 1..u /\ (n + i) - 1 = n + (i - 1) /\ j \in Slots /\ Place(e + (i - 1)) = j
            /\ \A k \in 0..(n - 1) : j # Place(q.rp + k)
        BY <1>1
      <4>2. old[n + i] = r[Place(q.rp + ((n + i) - 1))]
        BY <1>2, <4>1
      <4>3. old[n + i] = r[j]
        BY <4>1, <4>2
      <4>4. new[i] = r2[Place(e + (i - 1))]
        BY <1>3, <3>1, <3>4
      <4> HIDE DEF j
      <4>5. r2[j] = r[j]
        BY <4>1 DEF FreedFrom
      <4> QED
        BY <2>1, <4>1, <4>3, <4>4, <4>5
    <3>6. Len(new) = Len(sub) /\ \A i \in 1..Len(new) : new[i] = sub[i]
      BY <1>3, <2>1, <3>4, <3>5
    <3>7. new = sub
      BY <1>3, <2>1, <3>6, SeqEqual
    <3> QED
      BY <3>7 DEF sub
  <2> QED
    BY <2>2, <2>3
<1> QED
  BY <1>5, <1>6 DEF u, old, new, GotFrom
-----------------------------------------------------------------------------
(* The ports as streams: each step is one of PortStream, or leaves it alone. *)

queue == [p \in Ports |-> Content(p)]
got == [p \in Ports |-> reader[p].got]
open == [p \in Ports |-> port[p].state = "open"]

LEMMA ContentIs ==
  ASSUME NEW p \in Ports
  PROVE  /\ queue[p] = ContentOf(port[p], ring[p]) /\ queue'[p] = ContentOf(port'[p], ring'[p])
         /\ DOMAIN queue = Ports /\ DOMAIN queue' = Ports
BY DEF queue, Content, ContentOf, Used, UsedOf

\* A step that moves no byte and answers no reader.
LEMMA TurnStep ==
  ASSUME ring' = ring, \A p \in Ports : /\ port'[p].wp = port[p].wp /\ port'[p].rp = port[p].rp
                                       /\ reader'[p].got = reader[p].got
  PROVE  Stream!Next
<1>1. \A p \in Ports : ContentOf(port'[p], ring'[p]) = ContentOf(port[p], ring[p])
  BY DEF ContentOf, UsedOf
<1>2. queue' = queue
  <2>1. \A p \in Ports : queue'[p] = queue[p]
    BY <1>1, ContentIs
  <2> QED
    BY <2>1 DEF queue
<1>3. got' = got
  BY DEF got
<1>4. open' \in [Ports -> BOOLEAN]
  BY DEF open
<1> QED
  BY <1>2, <1>3, <1>4 DEF Stream!Next, Stream!Turn, queue, got, open

LEMMA OpenStep ==
  ASSUME TypeInv, TypeInv', NEW p \in Ports, Open(p)
  PROVE  Stream!Clear(p)
<1>1. port[p].state # "open" /\ port' = [port EXCEPT ![p] = Fresh] /\ reader' = reader
      /\ ring' = [ring EXCEPT ![p] = [i \in Slots |-> Free]]
  BY DEF Open, Slots
<1>2. /\ port \in [Ports -> Channel] /\ ring \in [Ports -> [Slots -> Bytes]]
      /\ port' \in [Ports -> Channel] /\ ring' \in [Ports -> [Slots -> Bytes]]
  BY DEF TypeInv
<1>3. queue'[p] = <<>>
  <2>1. port'[p] = Fresh /\ port'[p] \in Channel /\ Fresh.wp = 0 /\ Fresh.rp = 0
    BY <1>1, <1>2 DEF Fresh
  <2>2. UsedOf(port'[p]) = 0
    BY <2>1, UsedOfIs
  <2>3. ContentOf(port'[p], ring'[p]) = <<>>
    BY <2>2 DEF ContentOf
  <2> QED
    BY <2>3, ContentIs
<1>4. \A q \in Ports : q # p => queue'[q] = queue[q]
  BY <1>1, <1>2, ContentIs
<1>5. queue' = [queue EXCEPT ![p] = <<>>]
  BY <1>3, <1>4 DEF queue
<1>6. ~open[p] /\ open' = [open EXCEPT ![p] = TRUE]
  BY <1>1, <1>2 DEF open, Fresh
<1>7. got' = got
  BY <1>1 DEF got
<1> QED
  BY <1>5, <1>6, <1>7 DEF Stream!Clear, queue, got, open

LEMMA ReadStep ==
  ASSUME TypeInv, TypeInv', NEW p \in Ports, Read(p)
  PROVE  Stream!Ask(p)
<1>1. /\ port \in [Ports -> Channel] /\ reader \in [Ports -> Readers] /\ ring' = ring
      /\ port[p] \in Channel
  BY DEF Read, TypeInv
<1>2. \/ port' = port \/ port' = [port EXCEPT ![p].state = "open"]
      \/ port[p].state = "clse" /\ port' = [port EXCEPT ![p].state = "idle"]
  BY DEF Read, AfterAssert
<1>3. got' = [got EXCEPT ![p] = <<>>]
  <2>1. \E size, pc : reader' = [reader EXCEPT ![p] = [pc |-> pc, size |-> size, got |-> <<>>, ftl |-> {}]]
    BY DEF Read
  <2>2. PICK size, pc : reader' = [reader EXCEPT ![p] = [pc |-> pc, size |-> size, got |-> <<>>, ftl |-> {}]]
    BY <2>1
  <2>3. \A q \in Ports : reader'[q].got = IF q = p THEN <<>> ELSE reader[q].got
    BY <1>1, <2>2
  <2> QED
    BY <2>3 DEF got
<1>4. open' = open \/ open' = [open EXCEPT ![p] = TRUE]
  <2>1. CASE port' = port
    BY <2>1 DEF open
  <2>2. CASE port' = [port EXCEPT ![p].state = "open"]
    <3>1. \A q \in Ports : port'[q] = IF q = p THEN [port[p] EXCEPT !.state = "open"] ELSE port[q]
      BY <1>1, <2>2
    <3>2. \A q \in Ports : port'[q].state = IF q = p THEN "open" ELSE port[q].state
      BY <1>1, <3>1 DEF Channel
    <3> QED
      BY <3>2 DEF open
  <2>3. CASE port[p].state = "clse" /\ port' = [port EXCEPT ![p].state = "idle"]
    <3>1. \A q \in Ports : port'[q] = IF q = p THEN [port[p] EXCEPT !.state = "idle"] ELSE port[q]
      BY <1>1, <2>3
    <3>2. \A q \in Ports : port'[q].state = IF q = p THEN "idle" ELSE port[q].state
      BY <1>1, <3>1 DEF Channel
    <3> QED
      BY <2>3, <3>2 DEF open
  <2> QED
    BY <1>2, <2>1, <2>2, <2>3
<1>5. queue' = queue
  <2>1. \A q \in Ports : port'[q].wp = port[q].wp /\ port'[q].rp = port[q].rp
    BY <1>1, <1>2 DEF Channel
  <2>2. \A q \in Ports : ContentOf(port'[q], ring'[q]) = ContentOf(port[q], ring[q])
    BY <1>1, <2>1 DEF ContentOf, UsedOf
  <2>3. \A q \in Ports : queue'[q] = queue[q]
    BY <2>2, ContentIs
  <2> QED
    BY <2>3 DEF queue
<1> QED
  BY <1>3, <1>4, <1>5 DEF Stream!Ask, queue, got, open

LEMMA TakesStep ==
  ASSUME TypeInv, TypeInv', NEW p \in Ports, ReadTakes(p), Used(p) # 0
  PROVE  Stream!Read(p)
<1> DEFINE n == LowerOf(reader[p].size, Used(p))
           e == Place(port[p].rp + n)
           q == port[p]
           q2 == port'[p]
<1>1. n \in 1..Used(p) /\ ring' = Freed(p, n)
  BY ReadTakesIs
<1>2. PICK pc \in {"fread", "idle"} :
          reader' = [reader EXCEPT ![p].pc = pc, ![p].got = Got(p, n)]
  BY ReadTakesIs
<1>3. PICK flow \in BOOLEAN :
          port' = [port EXCEPT ![p].rp = IF e = port[p].wp THEN 0 ELSE e,
                               ![p].wp = IF e = port[p].wp THEN 0 ELSE @,
                               ![p].rx_flow_ctrl = flow]
  BY ReadTakesIs
<1> HIDE DEF n
<1>4. /\ port \in [Ports -> Channel] /\ ring \in [Ports -> [Slots -> Bytes]]
      /\ port' \in [Ports -> Channel] /\ ring' \in [Ports -> [Slots -> Bytes]]
      /\ reader \in [Ports -> Readers]
      /\ q \in Channel /\ q2 \in Channel /\ ring[p] \in [Slots -> Bytes] /\ ring'[p] \in [Slots -> Bytes]
  BY DEF TypeInv
<1>5. q2 = [q EXCEPT !.rp = IF e = q.wp THEN 0 ELSE e, !.wp = IF e = q.wp THEN 0 ELSE @,
                     !.rx_flow_ctrl = flow]
  BY <1>3, <1>4
<1>6. /\ q2.rp = IF Place(q.rp + n) = q.wp THEN 0 ELSE Place(q.rp + n)
      /\ q2.wp = IF Place(q.rp + n) = q.wp THEN 0 ELSE q.wp
      /\ q2.state = q.state
  BY <1>4, <1>5 DEF Channel
<1>7. ring'[p] = FreedFrom(ring[p], q.rp, n)
  BY <1>1, <1>4 DEF Freed, FreedFrom
<1>8. Used(p) = UsedOf(q)
  BY DEF Used, UsedOf
<1>9. /\ Got(p, n) = SubSeq(ContentOf(q, ring[p]), 1, n)
      /\ ContentOf(q2, ring'[p]) = SubSeq(ContentOf(q, ring[p]), n + 1, UsedOf(q))
  <2> HIDE DEF q, q2, e
  <2>1. n \in 1..UsedOf(q)
    BY <1>1, <1>8
  <2>2. /\ GotFrom(ring[p], q.rp, n) = SubSeq(ContentOf(q, ring[p]), 1, n)
        /\ ContentOf(q2, ring'[p]) = SubSeq(ContentOf(q, ring[p]), n + 1, UsedOf(q))
    BY <1>4, <1>6, <1>7, <2>1, TakenIs
  <2> QED
    BY <2>2 DEF Got, GotFrom, q
<1>10. Len(queue[p]) = Used(p) /\ queue[p] = ContentOf(q, ring[p])
  BY <1>4, <1>8, ContentIs, ContentOfIs
<1>11. got' = [got EXCEPT ![p] = SubSeq(queue[p], 1, n)]
  <2>1. \A r \in Ports : reader'[r].got = IF r = p THEN Got(p, n) ELSE reader[r].got
    BY <1>2, <1>4 DEF Readers
  <2> QED
    BY <1>9, <1>10, <2>1 DEF got
<1>12. queue' = [queue EXCEPT ![p] = SubSeq(@, n + 1, Len(@))]
  <2>1. queue'[p] = SubSeq(queue[p], n + 1, Len(queue[p]))
    BY <1>8, <1>9, <1>10, ContentIs
  <2>2. \A r \in Ports : r # p => port'[r] = port[r] /\ ring'[r] = ring[r]
    BY <1>1, <1>3, <1>4 DEF Freed
  <2>3. \A r \in Ports : r # p => queue'[r] = queue[r]
    BY <2>2, ContentIs
  <2> QED
    BY <2>1, <2>3 DEF queue
<1>13. open' = open
  <2>1. \A r \in Ports : port'[r].state = port[r].state
    BY <1>3, <1>4, <1>6
  <2> QED
    BY <2>1 DEF open
<1>14. n \in 1..Len(queue[p])
  BY <1>1, <1>10
<1> QED
  BY <1>11, <1>12, <1>13, <1>14 DEF Stream!Read, queue, got, open

LEMMA DataStep ==
  ASSUME TypeInv, TypeInv', RxData
  PROVE  Stream!Next
<1> DEFINE d == Head(air)
           p == d.p
           q == port[p]
           q2 == port'[p]
<1>1. d \in DataPackets /\ reader' = reader
  BY RxDataIs
<1>2. /\ p \in Ports /\ d.len \in Nat \ {0} /\ d.seqno \in 1..MaxEvent
      /\ port \in [Ports -> Channel] /\ ring \in [Ports -> [Slots -> Bytes]]
      /\ port' \in [Ports -> Channel] /\ ring' \in [Ports -> [Slots -> Bytes]]
  BY <1>1 DEF DataPackets, TypeInv
<1>3. CASE UNCHANGED <<port, ring>>
  BY <1>1, <1>3, TurnStep
<1>4. CASE Drop(p) /\ ring' = ring
  <2>1. \A r \in Ports : port'[r] = IF r = p THEN [port[r] EXCEPT !.next_seqno = @ + 1] ELSE port[r]
    BY <1>2, <1>4 DEF Drop
  <2>2. \A r \in Ports : port'[r].wp = port[r].wp /\ port'[r].rp = port[r].rp
    BY <1>2, <2>1 DEF Channel
  <2> QED
    BY <1>1, <1>4, <2>2, TurnStep
<1>5. ASSUME NEW stops \in BOOLEAN, d.len <= RoomIn(p), ring' = Copied(p, d),
             port' = [port EXCEPT ![p].next_seqno = @ + 1,
                                  ![p].wp = Place(port[p].wp + d.len),
                                  ![p].rx_flow_ctrl = @ \/ stops]
      PROVE  Stream!Accept(p)
  <2>1. /\ q \in Channel /\ q2 \in Channel
        /\ ring[p] \in [Slots -> Bytes] /\ ring'[p] \in [Slots -> Bytes]
    BY <1>2
  <2>2. q2 = [q EXCEPT !.next_seqno = @ + 1, !.wp = Place(q.wp + d.len), !.rx_flow_ctrl = @ \/ stops]
    BY <1>2, <1>5
  <2>3. q2.rp = q.rp /\ q2.wp = Place(q.wp + d.len) /\ q2.state = q.state
    BY <2>1, <2>2 DEF Channel
  <2>4. ring'[p] = CopiedTo(ring[p], q.wp, d.seqno, d.len)
    BY <1>2, <1>5 DEF Copied, CopiedTo
  <2>5. Used(p) = UsedOf(q) /\ Used(p) \in Nat
    BY <2>1, UsedOfIs DEF Used, UsedOf, Slots
  <2>6. UsedOf(q) + d.len \in Slots /\ d.len \in 1..(Length - 1) /\ Used(p) + d.len <= Length - 1
    <3>1. /\ d.len \in Nat \ {0} /\ d.len <= Length - 1 - Used(p) /\ Used(p) \in Nat
          /\ UsedOf(q) = Used(p)
      BY <1>2, <1>5, <2>5 DEF RoomIn
    <3> HIDE DEF q, d, p
    <3> QED
      BY <3>1 DEF Slots
  <2>7. ContentOf(q2, ring'[p]) = ContentOf(q, ring[p]) \o Packet(d.seqno, d.len)
    <3>1. d.seqno \in Nat /\ d.len \in Nat \ {0}
      BY <1>2
    <3> DEFINE old == ring[p]
               new == ring'[p]
    <3>2. SUFFICES ASSUME NEW s \in Nat, s = d.seqno, NEW l \in Nat \ {0}, l = d.len
                   PROVE  ContentOf(q2, new) = Joined(ContentOf(q, old), Packet(s, l))
      BY <3>1 DEF Joined
    <3>3. /\ q \in Channel /\ q2 \in Channel /\ old \in [Slots -> Bytes] /\ new \in [Slots -> Bytes]
          /\ Accepts(q, old, s, l, q2, new)
      BY <2>1, <2>3, <2>4, <2>6, <3>2 DEF Accepts
    <3> HIDE DEF q, q2, old, new
    <3> QED
      BY <3>3, AcceptedIs
  <2> DEFINE packet == Packet(d.seqno, d.len)
  <2>8. packet \in Stream!Packets /\ Len(packet) = d.len
    <3>1. Stream!Packet(d.seqno, d.len) \in Stream!Packets
      BY <1>2, <2>6 DEF Stream!Packets
    <3>2. Stream!Packet(d.seqno, d.len) = packet
      BY DEF Stream!Packet, Packet
    <3>3. Len(packet) = d.len
      BY <1>2 DEF Packet
    <3> QED
      BY <3>1, <3>2, <3>3
  <2>9. Len(queue[p]) = Used(p) /\ queue[p] = ContentOf(q, ring[p])
    <3>1. Len(ContentOf(q, ring[p])) = UsedOf(q)
      BY <2>1, ContentOfIs
    <3> QED
      BY <1>2, <2>5, <3>1, ContentIs
  <2> HIDE DEF packet
  <2>10. Len(queue[p]) + Len(packet) <= Length - 1
    BY <2>6, <2>8, <2>9
  <2>11. queue' = [queue EXCEPT ![p] = @ \o packet]
    <3>1. queue'[p] = queue[p] \o packet
      BY <1>2, <2>7, <2>9, ContentIs DEF packet
    <3>2. \A r \in Ports : r # p => port'[r] = port[r] /\ ring'[r] = ring[r]
      BY <1>2, <1>5 DEF Copied
    <3>3. \A r \in Ports : r # p => queue'[r] = queue[r]
      BY <3>2, ContentIs
    <3> QED
      BY <1>2, <3>1, <3>3 DEF queue
  <2>12. open' = open
    <3>1. \A r \in Ports : port'[r].state = port[r].state
      BY <1>2, <1>5, <2>3
    <3> QED
      BY <3>1 DEF open
  <2>13. got' = got
    BY <1>1 DEF got
  <2> HIDE DEF p, d
  <2> QED
    BY <2>8, <2>10, <2>11, <2>12, <2>13 DEF Stream!Accept, queue, got, open
<1>6. \/ UNCHANGED <<port, ring>>
      \/ Drop(p) /\ ring' = ring
      \/ /\ d.len <= RoomIn(p) /\ ring' = Copied(p, d)
         /\ \E stops \in BOOLEAN :
               port' = [port EXCEPT ![p].next_seqno = @ + 1, ![p].wp = Place(port[p].wp + d.len),
                                    ![p].rx_flow_ctrl = @ \/ stops]
  BY RxDataIs
<1> QED
  BY <1>2, <1>3, <1>4, <1>5, <1>6 DEF Stream!Next

\* The other steps of the readers and the RX thread.
LEMMA OtherStep ==
  ASSUME TypeInv, NEW p \in Ports,
         \/ Close(p) \/ ReadTries(p) \/ ReadTests(p) \/ ReadWoken(p) \/ ReadFtl(p) \/ ReadSetsFtl(p)
         \/ (ReadTakes(p) /\ Used(p) = 0)
         \/ RxFtl \/ RxSetsFtl \/ RxCompletes \/ RxAssert \/ RxDumpDone \/ RxVersion
         \/ ExceptionWork \/ FwSends \/ FwCrashes \/ FwDumps \/ FwBoots \/ UNCHANGED vars
  PROVE  Stream!Next
<1>1. port \in [Ports -> Channel] /\ reader \in [Ports -> Readers] /\ port[p] \in Channel
      /\ reader[p] \in Readers
  BY DEF TypeInv
<1>2. ring' = ring
  BY ReadTakesIs
  DEF Close, ReadTries, ReadTests, ReadWoken, ReadFtl, ReadSetsFtl, RxFtl, RxSetsFtl, RxCompletes,
      RxAssert, RxDumpDone, RxVersion, ExceptionWork, FwSends, FwCrashes, FwDumps, FwBoots, FwOnly, vars
<1>3. \A r \in Ports : reader'[r].got = reader[r].got
  <2>1. \/ reader' = reader
        \/ \E pc : reader' = [reader EXCEPT ![p].pc = pc]
        \/ \E pc, f : reader' = [reader EXCEPT ![p].pc = pc, ![p].ftl = f]
    BY ReadTakesIs
    DEF Close, ReadTries, ReadTests, ReadWoken, ReadFtl, ReadSetsFtl, ReaderTo, RxFtl, RxSetsFtl,
        RxCompletes, RxAssert, RxDumpDone, RxVersion, ExceptionWork, RxOnly, FwSends, FwCrashes,
        FwDumps, FwBoots, FwOnly, vars
  <2>2. CASE reader' = reader
    BY <2>2
  <2>3. ASSUME NEW pc, reader' = [reader EXCEPT ![p].pc = pc]
        PROVE  \A r \in Ports : reader'[r].got = reader[r].got
    BY <1>1, <2>3 DEF Readers
  <2>4. ASSUME NEW pc, NEW f, reader' = [reader EXCEPT ![p].pc = pc, ![p].ftl = f]
        PROVE  \A r \in Ports : reader'[r].got = reader[r].got
    BY <1>1, <2>4 DEF Readers
  <2> QED
    BY <2>1, <2>2, <2>3, <2>4
<1>4. \A r \in Ports : port'[r].wp = port[r].wp /\ port'[r].rp = port[r].rp
  <2>1. CASE PortsAssert
    BY <1>1, <2>1 DEF PortsAssert, Channel
  <2>2. CASE Close(p)
    BY <1>1, <2>2 DEF Close, Channel
  <2>3. CASE ReadTries(p)
    BY <1>1, <2>3 DEF ReadTries, Channel
  <2>4. CASE ReadWoken(p)
    BY <1>1, <2>4 DEF ReadWoken, Channel
  <2>5. CASE RxCompletes
    BY <1>1, <2>5 DEF RxCompletes, TypeInv, Receivers, Channel
  <2>6. CASE RxVersion
    BY <1>1, <2>6 DEF RxVersion, Channel
  <2>7. CASE port' = port
    BY <2>7
  <2> QED
    BY <2>1, <2>2, <2>3, <2>4, <2>5, <2>6, <2>7, ReadTakesIs
    DEF ReadTests, ReadFtl, ReadSetsFtl, RxFtl, RxSetsFtl, RxAssert, RxDumpDone, ExceptionWork,
        FwSends, FwCrashes, FwDumps, FwBoots, FwOnly, vars
<1> QED
  BY <1>2, <1>3, <1>4, TurnStep

LEMMA StreamStep ==
  ASSUME TypeInv, TypeInv', [Next]_vars
  PROVE  Stream!Next
<1>1. ASSUME NEW p \in Ports, Open(p) \/ Close(p) \/ Reader(p)
      PROVE  Stream!Next
  <2>1. CASE Open(p)
    BY <2>1, OpenStep DEF Stream!Next
  <2>2. CASE Read(p)
    BY <2>2, ReadStep DEF Stream!Next
  <2>3. CASE ReadTakes(p) /\ Used(p) # 0
    BY <2>3, TakesStep DEF Stream!Next
  <2> QED
    BY <1>1, <2>1, <2>2, <2>3, OtherStep DEF Reader
<1>2. CASE RxData
  BY <1>2, DataStep
<1> QED
  BY <1>1, <1>2, OtherStep DEF Next, Rx, Ports

LEMMA StreamInit == Init => Stream!Init
<1> SUFFICES ASSUME Init  PROVE Stream!Init
  OBVIOUS
<1>1. TypeInv
  BY TypesInit
<1>2. \A p \in Ports : port[p].wp = 0 /\ port[p].rp = 0 /\ reader[p].got = <<>>
  BY DEF Init, Fresh
<1>3. ASSUME NEW p \in Ports  PROVE queue[p] = <<>>
  <2>1. port[p] \in Channel
    BY <1>1 DEF TypeInv
  <2>2. UsedOf(port[p]) = 0
    BY <1>2, <2>1, UsedOfIs
  <2>3. ContentOf(port[p], ring[p]) = <<>>
    BY <2>2 DEF ContentOf
  <2> QED
    BY <2>3, ContentIs
<1>4. queue = [p \in Ports |-> <<>>]
  BY <1>3 DEF queue
<1>5. got = [p \in Ports |-> <<>>] /\ open \in [Ports -> BOOLEAN]
  BY <1>2 DEF got, open
<1> QED
  BY <1>4, <1>5 DEF Stream!Init, queue, got, open

\* The ring buffer with its wrapped copies, its reset when it is empty and its
\* reader beside the RX thread (recv_data, skw_sdio_rx.c) is the stream of
\* whole packets of PortStream, for every length of the ring.
THEOREM Implements == Spec => IsStream
<1>1. TypeInv /\ TypeInv' /\ [Next]_vars
      => [Stream!Next]_<<[p \in Ports |-> Content(p)], [p \in Ports |-> reader[p].got],
                         [p \in Ports |-> port[p].state = "open"]>>
  BY StreamStep
<1>2. Spec => []TypeInv
  BY InvAlways, PTL
<1> QED
  BY <1>1, <1>2, StreamInit, PTL DEF Spec, IsStream, Stream!Spec
===============================================================================
