---------------------------- MODULE ModemProofs ----------------------------
(***************************************************************************)
(* Proofs about Modem for any number of starts, stops, crashes and hangs:  *)
(* the types, that a firmware that failed is watched, and that a service   *)
(* that was started is served.                                             *)
(***************************************************************************)
EXTENDS Modem, SequenceTheorems, TLAPS

USE ModemAssumption

Packets == [kind : {"ready", "exit", "assert", "dumpdone", "version"}, svc : Services]
Firmwares == [state : {"boot", "up", "dump", "dumped", "dead", "off"},
              serving : SUBSET Services, todo : SUBSET ({"start", "stop"} \X Services)]
Odds == SUBSET {"again", "stale", "untold", "crossed", "torn"}
-----------------------------------------------------------------------------
(* The types.                                                              *)

\* A reset leaves some of the packages that were on the way.
LEMMA ResetType ==
  ASSUME TypeOK, NEW state \in {"boot", "dead", "off"}, NEW what \in SUBSET {"again"},
         Reset(state, what)
  PROVE  fw' \in Firmwares /\ air' \in Seq(Packets) /\ odd' \in Odds
<1>1. PICK n \in 0..Len(air) :
        /\ air' = SubSeq(air, 1, n)
        /\ odd' = odd \cup what
                  \cup IF n > 0 \/ rx.pc \in {"ready", "version"} THEN {"stale"} ELSE {}
  BY DEF Reset
<1>2. air' \in Seq(Packets)
  <2>1. air \in Seq(Packets) /\ Len(air) \in Nat
    BY DEF TypeOK, Packets
  <2> QED
    BY <1>1, <2>1
<1>3. fw' \in Firmwares
  BY DEF Reset, Firmwares
<1> QED
  BY <1>1, <1>2, <1>3 DEF TypeOK, Odds

\* Taking the first packet.
LEMMA TakeType ==
  ASSUME TypeOK, NEW kind, Take(kind)
  PROVE  Head(air) \in Packets /\ air' \in Seq(Packets)
<1>1. air \in Seq(Packets) /\ air # <<>>
  BY DEF TypeOK, Packets, Take
<1> QED
  BY <1>1, HeadTailProperties DEF Take

LEMMA SendType ==
  ASSUME TypeOK, NEW p \in Packets, air' = Append(air, p)
  PROVE  air' \in Seq(Packets)
  BY DEF TypeOK, Packets

\* The recovery of the firmware, whether it succeeds or not.
LEMMA RecoveryType ==
  ASSUME TypeOK, RecoveryMode \/ RecoveryFails
  PROVE  /\ fw' \in Firmwares /\ air' \in Seq(Packets) /\ odd' \in Odds
         /\ power_off' \in BOOLEAN
         /\ events' \in [call : 0..MaxEvent, trouble : 0..MaxTrouble]
<1>1. CASE RecoveryMode
  <2>1. fw' \in Firmwares /\ air' \in Seq(Packets) /\ odd' \in Odds
    BY <1>1, ResetType DEF RecoveryMode
  <2> QED
    BY <1>1, <2>1 DEF RecoveryMode, TypeOK
<1>2. CASE RecoveryFails
  <2>1. fw' \in Firmwares /\ air' \in Seq(Packets) /\ odd' \in Odds
    BY <1>2, ResetType DEF RecoveryFails
  <2>2. events' \in [call : 0..MaxEvent, trouble : 0..MaxTrouble]
    BY <1>2 DEF RecoveryFails, Counts, TypeOK
  <2> QED
    BY <1>2, <2>1, <2>2 DEF RecoveryFails, TypeOK
<1> QED
  BY <1>1, <1>2

\* The end of an operation, for the one who asked for it.
LEMMA EndType ==
  ASSUME TypeOK, NEW ok \in BOOLEAN, OpEnds(ok)
  PROVE  /\ op' = NoOp /\ on' \subseteq Services
         /\ rx' \in [pc : {"idle", "ready", "assert", "clear", "tellwifi", "telling", "tellbt",
                           "unwatch", "reset", "version"},
                     svc : Services, old : SUBSET Services]
         /\ work' \in {"idle", "look", "tellwifi", "telling", "clear", "reset", "reinit", "wait"}
         /\ rx'.pc # "telling" /\ work' # "telling"
         /\ rx' = rx \/ rx'.pc \in {"idle", "tellbt"}
         /\ work' = work \/ (work = "telling" /\ work' = "clear")
<1>1. /\ rx' \in [pc : {"idle", "ready", "assert", "clear", "tellwifi", "telling", "tellbt",
                        "unwatch", "reset", "version"},
                  svc : Services, old : SUBSET Services]
      /\ rx' = rx \/ rx'.pc \in {"idle", "tellbt"}
      /\ rx'.pc # "telling"
  BY DEF OpEnds, TypeOK, RxIdle, RxAt, Services
<1>2. on' \subseteq Services /\ op' = NoOp
  BY DEF OpEnds, TypeOK
<1> QED
  BY <1>1, <1>2 DEF OpEnds, TypeOK

Operations == [by : {"none", "user", "recovery", "rx", "work"}, do : {"start", "stop"},
               svc : Services, pc : OpPlaces, old : SUBSET Services]

LEMMA OpToType ==
  ASSUME TypeOK, NEW pc \in OpPlaces, NEW old \in SUBSET Services,
         op' = [op EXCEPT !.pc = pc] \/ op' = [op EXCEPT !.pc = pc, !.old = old]
  PROVE  op' \in Operations /\ op'.by = op.by
  BY DEF TypeOK, Operations

\* Where an operation goes on to; the one who asked for it waits.
LEMMA OpGoesOn ==
  ASSUME TypeOK, NEW pc \in OpPlaces, NEW old \in SUBSET Services,
         op' = [op EXCEPT !.pc = pc] \/ op' = [op EXCEPT !.pc = pc, !.old = old],
         UNCHANGED <<cp_state, host_state, on, rx, work, armed, asserter, recovery>>,
         map' \in SUBSET Services, power_off' \in BOOLEAN, done' \in BOOLEAN,
         fw' \in Firmwares, air' \in Seq(Packets), odd' \in Odds,
         events' \in [call : 0..MaxEvent, trouble : 0..MaxTrouble]
  PROVE  TypeOK'
<1>1. op' \in Operations /\ op'.by = op.by
  BY OpToType
<1>2. (op'.by = "rx") = (rx'.pc = "telling") /\ (op'.by = "work") = (work' = "telling")
  BY <1>1 DEF TypeOK, RxAt
<1> QED
  BY <1>1, <1>2 DEF TypeOK, RxAt, Operations, Firmwares, Packets, Odds

\* An operation that ends.
LEMMA OpIsOver ==
  ASSUME TypeOK, NEW ok \in BOOLEAN, OpEnds(ok),
         UNCHANGED <<cp_state, map, host_state, armed, asserter, recovery>>,
         power_off' \in BOOLEAN, done' \in BOOLEAN,
         fw' \in Firmwares, air' \in Seq(Packets), odd' \in Odds,
         events' \in [call : 0..MaxEvent, trouble : 0..MaxTrouble]
  PROVE  TypeOK'
<1>1. op' \in Operations /\ op'.by = "none"
  BY EndType DEF NoOp, Operations, Services, OpPlaces
<1>2. (op'.by = "rx") = (rx'.pc = "telling") /\ (op'.by = "work") = (work' = "telling")
  BY <1>1, EndType
<1> QED
  BY <1>1, <1>2, EndType DEF TypeOK, RxAt, Operations, Firmwares, Packets, Odds

LEMMA OpType == TypeOK /\ Op => TypeOK'
<1> SUFFICES ASSUME TypeOK, Op PROVE TypeOK'
  OBVIOUS
<1> USE DEF OpAt, OpTo, OpOnly, Caller, host
<1>0. /\ op \in Operations /\ op.old \in SUBSET Services /\ map \in SUBSET Services
      /\ power_off \in BOOLEAN /\ done \in BOOLEAN /\ fw \in Firmwares /\ air \in Seq(Packets)
      /\ odd \in Odds
      /\ events \in [call : 0..MaxEvent, trouble : 0..MaxTrouble]
  BY DEF TypeOK, Operations, Firmwares, Packets, Odds
<1>1. CASE OpBegin
  BY <1>0, <1>1, OpGoesOn DEF OpBegin, AfterBoot, OpPlaces
<1>2. CASE OpReset
  <2>1. RecoveryMode \/ RecoveryFails
    BY <1>2 DEF OpReset
  <2>2. \E pc \in OpPlaces : op' = [op EXCEPT !.pc = pc]
    BY <1>2 DEF OpReset, AfterBoot, OpPlaces
  <2>3. UNCHANGED <<cp_state, map, host_state, done, on, rx, work, armed, asserter, recovery>>
    BY <1>2 DEF OpReset
  <2> QED
    BY <1>0, <2>1, <2>2, <2>3, RecoveryType, OpGoesOn
<1>3. CASE OpReinit
  <2>1. \E pc \in OpPlaces : op' = [op EXCEPT !.pc = pc]
    BY <1>3 DEF OpReinit, OpPlaces
  <2> QED
    BY <1>0, <1>3, <2>1, OpGoesOn DEF OpReinit
<1>4. CASE OpBooted
  <2>1. \E pc \in OpPlaces : op' = [op EXCEPT !.pc = pc]
    BY <1>4 DEF OpBooted, AfterBoot, OpPlaces
  <2> QED
    BY <1>0, <1>4, <2>1, OpGoesOn DEF OpBooted, GivesUp, Odds
<1>5. CASE OpAwaited
  BY <1>0, <1>5, OpIsOver, OpGoesOn DEF OpAwaited, OpPlaces
<1>6. CASE OpLocked
  BY <1>0, <1>6, OpGoesOn DEF OpLocked, OpPlaces
<1>7. ASSUME NEW what \in {"start", "stop"}, Command(what) PROVE fw' \in Firmwares
  BY <1>0, <1>7 DEF Command, Firmwares, Operations
<1>8. CASE OpSendStart
  <2>1. CASE cp_state # "run"
    BY <1>0, <1>8, <2>1, OpIsOver DEF OpSendStart
  <2>2. CASE cp_state = "run"
    <3>1. fw' \in Firmwares /\ odd' \in Odds
      BY <1>0, <1>7, <1>8, <2>2 DEF OpSendStart, Odds
    <3> QED
      BY <1>0, <1>8, <2>2, <3>1, OpGoesOn DEF OpSendStart, OpPlaces
  <2> QED
    BY <2>1, <2>2
<1>9. CASE OpWoken
  BY <1>0, <1>9, OpIsOver, OpGoesOn DEF OpWoken, OpPlaces
<1>10. CASE OpTimesOut
  <2>1. odd' \in Odds
    BY <1>0, <1>10 DEF OpTimesOut, GivesUp, Odds
  <2> QED
    BY <1>0, <1>10, <2>1, OpIsOver, OpGoesOn DEF OpTimesOut, OpPlaces
<1>11. CASE OpStop
  <2>1. \/ op' = [op EXCEPT !.pc = "clear", !.old = map]
        \/ op' = [op EXCEPT !.pc = "off"]
    BY <1>11 DEF OpStop
  <2> QED
    BY <1>0, <1>11, <2>1, OpGoesOn DEF OpStop, OpPlaces
<1>12. CASE OpClear
  <2>1. map' \in SUBSET Services
    BY <1>0, <1>12, Zenon DEF OpClear, Operations
  <2>2. op' = [op EXCEPT !.pc = "stop", !.old = {}] /\ {} \in SUBSET Services
    BY <1>12 DEF OpClear
  <2>3. "stop" \in OpPlaces /\ odd' \in Odds
    BY <1>0, <1>12 DEF OpPlaces, OpClear, Odds
  <2> QED
    BY <1>0, <1>12, <2>1, <2>2, <2>3, OpGoesOn DEF OpClear
<1>13. CASE OpSendStop
  <2>1. CASE cp_state # "run"
    BY <1>0, <1>13, <2>1, OpIsOver DEF OpSendStop
  <2>2. CASE cp_state = "run"
    <3>1. fw' \in Firmwares
      BY <1>7, <1>13, <2>2 DEF OpSendStop
    <3>2. \E pc \in OpPlaces : op' = [op EXCEPT !.pc = pc]
      BY <1>13, <2>2 DEF OpSendStop, OpPlaces
    <3> QED
      BY <1>0, <1>13, <2>2, <3>1, <3>2, OpGoesOn DEF OpSendStop
  <2> QED
    BY <2>1, <2>2
<1>14. CASE OpOff
  <2>1. /\ fw' \in Firmwares /\ air' \in Seq(Packets)
        /\ odd' \in Odds /\ power_off' \in BOOLEAN
    <3>1. CASE cp_state = "run" /\ map = {} /\ ~power_off
      BY <1>14, <3>1, ResetType DEF OpOff
    <3>2. CASE ~(cp_state = "run" /\ map = {} /\ ~power_off)
      BY <1>0, <1>14, <3>2 DEF OpOff
    <3> QED
      BY <3>1, <3>2
  <2> QED
    BY <1>0, <1>14, <2>1, OpIsOver DEF OpOff
<1> QED
  BY <1>1, <1>2, <1>3, <1>4, <1>5, <1>6, <1>8, <1>9, <1>10, <1>11, <1>12, <1>13, <1>14 DEF Op

RxPlaces == {"idle", "ready", "assert", "clear", "tellwifi", "telling", "tellbt",
             "unwatch", "reset", "version"}
WorkPlaces == {"idle", "look", "tellwifi", "telling", "clear", "reset", "reinit", "wait"}
RxTypes == [pc : RxPlaces, svc : Services, old : SUBSET Services]
EventTypes == [call : 0..MaxEvent, trouble : 0..MaxTrouble]

\* A step of the RX thread that runs no notifier.
LEMMA RxGoesOn ==
  ASSUME TypeOK, ~RxAt("telling"), rx' \in RxTypes, rx'.pc # "telling",
         UNCHANGED <<op, work, asserter>>,
         cp_state' \in {"run", "assert", "dumpdone", "blocked"}, host_state' \in {0, 1},
         map' \in SUBSET Services, power_off' \in BOOLEAN, done' \in BOOLEAN,
         armed' \in BOOLEAN, recovery' \in BOOLEAN, on' \in SUBSET Services,
         fw' \in Firmwares, air' \in Seq(Packets), odd' \in Odds, events' \in EventTypes
  PROVE  TypeOK'
<1>1. (op'.by = "rx") = (rx'.pc = "telling") /\ (op'.by = "work") = (work' = "telling")
  BY DEF TypeOK, RxAt
<1> QED
  BY <1>1 DEF TypeOK, RxAt, RxTypes, RxPlaces, EventTypes, Odds, Firmwares, Packets

\* Someone asks for an operation, and waits for its end.
LEMMA EnterType ==
  ASSUME TypeOK, NEW by \in {"user", "recovery", "rx", "work"}, NEW do \in {"start", "stop"},
         NEW s \in Services, Enter(by, do, s),
         rx' \in RxTypes, (rx'.pc = "telling") = (by = "rx"),
         work' \in WorkPlaces, (work' = "telling") = (by = "work"),
         UNCHANGED <<host, asserter, fw, air>>, armed' \in BOOLEAN,
         recovery' \in BOOLEAN, odd' \in Odds, events' \in EventTypes
  PROVE  TypeOK'
<1>1. op' \in Operations /\ op'.by = by
  BY DEF Enter, Operations, OpPlaces
<1>2. (op'.by = "rx") = (rx'.pc = "telling") /\ (op'.by = "work") = (work' = "telling")
  BY <1>1
<1>3. on' \in SUBSET Services
  BY DEF Enter, TypeOK
<1> QED
  BY <1>1, <1>2, <1>3
  DEF TypeOK, host, RxAt, RxTypes, RxPlaces, WorkPlaces, Operations, EventTypes, Odds, Firmwares, Packets

LEMMA Types ==
  ASSUME TypeOK
  PROVE  /\ rx \in RxTypes /\ work \in WorkPlaces /\ op \in Operations
         /\ cp_state \in {"run", "assert", "dumpdone", "blocked"} /\ host_state \in {0, 1}
         /\ map \in SUBSET Services /\ power_off \in BOOLEAN /\ done \in BOOLEAN
         /\ armed \in BOOLEAN /\ recovery \in BOOLEAN /\ on \in SUBSET Services
         /\ fw \in Firmwares /\ air \in Seq(Packets) /\ odd \in Odds /\ events \in EventTypes
  BY DEF TypeOK, RxTypes, RxPlaces, WorkPlaces, Operations, Firmwares, Packets, Odds, EventTypes

LEMMA RxType == TypeOK /\ Rx => TypeOK'
<1> SUFFICES ASSUME TypeOK, Rx PROVE TypeOK'
  OBVIOUS
<1> USE DEF RxOnly, host
<1>0. RxIdle \in RxTypes /\ RxIdle.pc = "idle"
  BY DEF RxIdle, RxTypes, RxPlaces, Services
<1>1. \A pc \in RxPlaces : RxTo(pc) => rx' \in RxTypes /\ rx'.pc = pc
  BY DEF RxTo, RxIdle, RxTypes, RxPlaces, Services
<1>2. CASE RxReady
  <2>1. ~RxAt("telling") /\ Head(air) \in Packets /\ air' \in Seq(Packets)
    BY <1>2, TakeType DEF RxReady, Take, RxAt
  <2>2. rx' \in RxTypes /\ rx'.pc = "ready"
    BY <1>2, <2>1, Types DEF RxReady, RxTypes, RxPlaces, Packets
  <2> QED
    BY <1>2, <2>1, <2>2, Types, RxGoesOn DEF RxReady
<1>3. CASE RxServiceUp
  <2>1. map' \in SUBSET Services
    BY <1>3, Types DEF RxServiceUp, RxTypes
  <2> QED
    BY <1>0, <1>3, <2>1, Types, RxGoesOn DEF RxServiceUp, RxAt
<1>4. CASE RxBtExit
  <2>1. ~RxAt("telling") /\ air' \in Seq(Packets)
    BY <1>4, TakeType DEF RxBtExit, Take, RxAt
  <2> QED
    BY <1>4, <2>1, Types, RxGoesOn DEF RxBtExit, RxAt
<1>5. CASE RxAssert
  <2>1. ~RxAt("telling") /\ air' \in Seq(Packets)
    BY <1>5, TakeType DEF RxAssert, Take, RxAt
  <2>2. rx' \in RxTypes /\ rx'.pc = "assert" /\ armed' \in BOOLEAN
    BY <1>1, <1>5, Types DEF RxAssert, RxPlaces
  <2> QED
    BY <1>5, <2>1, <2>2, Types, RxGoesOn DEF RxAssert
<1>6. CASE RxAssertSet
  <2>1. /\ rx' \in RxTypes /\ rx'.pc # "telling" /\ odd' \in Odds
        /\ cp_state' \in {"run", "assert", "dumpdone", "blocked"}
    BY <1>0, <1>1, <1>6, Types DEF RxAssertSet, RxPlaces, Odds
  <2> QED
    BY <1>6, <2>1, Types, RxGoesOn DEF RxAssertSet, RxAt
<1>7. CASE RxClear
  <2>1. rx' \in RxTypes /\ rx'.pc # "telling"
    BY <1>1, <1>7 DEF RxClear, RxPlaces
  <2> QED
    BY <1>7, <2>1, Types, RxGoesOn DEF RxClear, RxAt
<1>8. CASE RxTellWifi
  <2>1. rx' \in RxTypes /\ rx'.pc = "telling" /\ work # "telling"
    BY <1>1, <1>8 DEF RxTellWifi, RxPlaces, Enter, TypeOK, NoOp
  <2> QED
    BY <1>8, <2>1, Types, EnterType DEF RxTellWifi, Services
<1>9. CASE RxTellBt
  <2>1. CASE RxTo("telling") /\ Enter("rx", "stop", "bt")
    <3>1. rx' \in RxTypes /\ rx'.pc = "telling" /\ work # "telling"
      BY <1>1, <1>9, <2>1 DEF RxTellBt, RxPlaces, Enter, TypeOK, NoOp
    <3> QED
      BY <1>9, <2>1, <3>1, Types, EnterType DEF RxTellBt, Services
  <2>2. CASE rx' = RxIdle /\ UNCHANGED <<op, on>>
    BY <1>0, <1>9, <2>2, Types, RxGoesOn DEF RxTellBt, RxAt
  <2> QED
    BY <1>9, <2>1, <2>2 DEF RxTellBt
<1>10. CASE RxDumpDone
  <2>1. ~RxAt("telling") /\ air' \in Seq(Packets)
    BY <1>10, TakeType DEF RxDumpDone, Take, RxAt
  <2>2. /\ rx' \in RxTypes /\ rx'.pc # "telling"
        /\ cp_state' \in {"run", "assert", "dumpdone", "blocked"}
    BY <1>1, <1>10, <2>1, Types DEF RxDumpDone, RxPlaces, RxAt
  <2> QED
    BY <1>10, <2>1, <2>2, Types, RxGoesOn DEF RxDumpDone
<1>11. CASE RxUnwatch
  <2>1. rx' \in RxTypes /\ rx'.pc # "telling"
    BY <1>1, <1>11 DEF RxUnwatch, RxPlaces
  <2> QED
    BY <1>11, <2>1, Types, RxGoesOn DEF RxUnwatch, RxAt
<1>12. CASE RxReset
  <2>1. /\ fw' \in Firmwares /\ air' \in Seq(Packets) /\ odd' \in Odds
        /\ power_off' \in BOOLEAN /\ events' \in EventTypes
    BY <1>12, RecoveryType DEF RxReset, Odds, EventTypes
  <2> QED
    BY <1>0, <1>12, <2>1, Types, RxGoesOn DEF RxReset, RxAt
<1>13. CASE RxVersion
  <2>1. ~RxAt("telling") /\ air' \in Seq(Packets)
    BY <1>13, TakeType DEF RxVersion, Take, RxAt
  <2>2. /\ rx' \in RxTypes /\ rx'.pc # "telling" /\ done' \in BOOLEAN
        /\ recovery' \in BOOLEAN /\ on' \in SUBSET Services
    BY <1>1, <1>13, Types DEF RxVersion, RxPlaces
  <2> QED
    BY <1>13, <2>1, <2>2, Types, RxGoesOn DEF RxVersion
<1>14. CASE RxRunning
  <2>1. odd' \in Odds
    BY <1>14, Types DEF RxRunning, Odds
  <2> QED
    BY <1>0, <1>14, <2>1, Types, RxGoesOn DEF RxRunning, RxAt
<1> QED
  BY <1>2, <1>3, <1>4, <1>5, <1>6, <1>7, <1>8, <1>9, <1>10, <1>11, <1>12, <1>13, <1>14 DEF Rx

\* Any other step, which asks for no operation and leaves those under way.
LEMMA OtherGoesOn ==
  ASSUME TypeOK, UNCHANGED <<op, rx>>,
         work' \in WorkPlaces, (work' = "telling") = (work = "telling"),
         asserter' \in {"idle", "set", "irq", "watch"},
         cp_state' \in {"run", "assert", "dumpdone", "blocked"}, host_state' \in {0, 1},
         map' \in SUBSET Services, power_off' \in BOOLEAN, done' \in BOOLEAN,
         armed' \in BOOLEAN, recovery' \in BOOLEAN, on' \in SUBSET Services,
         fw' \in Firmwares, air' \in Seq(Packets), odd' \in Odds, events' \in EventTypes
  PROVE  TypeOK'
<1>1. (op'.by = "rx") = (rx'.pc = "telling") /\ (op'.by = "work") = (work' = "telling")
  BY DEF TypeOK, RxAt
<1> QED
  BY <1>1 DEF TypeOK, RxAt, WorkPlaces, EventTypes, Odds, Firmwares, Packets

LEMMA WorkType == TypeOK /\ Work => TypeOK'
<1> SUFFICES ASSUME TypeOK, Work PROVE TypeOK'
  OBVIOUS
<1> USE DEF WorkOnly, host
<1>0. asserter \in {"idle", "set", "irq", "watch"}
  BY DEF TypeOK
<1>1. CASE WorkFires
  BY <1>0, <1>1, Types, OtherGoesOn DEF WorkFires, WorkPlaces
<1>2. CASE WorkLooks
  <2>1. /\ work' \in WorkPlaces /\ work' # "telling" /\ work # "telling"
        /\ cp_state' \in {"run", "assert", "dumpdone", "blocked"}
    BY <1>2, Types DEF WorkLooks, WorkPlaces
  <2> QED
    BY <1>0, <1>2, <2>1, Types, OtherGoesOn DEF WorkLooks
<1>3. CASE WorkTellsWifi
  <2>1. rx.pc # "telling" /\ work' \in WorkPlaces
    BY <1>3 DEF WorkTellsWifi, WorkPlaces, Enter, TypeOK, NoOp, RxAt
  <2> QED
    BY <1>3, <2>1, Types, EnterType DEF WorkTellsWifi, Services
<1>4. CASE WorkClears
  <2>1. odd' \in Odds
    BY <1>4, Types DEF WorkClears, Odds
  <2> QED
    BY <1>0, <1>4, <2>1, Types, OtherGoesOn DEF WorkClears, WorkPlaces
<1>5. CASE WorkResets
  <2>1. /\ fw' \in Firmwares /\ air' \in Seq(Packets) /\ odd' \in Odds
        /\ power_off' \in BOOLEAN /\ events' \in EventTypes
    BY <1>5, RecoveryType DEF WorkResets, Odds, EventTypes
  <2>2. work' \in WorkPlaces /\ work' # "telling" /\ work # "telling"
    BY <1>5 DEF WorkResets, WorkPlaces
  <2> QED
    BY <1>0, <1>5, <2>1, <2>2, Types, OtherGoesOn DEF WorkResets
<1>6. CASE WorkWaits
  BY <1>0, <1>6, Types, OtherGoesOn DEF WorkWaits, WorkPlaces
<1> QED
  BY <1>1, <1>2, <1>3, <1>4, <1>5, <1>6 DEF Work

LEMMA CountType ==
  ASSUME TypeOK, NEW kind \in {"call", "trouble"}, Counts(kind)
  PROVE  events' \in EventTypes
  BY DEF Counts, TypeOK, EventTypes

\* What a firmware does that asserts.
LEMMA AssertsType ==
  ASSUME TypeOK, Asserts
  PROVE  fw' \in Firmwares /\ air' \in Seq(Packets)
<1>1. Packet("assert", "wifi") \in Packets
  BY DEF Packet, Packets, Services
<1> QED
  BY <1>1, SendType DEF Asserts, Firmwares

LEMMA AssertType == TypeOK /\ (AssertTest \/ Asserter) => TypeOK'
<1> SUFFICES ASSUME TypeOK, AssertTest \/ Asserter PROVE TypeOK'
  OBVIOUS
<1> USE DEF AssertOnly
<1>1. CASE AssertTest
  <2>1. events' \in EventTypes /\ odd' \in Odds
    BY <1>1, CountType, Types DEF AssertTest, Trouble, Odds
  <2> QED
    BY <1>1, <2>1, Types, OtherGoesOn DEF AssertTest
<1>2. CASE AssertSet
  <2>1. odd' \in Odds
    BY <1>2, Types DEF AssertSet, Odds
  <2> QED
    BY <1>2, <2>1, Types, OtherGoesOn DEF AssertSet
<1>3. CASE AssertIrq
  <2>1. fw' \in Firmwares /\ air' \in Seq(Packets) /\ odd' \in Odds /\ host_state' \in {0, 1}
    BY <1>3, AssertsType, Types DEF AssertIrq, Again, Odds
  <2> QED
    BY <1>3, <2>1, Types, OtherGoesOn DEF AssertIrq
<1>4. CASE AssertWatch
  BY <1>4, Types, OtherGoesOn DEF AssertWatch
<1> QED
  BY <1>1, <1>2, <1>3, <1>4 DEF Asserter

LEMMA FirmwareType == TypeOK /\ (Firmware \/ FwCrashes \/ FwHangs) => TypeOK'
<1> SUFFICES ASSUME TypeOK, Firmware \/ FwCrashes \/ FwHangs PROVE TypeOK'
  OBVIOUS
<1> USE DEF FwOnly, host, threads
<1>0. asserter \in {"idle", "set", "irq", "watch"}
  BY DEF TypeOK
<1>1. CASE FwBoots
  <2>1. Packet("version", "wifi") \in Packets
    BY DEF Packet, Packets, Services
  <2>2. air' \in Seq(Packets) /\ fw' \in Firmwares
    BY <1>1, <2>1, SendType, Types DEF FwBoots, Firmwares
  <2> QED
    BY <1>0, <1>1, <2>2, Types, OtherGoesOn DEF FwBoots
<1>2. CASE FwServes
  <2>1. PICK c \in fw.todo :
          LET s == c[2] IN
          IF c[1] = "start"
          THEN /\ fw' = [fw EXCEPT !.todo = @ \ {c}, !.serving = @ \cup {s}]
               /\ air' = Append(air, Packet("ready", s))
          ELSE /\ fw' = [fw EXCEPT !.todo = @ \ {c}, !.serving = @ \ {s}]
               /\ air' = IF s = "bt" THEN Append(air, Packet("exit", s)) ELSE air
    BY <1>2 DEF FwServes
  <2>2. c[2] \in Services
    BY Types DEF Firmwares
  <2>3. Packet("ready", c[2]) \in Packets /\ Packet("exit", c[2]) \in Packets
    BY <2>2 DEF Packet, Packets
  <2>4. air' \in Seq(Packets)
    BY <2>1, <2>3, SendType, Types
  <2>5. fw' \in Firmwares
    <3>1. /\ fw.todo \ {c} \in SUBSET ({"start", "stop"} \X Services)
          /\ fw.serving \cup {c[2]} \in SUBSET Services
          /\ fw.serving \ {c[2]} \in SUBSET Services
      BY <2>2, Types DEF Firmwares
    <3>2. \/ fw' = [fw EXCEPT !.todo = fw.todo \ {c}, !.serving = fw.serving \cup {c[2]}]
          \/ fw' = [fw EXCEPT !.todo = fw.todo \ {c}, !.serving = fw.serving \ {c[2]}]
      BY <2>1
    <3> QED
      BY <3>1, <3>2, Types DEF Firmwares
  <2> QED
    BY <1>0, <1>2, <2>4, <2>5, Types, OtherGoesOn DEF FwServes
<1>3. CASE FwDumps
  <2>1. Packet("dumpdone", "wifi") \in Packets
    BY DEF Packet, Packets, Services
  <2>2. air' \in Seq(Packets) /\ fw' \in Firmwares
    BY <1>3, <2>1, SendType, Types DEF FwDumps, Firmwares
  <2> QED
    BY <1>0, <1>3, <2>2, Types, OtherGoesOn DEF FwDumps
<1>4. CASE FwCrashes \/ FwHangs
  <2>1. fw' \in Firmwares /\ air' \in Seq(Packets)
    BY <1>4, AssertsType, Types DEF FwCrashes, FwHangs, Firmwares
  <2>2. events' \in EventTypes /\ odd' \in Odds
    BY <1>4, CountType, Types DEF FwCrashes, FwHangs, Trouble, Again, Odds
  <2> QED
    BY <1>0, <1>4, <2>1, <2>2, Types, OtherGoesOn DEF FwCrashes, FwHangs
<1> QED
  BY <1>1, <1>2, <1>3, <1>4 DEF Firmware

LEMMA TypeNext == TypeOK /\ [Next]_vars => TypeOK'
<1> SUFFICES ASSUME TypeOK, [Next]_vars PROVE TypeOK'
  OBVIOUS
<1>1. ASSUME NEW s \in Services, NEW what \in {"start", "stop"}, Call(what, s) PROVE TypeOK'
  <2>1. rx.pc # "telling" /\ work # "telling" /\ events' \in EventTypes
    BY <1>1, CountType DEF Call, Enter, TypeOK, NoOp, RxAt
  <2> QED
    BY <1>1, <2>1, Types, EnterType DEF Call
<1>2. CASE RecoveryWork
  <2>1. rx.pc # "telling" /\ work # "telling"
    BY <1>2 DEF RecoveryWork, Enter, TypeOK, NoOp, RxAt
  <2> QED
    BY <1>2, <2>1, Types, EnterType DEF RecoveryWork, Services
<1>3. CASE UNCHANGED vars
  BY <1>3 DEF vars, host, threads, outside, TypeOK, RxAt
<1> QED
  BY <1>1, <1>2, <1>3, OpType, RxType, WorkType, AssertType, FirmwareType DEF Next

\* Every variable keeps its type; in particular an operation of the RX thread
\* or of the exception work has the one who asked for it waiting.
THEOREM TypeCorrect == Spec => []TypeOK
<1>1. Init => TypeOK
  <2> SUFFICES ASSUME Init PROVE TypeOK
    OBVIOUS
  <2>1. air \in Seq(Packets)
    BY DEF Init
  <2>2. events \in EventTypes
    BY DEF Init, EventTypes
  <2> QED
    BY <2>1, <2>2
    DEF Init, TypeOK, NoOp, RxIdle, RxAt, Services, OpPlaces, Packets, EventTypes
<1> QED
  BY <1>1, TypeNext, PTL DEF Spec
-----------------------------------------------------------------------------
(* The watch over a firmware that has failed.                              *)

FailsAgain == "again" \in odd
Watched == armed \/ work = "look" \/ asserter # "idle"

\* An assert the RX thread is handling has set the watch before it says so, and
\* nothing but the dump ends the watch.
WatchInv ==
  ~FailsAgain =>
    /\ cp_state = "assert" => Watched
    /\ RxAt("assert") /\ cp_state = "run" => armed
    /\ RxAt("unwatch") => cp_state = "dumpdone"

\* Steps that leave the watch and those who look at it alone.
LEMMA WatchKept ==
  ASSUME WatchInv, odd \subseteq odd',
         UNCHANGED <<cp_state, armed, asserter>>,
         work' = work \/ work # "look",
         rx' = rx \/ rx'.pc \notin {"assert", "unwatch"}
  PROVE  WatchInv'
  BY DEF WatchInv, Watched, FailsAgain, RxAt

LEMMA OddGrows ==
  ASSUME RecoveryMode \/ RecoveryFails
  PROVE  odd \subseteq odd'
  BY DEF RecoveryMode, RecoveryFails, Reset

LEMMA OpWatch == TypeOK /\ WatchInv /\ Op => WatchInv'
<1> SUFFICES ASSUME TypeOK, WatchInv, Op PROVE WatchInv'
  OBVIOUS
<1>1. UNCHANGED <<cp_state, armed, asserter>>
  BY DEF Op, OpBegin, OpReset, OpReinit, OpBooted, OpAwaited, OpLocked, OpSendStart, OpWoken,
         OpTimesOut, OpStop, OpClear, OpSendStop, OpOff, OpOnly, host
<1>2. odd \subseteq odd'
  BY OddGrows
  DEF Op, OpBegin, OpReset, OpReinit, OpBooted, OpAwaited, OpLocked, OpSendStart, OpWoken,
      OpTimesOut, OpStop, OpClear, OpSendStop, OpOff, GivesUp, Reset
<1>3. UNCHANGED <<rx, work>> \/ \E ok \in BOOLEAN : OpEnds(ok)
  BY DEF Op, OpBegin, OpReset, OpReinit, OpBooted, OpAwaited, OpLocked, OpSendStart, OpWoken,
         OpTimesOut, OpStop, OpClear, OpSendStop, OpOff, Caller
<1>4. /\ work' = work \/ work # "look"
      /\ rx' = rx \/ rx'.pc \notin {"assert", "unwatch"}
  BY <1>3, EndType
<1> QED
  BY <1>1, <1>2, <1>4, WatchKept

LEMMA RxWatch == TypeOK /\ WatchInv /\ Rx => WatchInv'
<1> SUFFICES ASSUME TypeOK, WatchInv, Rx PROVE WatchInv'
  OBVIOUS
<1> USE DEF RxOnly, host, RxTo, RxIdle
<1>1. CASE RxReady
  BY <1>1, WatchKept DEF RxReady
<1>2. CASE RxServiceUp \/ RxBtExit
  BY <1>2, WatchKept DEF RxServiceUp, RxBtExit
<1>3. CASE RxAssert
  BY <1>3 DEF RxAssert, WatchInv, Watched, FailsAgain, RxAt
<1>4. CASE RxAssertSet
  BY <1>4, Types DEF RxAssertSet, WatchInv, Watched, FailsAgain, RxAt
<1>5. CASE RxClear \/ RxTellWifi \/ RxTellBt
  BY <1>5, WatchKept DEF RxClear, RxTellWifi, RxTellBt
<1>6. CASE RxDumpDone
  BY <1>6 DEF RxDumpDone, Take, WatchInv, Watched, FailsAgain, RxAt
<1>7. CASE RxUnwatch
  BY <1>7 DEF RxUnwatch, WatchInv, Watched, FailsAgain, RxAt
<1>8. CASE RxReset
  BY <1>8, OddGrows, WatchKept DEF RxReset
<1>9. CASE RxVersion
  BY <1>9, WatchKept DEF RxVersion
<1>10. CASE RxRunning
  BY <1>10 DEF RxRunning, WatchInv, Watched, FailsAgain, RxAt
<1> QED
  BY <1>1, <1>2, <1>3, <1>4, <1>5, <1>6, <1>7, <1>8, <1>9, <1>10 DEF Rx

LEMMA WatchNext == TypeOK /\ WatchInv /\ [Next]_vars => WatchInv'
<1> SUFFICES ASSUME TypeOK, WatchInv, [Next]_vars PROVE WatchInv'
  OBVIOUS
<1>1. ASSUME NEW s \in Services, NEW what \in {"start", "stop"}, Call(what, s) PROVE WatchInv'
  BY <1>1, WatchKept DEF Call, host
<1>2. CASE RecoveryWork
  BY <1>2, WatchKept DEF RecoveryWork, host
<1>3. CASE WorkFires
  BY <1>3 DEF WorkFires, WorkOnly, host, WatchInv, Watched, FailsAgain, RxAt
<1>4. CASE WorkLooks
  BY <1>4 DEF WorkLooks, WorkOnly, WatchInv, Watched, FailsAgain, RxAt
<1>5. CASE WorkTellsWifi \/ WorkClears \/ WorkWaits
  BY <1>5, WatchKept DEF WorkTellsWifi, WorkClears, WorkWaits, WorkOnly, host
<1>6. CASE WorkResets
  BY <1>6, OddGrows, WatchKept DEF WorkResets, WorkOnly
<1>7. CASE AssertTest \/ AssertSet \/ AssertIrq \/ AssertWatch
  BY <1>7
  DEF AssertTest, AssertSet, AssertIrq, AssertWatch, AssertOnly, Trouble, Again,
      WatchInv, Watched, FailsAgain, RxAt
<1>8. CASE Firmware \/ FwCrashes \/ FwHangs
  BY <1>8, WatchKept
  DEF Firmware, FwBoots, FwServes, FwDumps, FwCrashes, FwHangs, FwOnly, host, threads, Trouble
<1>9. CASE UNCHANGED vars
  BY <1>9, WatchKept DEF vars, host, threads, outside
<1> QED
  BY <1>1, <1>2, <1>3, <1>4, <1>5, <1>6, <1>7, <1>8, <1>9, OpWatch, RxWatch DEF Next, Work, Asserter

\* However often services are started and stopped and the firmware fails, an
\* assert is watched until the dump or the exception work, as long as no failure
\* falls into the recovery from another.
THEOREM EveryCrashIsWatched == Spec => []CrashIsWatched
<1>1. Init => WatchInv
  BY DEF Init, WatchInv, RxAt, RxIdle
<1>2. TypeOK /\ WatchInv => CrashIsWatched
  BY DEF WatchInv, Watched, FailsAgain, CrashIsWatched
<1> QED
  BY <1>1, <1>2, TypeCorrect, WatchNext, PTL DEF Spec
-----------------------------------------------------------------------------
(* A service that was started is served.                                   *)

Clean == odd \cap {"stale", "untold", "crossed", "torn"} = {}

\* What is on the way to the host, and in which order.
Kinds == {air[i].kind : i \in DOMAIN air}
Readies == {s \in Services : \E i \in DOMAIN air : air[i] = Packet("ready", s)}
Rank == [version |-> 1, ready |-> 2, exit |-> 2, assert |-> 3, dumpdone |-> 4]
Ordered == \A i, j \in DOMAIN air : i < j => Rank[air[i].kind] < Rank[air[j].kind]

LEMMA AirFacts ==
  ASSUME TypeOK
  PROVE  /\ Kinds \subseteq {"ready", "exit", "assert", "dumpdone", "version"}
         /\ \A kind : Coming(kind) <=> kind \in Kinds
         /\ Readies \subseteq Services /\ (Readies = {} <=> "ready" \notin Kinds)
         /\ air = <<>> => Kinds = {} /\ Readies = {} /\ Ordered
<1>0. \A i \in DOMAIN air : air[i] \in Packets
  <2>1. air \in Seq(Packets)
    BY DEF TypeOK, Packets
  <2> QED
    BY <2>1
<1>1. Kinds \subseteq {"ready", "exit", "assert", "dumpdone", "version"}
  BY <1>0 DEF Kinds, Packets
<1>2. \A kind : Coming(kind) <=> kind \in Kinds
  BY DEF Coming, Kinds
<1>3. (Readies = {} <=> "ready" \notin Kinds)
  <2>1. \A i \in DOMAIN air : air[i].kind = "ready" => air[i] = Packet("ready", air[i].svc)
    BY <1>0 DEF Packets, Packet
  <2>2. \A i \in DOMAIN air : air[i].svc \in Services
    BY <1>0 DEF Packets
  <2>3. \A s : Packet("ready", s).kind = "ready"
    BY DEF Packet
  <2> QED
    BY <2>1, <2>2, <2>3 DEF Readies, Kinds
<1>4. air = <<>> => Kinds = {} /\ Readies = {} /\ Ordered
  BY DEF Kinds, Readies, Ordered
<1> QED
  BY <1>1, <1>2, <1>3, <1>4 DEF Readies

LEMMA AirSame ==
  ASSUME air' = air
  PROVE  Kinds' = Kinds /\ Readies' = Readies /\ Ordered' = Ordered
  BY DEF Kinds, Readies, Ordered

\* The first packet is taken: what is left ranks behind it.
LEMMA AirTaken ==
  ASSUME TypeOK, Ordered, NEW kind, Take(kind)
  PROVE  /\ kind \in Kinds /\ Kinds' = Kinds \ {kind} /\ Ordered'
         /\ \A k \in Kinds' : Rank[kind] < Rank[k]
         /\ kind # "ready" => Readies' = Readies
         /\ kind = "ready" => Readies' = {} /\ Readies = {Head(air).svc}
<1>1. air \in Seq(Packets) /\ air # <<>> /\ air' = Tail(air) /\ Head(air).kind = kind
  BY DEF TypeOK, Packets, Take
<1>2. /\ Len(air) \in Nat \ {0} /\ DOMAIN air = 1..Len(air) /\ Head(air) = air[1]
      /\ DOMAIN air' = 1..(Len(air) - 1) /\ \A i \in 1..(Len(air) - 1) : air'[i] = air[i + 1]
  BY <1>1, EmptySeq
<1>3. \A j \in 2..Len(air) : Rank[kind] < Rank[air[j].kind]
  BY <1>1, <1>2 DEF Ordered
<1>4. \A i \in DOMAIN air : air[i] \in Packets
  BY <1>1
<1>5. \A k \in {"ready", "exit", "assert", "dumpdone", "version"} : Rank[k] \in Nat
  BY DEF Rank
<1>6. \A j \in 2..Len(air) : air[j].kind # kind
  BY <1>2, <1>3, <1>4, <1>5 DEF Packets
<1>7. \A j \in 2..Len(air) : j - 1 \in DOMAIN air' /\ air'[j - 1] = air[j]
  BY <1>2
<1>8. Kinds' = Kinds \ {kind} /\ kind \in Kinds
  <2>1. \A i \in DOMAIN air' : i + 1 \in 2..Len(air) /\ air'[i] = air[i + 1]
    BY <1>2
  <2>2. \A i \in DOMAIN air : i = 1 \/ i \in 2..Len(air)
    BY <1>2
  <2>3. 2..Len(air) \subseteq DOMAIN air /\ 1 \in DOMAIN air /\ air[1].kind = kind
    BY <1>1, <1>2
  <2>4. \A k \in Kinds' : k \in Kinds /\ k # kind
    BY <1>6, <2>1, <2>3 DEF Kinds
  <2>5. \A k \in Kinds : k = kind \/ k \in Kinds'
    <3> SUFFICES ASSUME NEW i \in DOMAIN air, air[i].kind # kind PROVE air[i].kind \in Kinds'
      BY DEF Kinds
    <3>1. i \in 2..Len(air)
      BY <2>2, <2>3
    <3> QED
      BY <1>7, <3>1 DEF Kinds
  <2>6. kind \in Kinds
    BY <2>3 DEF Kinds
  <2> QED
    BY <2>4, <2>5, <2>6
<1>9. \A k \in Kinds' : Rank[kind] < Rank[k]
  BY <1>2, <1>3 DEF Kinds
<1>10. Ordered'
  <2> SUFFICES ASSUME NEW i \in DOMAIN air', NEW j \in DOMAIN air', i < j
               PROVE  Rank[air'[i].kind] < Rank[air'[j].kind]
    BY DEF Ordered
  <2>1. i + 1 \in DOMAIN air /\ j + 1 \in DOMAIN air /\ i + 1 < j + 1
    BY <1>2
  <2> QED
    BY <1>2, <2>1 DEF Ordered
<1>11. ASSUME kind # "ready" PROVE Readies' = Readies
  <2>1. \A s : Packet("ready", s) # air[1]
    BY <1>1, <1>2, <1>11 DEF Packet
  <2>2. \A i \in DOMAIN air : i = 1 \/ i \in 2..Len(air)
    BY <1>2
  <2>3. \A i \in DOMAIN air' : i + 1 \in DOMAIN air /\ air'[i] = air[i + 1]
    BY <1>2
  <2> QED
    BY <1>7, <2>1, <2>2, <2>3 DEF Readies
<1>12. ASSUME kind = "ready" PROVE Readies' = {} /\ Readies = {Head(air).svc}
  <2>1. \A s : Packet("ready", s).kind = "ready" /\ Packet("ready", s).svc = s
    BY DEF Packet
  <2>2. \A i \in DOMAIN air' : i + 1 \in 2..Len(air) /\ air'[i] = air[i + 1]
    BY <1>2
  <2>3. Readies' = {}
    BY <1>6, <1>12, <2>1, <2>2 DEF Readies
  <2>4. air[1] = Packet("ready", air[1].svc) /\ air[1].svc \in Services /\ 1 \in DOMAIN air
    BY <1>1, <1>2, <1>4, <1>12 DEF Packet, Packets
  <2>5. \A i \in DOMAIN air : i = 1 \/ i \in 2..Len(air)
    BY <1>2
  <2> QED
    BY <1>2, <1>6, <1>12, <2>1, <2>3, <2>4, <2>5 DEF Readies
<1> QED
  BY <1>8, <1>9, <1>10, <1>11, <1>12

\* A packet is sent that ranks behind all before it.
LEMMA AirSent ==
  ASSUME TypeOK, Ordered, NEW kind, NEW s \in Services, Packet(kind, s) \in Packets,
         air' = Append(air, Packet(kind, s)), \A k \in Kinds : Rank[k] < Rank[kind]
  PROVE  /\ Kinds' = Kinds \cup {kind} /\ Ordered'
         /\ Readies' = Readies \cup IF kind = "ready" THEN {s} ELSE {}
<1>1. air \in Seq(Packets) /\ Packet(kind, s).kind = kind /\ Packet(kind, s).svc = s
  BY DEF TypeOK, Packets, Packet
<1>2. /\ Len(air) \in Nat /\ DOMAIN air = 1..Len(air) /\ DOMAIN air' = 1..(Len(air) + 1)
      /\ \A i \in 1..Len(air) : air'[i] = air[i]
      /\ air'[Len(air) + 1] = Packet(kind, s)
  BY <1>1
<1>3. \A i \in DOMAIN air' : i \in DOMAIN air \/ i = Len(air) + 1
  BY <1>2
<1>4. DOMAIN air \subseteq DOMAIN air' /\ Len(air) + 1 \in DOMAIN air'
  BY <1>2
<1>5. Kinds' = Kinds \cup {kind}
  BY <1>1, <1>2, <1>3, <1>4 DEF Kinds
<1>6. Ordered'
  BY <1>1, <1>2 DEF Ordered, Kinds
<1>7. \A t : Packet("ready", t) = Packet(kind, s) <=> kind = "ready" /\ t = s
  BY DEF Packet
<1>8. Readies' = Readies \cup IF kind = "ready" THEN {s} ELSE {}
  BY <1>2, <1>3, <1>4, <1>7 DEF Readies
<1> QED
  BY <1>5, <1>6, <1>8

\* A reset that leaves nothing behind: nothing was on the way.
LEMMA CleanReset ==
  ASSUME TypeOK, NEW state, NEW what, Reset(state, what), Clean'
  PROVE  /\ air' = <<>> /\ fw' = [state |-> state, serving |-> {}, todo |-> {}]
         /\ rx.pc \notin {"ready", "version"} /\ odd \subseteq odd'
<1>1. PICK n \in 0..Len(air) :
        /\ air' = SubSeq(air, 1, n)
        /\ odd' = odd \cup what
                  \cup IF n > 0 \/ rx.pc \in {"ready", "version"} THEN {"stale"} ELSE {}
  BY DEF Reset
<1>2. n = 0 /\ rx.pc \notin {"ready", "version"}
  BY <1>1 DEF Clean
<1>3. air' = <<>>
  BY <1>1, <1>2 DEF TypeOK
<1> QED
  BY <1>1, <1>2, <1>3 DEF Reset
-----------------------------------------------------------------------------
Busy == {"tellwifi", "telling", "clear", "reset"}
Handling == {"clear", "tellwifi", "telling", "tellbt", "unwatch", "reset"}
Waiting(what) == op.pc \in {"reinit3", "wait3"} /\ op.do = what

\* What the firmware is going to say: its version after a boot, that a service
\* is there, that BT has gone.
VersionDue == fw.state = "boot" \/ "version" \in Kinds
ReadyDue(s) == <<"start", s>> \in fw.todo \/ s \in Readies \/ (RxAt("ready") /\ rx.svc = s)
ExitDue == <<"stop", "bt">> \in fw.todo \/ "exit" \in Kinds

\* An operation is at a place of its kind.
PlaceInv ==
    /\ op = NoOp \/ op.pc # "idle"
    /\ op.pc \in {"await", "locked", "reset2", "reinit2", "wait2", "send"} => op.do = "start"
    /\ op.pc \in {"lock", "clear", "stop", "off"} => op.do = "stop"

\* A firmware says its version, that a service comes or goes, that it asserts
\* and that it is dumped, in this order; a new one finds nothing on the way.
AirInv ==
    /\ Ordered
    /\ fw.state = "boot" => air = <<>>
    /\ "assert" \in Kinds => fw.state \in {"dump", "dumped", "dead"}
    /\ "dumpdone" \in Kinds => fw.state \in {"dumped", "dead"}

\* A service in the map, or on its way there, is served.
LifeInv ==
    /\ fw.state \notin {"boot", "up"} => fw.todo = {}
    /\ fw.state = "up" =>
          /\ map \subseteq fw.serving /\ Readies \subseteq fw.serving
          /\ RxAt("ready") => rx.svc \in fw.serving
    /\ \A s \in Services : <<"stop", s>> \in fw.todo => s \notin map /\ ~ReadyDue(s)

\* The firmware is going to answer only an operation that waits for it, and
\* once; who is woken has his answer.
DueInv ==
    /\ \A s \in Services : ReadyDue(s) => Waiting("start") /\ op.svc = s
    /\ \A s \in Services : <<"start", s>> \in fw.todo => Readies = {} /\ ~RxAt("ready")
    /\ RxAt("ready") => Readies = {}
    /\ ExitDue => Waiting("stop") /\ op.svc = "bt"
    /\ <<"stop", "bt">> \in fw.todo => "exit" \notin Kinds
    /\ op.pc = "wait3" /\ done =>
          IF op.do = "start" THEN op.svc \in map /\ ~ReadyDue(op.svc) ELSE ~ExitDue

\* While a firmware boots the map is empty, nobody asks anything of it, and
\* unless an exception is being handled an operation waits for the boot.
VersionInv ==
    /\ VersionDue /\ cp_state = "run" =>
          /\ op.pc \in {"reinit", "wait", "reinit2", "wait2"}
          /\ op.pc \in {"wait", "wait2"} => ~done
    /\ VersionDue => map = {} /\ fw.todo = {} /\ ~RxAt("ready")
    /\ RxAt("version") => map = {} /\ ~VersionDue

\* The map holds all that users were told, and is empty when the chip is off.
MapInv ==
    /\ on \subseteq map
    /\ op.do = "stop" /\ op.pc # "idle" => op.svc \notin on
    /\ op.pc = "stop" => op.svc \notin map
    /\ power_off => /\ map = {} /\ fw.state \in {"off", "dead"} /\ air = <<>>
                    /\ rx.pc \notin {"ready", "version"}
    /\ op.pc \in {"reset", "reset2"} => map = {}
    /\ RxAt("ready") => rx.old = map

\* except_mutex keeps those who handle an exception from an operation that
\* waits for the firmware.
MutexInv ==
    /\ op.pc \in {"reinit3", "wait3"} =>
          cp_state \in {"run", "assert"} /\ work \notin Busy /\ rx.pc \notin Handling
    /\ work \in Busy \/ rx.pc \in Handling => cp_state # "run"
    /\ work \notin {"reinit", "wait"}

\* When a firmware that has failed is reset the map has been cleared.
Clearing == work \in {"tellwifi", "telling", "clear"} \/ map = {}
AssertInv ==
    /\ fw.state \in {"dump", "dumped"} \/ "dumpdone" \in Kinds =>
          \/ "assert" \in Kinds
          \/ /\ rx.pc \notin {"ready", "version"} /\ Kinds \subseteq {"dumpdone"}
             /\ rx.pc \in {"assert", "clear"} \/ Clearing
    /\ cp_state = "blocked" => Clearing
    /\ RxAt("unwatch") => Clearing
    /\ RxAt("reset") \/ work = "reset" => map = {}

Sound == AirInv /\ LifeInv /\ DueInv /\ VersionInv /\ MapInv /\ MutexInv /\ AssertInv

LEMMA OddKept == [Next]_vars => odd \subseteq odd'
<1> SUFFICES ASSUME [Next]_vars PROVE odd \subseteq odd'
  OBVIOUS
<1>1. CASE Op
  BY <1>1, OddGrows
  DEF Op, OpBegin, OpReset, OpReinit, OpBooted, OpAwaited, OpLocked, OpSendStart, OpWoken,
      OpTimesOut, OpStop, OpClear, OpSendStop, OpOff, GivesUp, Reset
<1>2. CASE Rx
  BY <1>2, OddGrows
  DEF Rx, RxReady, RxServiceUp, RxBtExit, RxAssert, RxAssertSet, RxClear, RxTellWifi, RxTellBt,
      RxDumpDone, RxUnwatch, RxReset, RxVersion, RxRunning
<1>3. CASE Work
  BY <1>3, OddGrows
  DEF Work, WorkFires, WorkLooks, WorkTellsWifi, WorkClears, WorkResets, WorkWaits
<1>4. CASE AssertTest \/ Asserter \/ Firmware \/ FwCrashes \/ FwHangs
  BY <1>4
  DEF AssertTest, Asserter, AssertSet, AssertIrq, AssertWatch, Firmware, FwBoots, FwServes,
      FwDumps, FwCrashes, FwHangs, Trouble
<1>5. CASE UNCHANGED vars \/ RecoveryWork \/ \E s \in Services : Call("start", s) \/ Call("stop", s)
  BY <1>5 DEF vars, RecoveryWork, Call
<1> QED
  BY <1>1, <1>2, <1>3, <1>4, <1>5 DEF Next

LEMMA OpFields ==
  ASSUME TypeOK, NEW pc, op' = [op EXCEPT !.pc = pc] \/ \E old : op' = [op EXCEPT !.pc = pc, !.old = old]
  PROVE  op'.pc = pc /\ op'.do = op.do /\ op'.svc = op.svc /\ op'.by = op.by
  BY DEF TypeOK

\* Nothing is going to be answered to an operation that does not wait for it.
LEMMA NothingDue ==
  ASSUME TypeOK, Sound, op.pc \notin {"reinit3", "wait3"}
  PROVE  ~ExitDue /\ \A s \in Services : ~ReadyDue(s)
  BY DEF Sound, DueInv, Waiting

\* A step of an operation that asks nothing of the firmware.
LEMMA OpMoves ==
  ASSUME TypeOK, Sound, ~ExitDue, \A s \in Services : ~ReadyDue(s),
         UNCHANGED <<cp_state, map, power_off, on, rx, work, fw, air>>,
         op.pc # "idle",
         op'.pc \notin {"idle", "stop", "reinit3", "wait3"}, op'.do = op.do, op'.svc = op.svc,
         op'.pc \in {"reset", "reset2"} => map = {},
         VersionDue /\ cp_state = "run" =>
            /\ op'.pc \in {"reinit", "wait", "reinit2", "wait2"}
            /\ op'.pc \in {"wait", "wait2"} => ~done'
  PROVE  Sound'
<1> USE DEF Sound, RxAt
<1>1. Kinds' = Kinds /\ Readies' = Readies /\ Ordered' = Ordered
  BY AirSame
<1>2. AirInv'
  BY <1>1 DEF AirInv
<1>3. (\A s : ReadyDue(s)' = ReadyDue(s)) /\ ExitDue' = ExitDue
  BY <1>1 DEF ReadyDue, ExitDue
<1>4. LifeInv'
  BY <1>1, <1>3 DEF LifeInv
<1>5. DueInv'
  BY <1>1, <1>3 DEF DueInv
<1>6. VersionInv'
  BY <1>1 DEF VersionInv, VersionDue
<1>7. MapInv'
  BY DEF MapInv
<1>8. MutexInv'
  BY DEF MutexInv
<1>9. AssertInv'
  BY <1>1 DEF AssertInv, Clearing
<1> QED
  BY <1>2, <1>4, <1>5, <1>6, <1>7, <1>8, <1>9

\* An operation that ends, and tells its user that the service is there only
\* when it is in the map.
LEMMA OpEndsSound ==
  ASSUME TypeOK, Sound, ~ExitDue, \A s \in Services : ~ReadyDue(s),
         NEW ok \in BOOLEAN, OpEnds(ok), ok /\ op.do = "start" => op.svc \in map,
         UNCHANGED <<cp_state, map, power_off, fw, air>>,
         ~(VersionDue /\ cp_state = "run")
  PROVE  Sound'
<1> USE DEF Sound, RxAt
<1>0. /\ op' = NoOp /\ op'.pc = "idle"
      /\ on' \subseteq on \cup (IF ok /\ op.do = "start" THEN {op.svc} ELSE {})
      /\ rx' = rx \/ (rx.pc = "telling" /\ rx'.pc \in {"idle", "tellbt"})
      /\ work' = work \/ (work = "telling" /\ work' = "clear")
  BY DEF OpEnds, NoOp, TypeOK, RxIdle
<1>1. Kinds' = Kinds /\ Readies' = Readies /\ Ordered' = Ordered
  BY AirSame
<1>2. AirInv'
  BY <1>1 DEF AirInv
<1>3. (\A s \in Services : ~ReadyDue(s)') /\ ~ExitDue'
  BY <1>0, <1>1 DEF ReadyDue, ExitDue
<1>4. LifeInv'
  BY <1>0, <1>1, <1>3 DEF LifeInv
<1>5. DueInv'
  <2>1. RxAt("ready")' => Readies' = {}
    BY <1>0, <1>1 DEF DueInv
  <2>2. Readies' = {}
    BY <1>1, AirFacts DEF ReadyDue
  <2>3. \A s \in Services : <<"start", s>> \notin fw'.todo
    BY DEF ReadyDue
  <2>4. <<"stop", "bt">> \notin fw'.todo
    BY DEF ExitDue
  <2> QED
    BY <1>0, <1>3, <2>1, <2>2, <2>3, <2>4 DEF DueInv
<1>6. VersionInv'
  BY <1>0, <1>1 DEF VersionInv, VersionDue
<1>7. MapInv'
  BY <1>0 DEF MapInv
<1>8. MutexInv'
  BY <1>0 DEF MutexInv, Busy, Handling
<1>9. AssertInv'
  BY <1>0, <1>1 DEF AssertInv, Clearing
<1> QED
  BY <1>2, <1>4, <1>5, <1>6, <1>7, <1>8, <1>9

\* The chip is reset, and nothing was in the map.
LEMMA ResetSound ==
  ASSUME TypeOK, Sound, NEW state \in {"boot", "dead", "off"}, NEW what,
         Reset(state, what), Clean', map = {}, UNCHANGED <<map, cp_state, on>>,
         op.pc \notin {"reinit3", "wait3"}, op'.pc \notin {"reinit3", "wait3"},
         op'.pc \in {"reset", "reset2"} => map = {},
         op'.do = "stop" /\ op'.pc # "idle" => op'.svc \notin on,
         state = "boot" => ~power_off',
         state = "boot" /\ cp_state = "run" => op'.pc \in {"reinit", "reinit2"},
         rx' = rx \/ rx'.pc \in {"idle", "tellbt"},
         work' = work \/ (work = "telling" /\ work' = "clear") \/ work' = "idle",
         work' \in Busy \/ rx'.pc \in Handling => cp_state # "run"
  PROVE  Sound'
<1> USE DEF Sound, RxAt
<1>0. /\ air' = <<>> /\ fw' = [state |-> state, serving |-> {}, todo |-> {}]
      /\ rx.pc \notin {"ready", "version"} /\ odd \subseteq odd'
      /\ rx'.pc \notin {"ready", "version"}
  BY CleanReset
<1>1. Kinds' = {} /\ Readies' = {} /\ Ordered'
  BY <1>0 DEF Kinds, Readies, Ordered
<1>2. AirInv'
  BY <1>0, <1>1 DEF AirInv
<1>3. (\A s \in Services : ~ReadyDue(s)') /\ ~ExitDue'
  BY <1>0, <1>1 DEF ReadyDue, ExitDue
<1>4. LifeInv'
  BY <1>0, <1>1, <1>3 DEF LifeInv
<1>5. DueInv'
  BY <1>0, <1>1, <1>3 DEF DueInv
<1>6. VersionInv'
  BY <1>0, <1>1 DEF VersionInv, VersionDue
<1>7. MapInv'
  BY <1>0 DEF MapInv
<1>8. MutexInv'
  BY DEF MutexInv, Busy
<1>9. AssertInv'
  BY <1>0, <1>1 DEF AssertInv, Clearing
<1> QED
  BY <1>2, <1>4, <1>5, <1>6, <1>7, <1>8, <1>9

\* What the steps of an operation have in common.
LEMMA OpPlace ==
  ASSUME TypeOK, NEW pc, op' = [op EXCEPT !.pc = pc]
  PROVE  op'.pc = pc /\ op'.do = op.do /\ op'.svc = op.svc
  BY DEF TypeOK

\* The start and the stop of a service that the firmware is told.
LEMMA SendStartSound ==
  ASSUME TypeOK, PlaceInv, Sound, Clean', OpSendStart, cp_state = "run"
  PROVE  Sound'
<1> USE DEF Sound, RxAt, OpAt, OpOnly, Caller, host
<1>0. /\ op.pc = "send" /\ op.do = "start" /\ op'.pc = "reinit3" /\ op'.do = "start"
      /\ op'.svc = op.svc /\ op.svc \in Services /\ <<"stop", op.svc>> \notin fw.todo
      /\ UNCHANGED <<cp_state, map, power_off, on, rx, work, air, done>>
  BY OpPlace DEF OpSendStart, OpTo, PlaceInv, TypeOK, Clean
<1>1. Kinds' = Kinds /\ Readies' = Readies /\ Ordered' = Ordered
  BY <1>0, AirSame
<1>2. /\ fw'.state = fw.state /\ fw'.serving = fw.serving
      /\ fw'.todo = fw.todo \/ (fw'.todo = fw.todo \cup {<<"start", op.svc>>} /\ fw.state \in {"boot", "up"})
  BY <1>0 DEF OpSendStart, Command, TypeOK
<1>3. ~ExitDue /\ \A s \in Services : ~ReadyDue(s)
  BY <1>0, NothingDue
<1>4. Readies = {} /\ ~RxAt("ready")
  <2>1. rx.svc \in Services /\ Readies \subseteq Services
    BY AirFacts DEF TypeOK
  <2> QED
    BY <1>3, <2>1 DEF ReadyDue
<1>5. ~VersionDue
  BY <1>0 DEF VersionInv
<1>6. \A s \in Services : ReadyDue(s)' => s = op.svc
  BY <1>0, <1>1, <1>2, <1>3, <1>4 DEF ReadyDue
<1>7. ~ExitDue'
  BY <1>1, <1>2, <1>3 DEF ExitDue
<1>8. AirInv'
  BY <1>0, <1>1, <1>2 DEF AirInv
<1>9. LifeInv'
  BY <1>0, <1>1, <1>2, <1>6 DEF LifeInv
<1>10. DueInv'
  <2>1. <<"stop", "bt">> \notin fw'.todo
    BY <1>7 DEF ExitDue
  <2> QED
    BY <1>0, <1>1, <1>2, <1>4, <1>6, <1>7, <2>1 DEF DueInv, Waiting
<1>11. VersionInv'
  BY <1>0, <1>1, <1>2, <1>5 DEF VersionInv, VersionDue
<1>12. MapInv'
  BY <1>0, <1>2 DEF MapInv
<1>13. MutexInv'
  BY <1>0 DEF MutexInv
<1>14. AssertInv'
  BY <1>0, <1>1, <1>2 DEF AssertInv, Clearing
<1> QED
  BY <1>8, <1>9, <1>10, <1>11, <1>12, <1>13, <1>14

LEMMA SendStopSound ==
  ASSUME TypeOK, PlaceInv, Sound, OpSendStop, cp_state = "run"
  PROVE  Sound'
<1> USE DEF Sound, RxAt, OpAt, OpOnly, Caller, host
<1>0. /\ op.pc = "stop" /\ op.do = "stop" /\ op'.do = "stop"
      /\ op'.pc = "off" \/ (op'.pc = "reinit3" /\ op.svc = "bt")
      /\ op.svc = "bt" => op'.pc = "reinit3"
      /\ op'.svc = op.svc /\ op.svc \in Services
      /\ UNCHANGED <<cp_state, map, power_off, on, rx, work, air, done>>
  BY OpPlace DEF OpSendStop, OpTo, PlaceInv, TypeOK, Services
<1>1. Kinds' = Kinds /\ Readies' = Readies /\ Ordered' = Ordered
  BY <1>0, AirSame
<1>2. /\ fw'.state = fw.state /\ fw'.serving = fw.serving
      /\ fw'.todo = fw.todo \/ (fw'.todo = fw.todo \cup {<<"stop", op.svc>>} /\ fw.state \in {"boot", "up"})
  BY <1>0 DEF OpSendStop, Command, TypeOK
<1>3. ~ExitDue /\ \A s \in Services : ~ReadyDue(s)
  BY <1>0, NothingDue
<1>4. Readies = {} /\ ~RxAt("ready") /\ "exit" \notin Kinds
  <2>1. rx.svc \in Services /\ Readies \subseteq Services
    BY AirFacts DEF TypeOK
  <2> QED
    BY <1>3, <2>1 DEF ReadyDue, ExitDue
<1>5. ~VersionDue
  BY <1>0 DEF VersionInv
<1>6. \A s \in Services : ~ReadyDue(s)'
  <2>1. \A s : <<"start", s>> # <<"stop", op.svc>>
    OBVIOUS
  <2>2. \A s \in Services : <<"start", s>> \notin fw'.todo
    BY <1>2, <1>3, <2>1 DEF ReadyDue
  <2> QED
    BY <1>0, <1>1, <1>4, <2>2 DEF ReadyDue
<1>7. ExitDue' => op'.pc = "reinit3" /\ op.svc = "bt"
  BY <1>0, <1>1, <1>2, <1>3 DEF ExitDue
<1>8. AirInv'
  BY <1>0, <1>1, <1>2 DEF AirInv
<1>9. LifeInv'
  BY <1>0, <1>1, <1>2, <1>6 DEF LifeInv, MapInv
<1>10. DueInv'
  <2>1. \A s \in Services : <<"start", s>> \notin fw'.todo
    BY <1>6 DEF ReadyDue
  <2> QED
    BY <1>0, <1>1, <1>2, <1>4, <1>6, <1>7, <2>1 DEF DueInv, Waiting
<1>11. VersionInv'
  BY <1>0, <1>1, <1>2, <1>5 DEF VersionInv, VersionDue
<1>12. MapInv'
  BY <1>0, <1>2 DEF MapInv
<1>13. MutexInv'
  BY <1>0 DEF MutexInv
<1>14. AssertInv'
  BY <1>0, <1>1, <1>2 DEF AssertInv, Clearing
<1> QED
  BY <1>8, <1>9, <1>10, <1>11, <1>12, <1>13, <1>14

\* An operation waits for the answer to what it has asked.
LEMMA WaitSound ==
  ASSUME TypeOK, Sound, UNCHANGED <<cp_state, map, power_off, on, rx, work, fw, air>>,
         op.pc = "reinit3", op'.pc = "wait3", op'.do = op.do, op'.svc = op.svc, ~done'
  PROVE  Sound'
<1> USE DEF Sound, RxAt
<1>1. Kinds' = Kinds /\ Readies' = Readies /\ Ordered' = Ordered
  BY AirSame
<1>2. AirInv'
  BY <1>1 DEF AirInv
<1>3. (\A s : ReadyDue(s)' = ReadyDue(s)) /\ ExitDue' = ExitDue
  BY <1>1 DEF ReadyDue, ExitDue
<1>4. LifeInv'
  BY <1>1, <1>3 DEF LifeInv
<1>5. DueInv'
  BY <1>1, <1>3 DEF DueInv, Waiting
<1>6. VersionInv'
  BY <1>1 DEF VersionInv, VersionDue
<1>7. MapInv'
  BY DEF MapInv
<1>8. MutexInv'
  BY DEF MutexInv
<1>9. AssertInv'
  BY <1>1 DEF AssertInv, Clearing
<1> QED
  BY <1>2, <1>4, <1>5, <1>6, <1>7, <1>8, <1>9

\* The service is taken from the map, which is as it was read.
LEMMA ClearSound ==
  ASSUME TypeOK, PlaceInv, Sound, Clean', OpClear
  PROVE  Sound'
<1> USE DEF Sound, RxAt, OpAt, OpOnly, Caller, host
<1>0. /\ op.pc = "clear" /\ op.do = "stop" /\ op'.do = "stop" /\ op'.pc = "stop"
      /\ op'.svc = op.svc /\ map' = map \ {op.svc}
      /\ UNCHANGED <<cp_state, power_off, on, rx, work, fw, air, done>>
  BY DEF OpClear, PlaceInv, TypeOK, Clean
<1>1. Kinds' = Kinds /\ Readies' = Readies /\ Ordered' = Ordered
  BY <1>0, AirSame
<1>2. AirInv'
  BY <1>0, <1>1 DEF AirInv
<1>3. ~ExitDue /\ \A s \in Services : ~ReadyDue(s)
  BY <1>0, NothingDue
<1>4. (\A s \in Services : ~ReadyDue(s)') /\ ~ExitDue'
  BY <1>0, <1>1, <1>3 DEF ReadyDue, ExitDue
<1>5. ~RxAt("ready")
  BY <1>3 DEF ReadyDue, TypeOK
<1>6. LifeInv'
  BY <1>0, <1>1, <1>4, <1>5 DEF LifeInv
<1>7. DueInv'
  BY <1>0, <1>1, <1>4, <1>5 DEF DueInv
<1>8. VersionInv'
  BY <1>0, <1>1 DEF VersionInv, VersionDue
<1>9. MapInv'
  BY <1>0, <1>5 DEF MapInv
<1>10. MutexInv'
  BY <1>0 DEF MutexInv
<1>11. AssertInv'
  BY <1>0, <1>1 DEF AssertInv, Clearing
<1> QED
  BY <1>2, <1>6, <1>7, <1>8, <1>9, <1>10, <1>11

LEMMA PlaceNext == TypeOK /\ PlaceInv /\ [Next]_vars => PlaceInv'
<1> SUFFICES ASSUME TypeOK, PlaceInv, [Next]_vars PROVE PlaceInv'
  OBVIOUS
<1>1. ASSUME op' = op PROVE PlaceInv'
  BY <1>1 DEF PlaceInv
<1>2. ASSUME NEW ok, OpEnds(ok) PROVE PlaceInv'
  BY <1>2 DEF OpEnds, PlaceInv, NoOp
<1>3. ASSUME NEW who, NEW what, NEW s, Enter(who, what, s) PROVE PlaceInv'
  BY <1>3 DEF Enter, PlaceInv
<1>4. CASE Op
  <2> USE DEF OpAt, OpTo, TypeOK
  <2>1. op.do = "start" \/ op.do = "stop"
    OBVIOUS
  <2>2. CASE OpBegin \/ OpReset \/ OpBooted
    BY <2>1, <2>2 DEF OpBegin, OpReset, OpBooted, AfterBoot, PlaceInv
  <2>3. CASE OpReinit \/ OpLocked
    BY <2>3 DEF OpReinit, OpLocked, PlaceInv
  <2>4. CASE OpStop \/ OpClear
    <3>1. op.do = "stop" /\ op'.do = op.do /\ op'.pc \in {"clear", "off", "stop"}
      BY <2>4, OpFields DEF OpStop, OpClear, PlaceInv
    <3> QED
      BY <3>1 DEF PlaceInv
  <2>5. CASE OpAwaited \/ OpSendStart
    <3>1. op.do = "start"
      BY <2>5 DEF OpAwaited, OpSendStart, PlaceInv
    <3>2. (\E ok : OpEnds(ok)) \/ (op'.do = op.do /\ op'.pc \in {"locked", "reinit3"})
      BY <2>5, OpPlace DEF OpAwaited, OpSendStart
    <3> QED
      BY <1>2, <3>1, <3>2 DEF PlaceInv
  <2>6. CASE OpSendStop
    <3>1. (\E ok : OpEnds(ok)) \/ \E pc \in {"off", "reinit3"} : OpTo(pc) /\ op.do = "stop"
      BY <2>6 DEF OpSendStop, PlaceInv
    <3> QED
      BY <1>2, <3>1 DEF PlaceInv
  <2>7. CASE OpWoken \/ OpTimesOut \/ OpOff
    BY <1>2, <2>1, <2>7 DEF OpWoken, OpTimesOut, OpOff, PlaceInv
  <2> QED
    BY <1>4, <2>2, <2>3, <2>4, <2>5, <2>6, <2>7 DEF Op
<1>5. CASE Rx
  BY <1>1, <1>3, <1>5
  DEF Rx, RxReady, RxServiceUp, RxBtExit, RxAssert, RxAssertSet, RxClear, RxTellWifi, RxTellBt,
      RxDumpDone, RxUnwatch, RxReset, RxVersion, RxRunning, RxOnly
<1>6. CASE Work
  BY <1>1, <1>3, <1>6
  DEF Work, WorkFires, WorkLooks, WorkTellsWifi, WorkClears, WorkResets, WorkWaits
<1>7. CASE AssertTest \/ Asserter \/ Firmware \/ FwCrashes \/ FwHangs
  BY <1>1, <1>7
  DEF AssertTest, Asserter, AssertSet, AssertIrq, AssertWatch, AssertOnly, Firmware, FwBoots,
      FwServes, FwDumps, FwCrashes, FwHangs, FwOnly, threads
<1>8. CASE UNCHANGED vars \/ RecoveryWork \/ \E s \in Services : Call("start", s) \/ Call("stop", s)
  BY <1>1, <1>3, <1>8 DEF vars, threads, RecoveryWork, Call
<1> QED
  BY <1>4, <1>5, <1>6, <1>7, <1>8 DEF Next

LEMMA OpSound ==
  ASSUME TypeOK, PlaceInv, Sound, Clean', Op
  PROVE  Sound'
<1> USE DEF OpAt, OpOnly, Caller, host
<1>1. CASE OpBegin
  <2>1. \E pc \in {"reset", "await", "lock"} : OpTo(pc) /\ (pc = "reset" => power_off)
    BY <1>1 DEF OpBegin, AfterBoot
  <2> QED
    BY <1>1, <2>1, OpPlace, NothingDue, OpMoves DEF OpBegin, OpTo, Sound, MapInv, VersionInv
<1>2. CASE OpReset
  <2>1. op.pc \in {"reset", "reset2"} /\ map = {} /\ ~ExitDue
    BY <1>2 DEF OpReset, Sound, MapInv, DueInv, Waiting
  <2>2. /\ op'.pc \in {"await", "lock", "send", "reinit", "reinit2"}
        /\ op'.do = op.do /\ op'.svc = op.svc
    BY <1>2, OpPlace DEF OpReset, OpTo, AfterBoot
  <2>3. op.do = "stop" => op.svc \notin on
    BY <2>1 DEF Sound, MapInv
  <2>4. UNCHANGED <<map, cp_state, on, rx, work>>
    BY <1>2 DEF OpReset
  <2>5. work \in Busy \/ rx.pc \in Handling => cp_state # "run"
    BY DEF Sound, MutexInv
  <2>6. CASE RecoveryMode /\ OpTo(IF cp_state = "run"
                                  THEN IF OpAt("reset") THEN "reinit" ELSE "reinit2"
                                  ELSE IF OpAt("reset") THEN AfterBoot ELSE "send")
    <3>1. cp_state = "run" => op'.pc \in {"reinit", "reinit2"}
      BY <2>6, OpPlace DEF OpTo
    <3>2. ~power_off' /\ Reset("boot", {})
      BY <2>6 DEF RecoveryMode
    <3> QED
      BY <2>1, <2>2, <2>3, <2>4, <2>5, <3>1, <3>2, ResetSound
  <2>7. CASE RecoveryFails
    <3>1. Reset("dead", {"again"})
      BY <2>7 DEF RecoveryFails
    <3> QED
      BY <2>1, <2>2, <2>3, <2>4, <2>5, <3>1, ResetSound
  <2> QED
    BY <1>2, <2>6, <2>7 DEF OpReset
<1>3. CASE OpReinit
  <2>1. CASE OpAt("reinit3") /\ OpTo("wait3")
    BY <1>3, <2>1, OpPlace, WaitSound DEF OpReinit, OpTo
  <2>2. CASE (OpAt("reinit") /\ OpTo("wait")) \/ (OpAt("reinit2") /\ OpTo("wait2"))
    BY <1>3, <2>2, OpPlace, NothingDue, OpMoves DEF OpReinit, OpTo
  <2> QED
    BY <1>3, <2>1, <2>2 DEF OpReinit
<1>4. CASE OpBooted
  <2>1. op.pc \in {"wait", "wait2"} /\ op'.pc \in {"await", "lock", "send"}
        /\ op'.do = op.do /\ op'.svc = op.svc
    BY <1>4, OpPlace DEF OpBooted, OpTo, AfterBoot
  <2>2. VersionDue => done
    BY <1>4, AirFacts DEF OpBooted, GivesUp, Clean, VersionDue
  <2>3. ~(VersionDue /\ cp_state = "run")
    BY <2>1, <2>2 DEF Sound, VersionInv
  <2> QED
    BY <1>4, <2>1, <2>3, NothingDue, OpMoves DEF OpBooted
<1>5. op.pc \notin {"reinit", "wait", "reinit2", "wait2"} => ~(VersionDue /\ cp_state = "run")
  BY DEF Sound, VersionInv
<1>6. CASE OpAwaited
  <2>1. CASE op.svc \in map
    BY <1>5, <1>6, <2>1, NothingDue, OpEndsSound DEF OpAwaited
  <2>2. CASE op.svc \notin map
    BY <1>5, <1>6, <2>2, OpPlace, NothingDue, OpMoves DEF OpAwaited, OpTo
  <2> QED
    BY <2>1, <2>2
<1>7. CASE OpLocked
  <2>1. \E pc \in {"reset2", "send"} : OpTo(pc) /\ (pc = "reset2" => map = {})
    BY <1>7 DEF OpLocked
  <2> QED
    BY <1>5, <1>7, <2>1, OpPlace, NothingDue, OpMoves DEF OpLocked, OpTo
<1>8. CASE OpSendStart
  <2>1. CASE cp_state # "run"
    BY <1>8, <2>1, NothingDue, OpEndsSound DEF OpSendStart
  <2> QED
    BY <1>8, <2>1, SendStartSound
<1>9. CASE OpWoken
  <2>1. ~ExitDue /\ (\A s \in Services : ~ReadyDue(s)) /\ (op.do = "start" => op.svc \in map)
    BY <1>9 DEF OpWoken, Sound, DueInv, Waiting
  <2>2. CASE op.do = "start"
    BY <1>5, <1>9, <2>1, <2>2, OpEndsSound DEF OpWoken
  <2>3. CASE op.do # "start"
    BY <1>5, <1>9, <2>1, <2>3, OpPlace, OpMoves DEF OpWoken, OpTo
  <2> QED
    BY <2>2, <2>3
<1>10. CASE OpTimesOut
  <2>1. fw.todo = {} /\ air = <<>> /\ ~RxAt("ready")
    BY <1>10 DEF OpTimesOut, GivesUp, Clean, RxAt
  <2>2. ~ExitDue /\ (\A s \in Services : ~ReadyDue(s))
    BY <2>1, AirFacts DEF ExitDue, ReadyDue
  <2>3. CASE op.do = "start"
    BY <1>5, <1>10, <2>2, <2>3, OpEndsSound DEF OpTimesOut
  <2>4. CASE op.do # "start"
    BY <1>5, <1>10, <2>2, <2>4, OpPlace, OpMoves DEF OpTimesOut, OpTo
  <2> QED
    BY <2>3, <2>4
<1>11. CASE OpStop
  <2>1. op.pc = "lock" /\ op'.pc \in {"clear", "off"} /\ op'.do = op.do /\ op'.svc = op.svc
    BY <1>11, OpFields DEF OpStop, OpTo
  <2> QED
    BY <1>5, <1>11, <2>1, NothingDue, OpMoves DEF OpStop
<1>12. CASE OpClear
  BY <1>12, ClearSound
<1>13. CASE OpSendStop
  <2>1. CASE cp_state # "run"
    BY <1>13, <2>1, NothingDue, OpEndsSound DEF OpSendStop
  <2> QED
    BY <1>13, <2>1, SendStopSound
<1>14. CASE OpOff
  <2>0. op.pc = "off" /\ op.do = "stop" /\ OpEnds(TRUE)
    BY <1>14 DEF OpOff, PlaceInv
  <2>1. CASE cp_state = "run" /\ map = {} /\ ~power_off
    <3>1. /\ op' = NoOp /\ op'.pc = "idle" /\ on' = on
          /\ rx' = rx \/ rx'.pc \in {"idle", "tellbt"}
          /\ work' = work \/ (work = "telling" /\ work' = "clear")
      BY <2>0 DEF OpEnds, NoOp, TypeOK, RxIdle
    <3>2. work' \notin Busy /\ rx'.pc \notin Handling
      <4>1. work \notin Busy /\ rx.pc \notin Handling
        BY <2>1 DEF Sound, MutexInv
      <4>2. op.by # "rx" /\ op.by # "work"
        BY <4>1 DEF TypeOK, Busy, Handling, RxAt
      <4> QED
        BY <2>0, <4>1, <4>2 DEF OpEnds
    <3>3. Reset("off", {}) /\ UNCHANGED <<map, cp_state>>
      BY <1>14, <2>1 DEF OpOff
    <3> QED
      BY <2>0, <2>1, <3>1, <3>2, <3>3, ResetSound
  <2>2. CASE ~(cp_state = "run" /\ map = {} /\ ~power_off)
    BY <1>5, <1>14, <2>0, <2>2, NothingDue, OpEndsSound DEF OpOff
  <2> QED
    BY <2>1, <2>2
<1> QED
  BY <1>1, <1>2, <1>3, <1>4, <1>6, <1>7, <1>8, <1>9, <1>10, <1>11, <1>12, <1>13, <1>14 DEF Op

\* A step that only changes what is thought of the firmware, or goes on with
\* the handling of an exception.
LEMMA StateSound ==
  ASSUME TypeOK, Sound, UNCHANGED <<op, done, fw, air, map, power_off, on>>,
         rx' = rx \/ (rx.pc # "ready" /\ rx'.pc \notin {"ready", "version"}),
         cp_state' = "run" => cp_state = "run" \/ ~VersionDue,
         MutexInv', AssertInv'
  PROVE  Sound'
<1> USE DEF Sound, RxAt
<1>1. Kinds' = Kinds /\ Readies' = Readies /\ Ordered' = Ordered
  BY AirSame
<1>2. AirInv'
  BY <1>1 DEF AirInv
<1>3. (\A s : ReadyDue(s)' = ReadyDue(s)) /\ ExitDue' = ExitDue
  BY <1>1 DEF ReadyDue, ExitDue
<1>4. LifeInv'
  BY <1>1, <1>3 DEF LifeInv
<1>5. DueInv'
  BY <1>1, <1>3 DEF DueInv, Waiting
<1>6. VersionInv'
  BY <1>1 DEF VersionInv, VersionDue
<1>7. MapInv'
  BY DEF MapInv
<1> QED
  BY <1>2, <1>4, <1>5, <1>6, <1>7

LEMMA EnterSound ==
  ASSUME TypeOK, Sound, UNCHANGED <<cp_state, fw, air, map, power_off, done>>,
         NEW who, NEW what, NEW s, Enter(who, what, s),
         rx' = rx \/ (rx.pc \in {"tellwifi", "tellbt"} /\ rx'.pc = "telling"),
         work' = work \/ (work = "tellwifi" /\ work' = "telling")
  PROVE  Sound'
<1> USE DEF Sound, RxAt
<1>0. /\ op.pc = "idle" /\ op'.pc = "begin" /\ on' \subseteq on
      /\ op'.do = "stop" => op'.svc \notin on'
  BY DEF Enter, NoOp
<1>1. Kinds' = Kinds /\ Readies' = Readies /\ Ordered' = Ordered
  BY AirSame
<1>2. AirInv'
  BY <1>1 DEF AirInv
<1>3. ~ExitDue /\ \A t \in Services : ~ReadyDue(t)
  BY <1>0, NothingDue
<1>4. (\A t \in Services : ~ReadyDue(t)') /\ ~ExitDue'
  BY <1>1, <1>3 DEF ReadyDue, ExitDue
<1>5. LifeInv'
  BY <1>1, <1>4 DEF LifeInv
<1>6. DueInv'
  BY <1>0, <1>1, <1>4 DEF DueInv
<1>7. VersionInv'
  BY <1>0, <1>1 DEF VersionInv, VersionDue
<1>8. MapInv'
  BY <1>0 DEF MapInv
<1>9. MutexInv'
  BY <1>0 DEF MutexInv, Busy, Handling
<1>10. AssertInv'
  BY <1>1 DEF AssertInv, Clearing
<1> QED
  BY <1>2, <1>5, <1>6, <1>7, <1>8, <1>9, <1>10

\* The RX thread hears that a service is there.
LEMMA ReadySound ==
  ASSUME TypeOK, Sound, RxReady
  PROVE  Sound'
<1> USE DEF Sound, RxAt, RxOnly, host
<1>0. /\ rx.pc = "idle" /\ rx'.pc = "ready" /\ rx'.svc = Head(air).svc /\ rx'.old = map
      /\ UNCHANGED <<cp_state, map, power_off, done, work, fw, on, op>>
      /\ Ordered /\ Take("ready")
  BY DEF RxReady, Take, AirInv
<1>1. /\ "ready" \in Kinds /\ Kinds' = Kinds \ {"ready"} /\ Ordered'
      /\ Readies' = {} /\ Readies = {rx'.svc}
      /\ \A k \in Kinds' : Rank["ready"] < Rank[k]
  BY <1>0, AirTaken
<1>2. "version" \notin Kinds /\ "exit" \notin Kinds /\ fw.state # "boot"
  <2>1. "version" \notin Kinds' /\ "exit" \notin Kinds'
    BY <1>1 DEF Rank
  <2>2. fw.state # "boot"
    BY <1>0 DEF AirInv, Take
  <2> QED
    BY <1>1, <2>1, <2>2
<1>3. AirInv'
  BY <1>0, <1>1, <1>2 DEF AirInv
<1>4. ReadyDue(rx'.svc) /\ rx'.svc \in Services
  BY <1>1, AirFacts DEF ReadyDue
<1>5. op.pc \in {"reinit3", "wait3"} /\ op.do = "start" /\ op.svc = rx'.svc
  BY <1>4 DEF DueInv, Waiting
<1>6. \A s \in Services : <<"start", s>> \notin fw.todo
  BY <1>1 DEF DueInv
<1>7. \A s \in Services : ReadyDue(s)' => s = rx'.svc
  BY <1>0, <1>1, <1>6 DEF ReadyDue
<1>8. LifeInv'
  BY <1>0, <1>1, <1>4, <1>7 DEF LifeInv
<1>9. ~ExitDue'
  BY <1>0, <1>1, <1>2, <1>5 DEF ExitDue, DueInv, Waiting
<1>10. DueInv'
  <2>1. ~(op.pc = "wait3" /\ done)
    BY <1>4, <1>5 DEF DueInv
  <2>2. <<"stop", "bt">> \notin fw.todo
    BY <1>0, <1>9 DEF ExitDue
  <2> QED
    BY <1>0, <1>1, <1>5, <1>6, <1>7, <1>9, <2>1, <2>2 DEF DueInv, Waiting
<1>11. VersionInv'
  BY <1>0, <1>1, <1>2 DEF VersionInv, VersionDue
<1>12. MapInv'
  BY <1>0, <1>5 DEF MapInv, Take
<1>13. MutexInv'
  BY <1>0 DEF MutexInv, Handling
<1>14. AssertInv'
  BY <1>0, <1>1 DEF AssertInv, Clearing
<1> QED
  BY <1>3, <1>8, <1>10, <1>11, <1>12, <1>13, <1>14

LEMMA ServiceUpSound ==
  ASSUME TypeOK, Sound, RxServiceUp
  PROVE  Sound'
<1> USE DEF Sound, RxAt, RxOnly, host
<1>0. /\ rx.pc = "ready" /\ rx'.pc = "idle" /\ map' = map \cup {rx.svc} /\ done'
      /\ rx.svc \in Services
      /\ UNCHANGED <<cp_state, power_off, work, fw, on, op, air>>
  BY DEF RxServiceUp, RxIdle, MapInv, TypeOK
<1>1. Kinds' = Kinds /\ Readies' = Readies /\ Ordered' = Ordered
  BY <1>0, AirSame
<1>2. AirInv'
  BY <1>0, <1>1 DEF AirInv
<1>3. op.pc \in {"reinit3", "wait3"} /\ op.do = "start" /\ op.svc = rx.svc /\ ReadyDue(rx.svc)
  BY <1>0 DEF DueInv, Waiting, ReadyDue
<1>4. Readies = {} /\ \A s \in Services : <<"start", s>> \notin fw.todo
  BY <1>0 DEF DueInv
<1>5. (\A s \in Services : ~ReadyDue(s)') /\ ~ExitDue'
  BY <1>0, <1>1, <1>3, <1>4 DEF ReadyDue, ExitDue, DueInv, Waiting
<1>6. LifeInv'
  BY <1>0, <1>1, <1>3, <1>5 DEF LifeInv
<1>7. DueInv'
  BY <1>0, <1>1, <1>3, <1>4, <1>5 DEF DueInv, ExitDue
<1>8. ~VersionDue
  BY <1>0 DEF VersionInv
<1>9. VersionInv'
  BY <1>0, <1>1, <1>8 DEF VersionInv, VersionDue
<1>10. MapInv'
  BY <1>0, <1>3 DEF MapInv
<1>11. MutexInv'
  BY <1>0 DEF MutexInv, Handling
<1>12. AssertInv'
  <2>1. cp_state # "blocked" /\ work # "reset" /\ (fw.state \in {"dump", "dumped"} \/ "dumpdone" \in Kinds => "assert" \in Kinds)
    BY <1>0, <1>3 DEF MutexInv, AssertInv, Busy
  <2> QED
    BY <1>0, <1>1, <2>1 DEF AssertInv, Clearing
<1> QED
  BY <1>2, <1>6, <1>7, <1>9, <1>10, <1>11, <1>12

LEMMA ExitSound ==
  ASSUME TypeOK, Sound, RxBtExit
  PROVE  Sound'
<1> USE DEF Sound, RxAt, RxOnly, host
<1>0. /\ rx.pc = "idle" /\ done' /\ Ordered /\ Take("exit")
      /\ UNCHANGED <<cp_state, map, power_off, work, fw, on, op, rx>>
  BY DEF RxBtExit, Take, AirInv
<1>1. /\ "exit" \in Kinds /\ Kinds' = Kinds \ {"exit"} /\ Ordered' /\ Readies' = Readies
      /\ \A k \in Kinds' : Rank["exit"] < Rank[k]
  BY <1>0, AirTaken
<1>2. "version" \notin Kinds /\ "ready" \notin Kinds /\ fw.state # "boot"
  <2>1. "version" \notin Kinds' /\ "ready" \notin Kinds'
    BY <1>1 DEF Rank
  <2>2. fw.state # "boot"
    BY <1>0 DEF AirInv, Take
  <2> QED
    BY <1>1, <2>1, <2>2
<1>3. AirInv'
  BY <1>0, <1>1, <1>2 DEF AirInv
<1>4. op.pc \in {"reinit3", "wait3"} /\ op.do = "stop" /\ op.svc = "bt" /\ <<"stop", "bt">> \notin fw.todo
  BY <1>1 DEF DueInv, Waiting, ExitDue
<1>5. (\A s : ReadyDue(s)' <=> ReadyDue(s)) /\ ~ExitDue'
  BY <1>0, <1>1, <1>4 DEF ReadyDue, ExitDue
<1>6. LifeInv'
  BY <1>0, <1>1, <1>5 DEF LifeInv
<1>7. DueInv'
  BY <1>0, <1>1, <1>4, <1>5 DEF DueInv, Waiting
<1>8. VersionInv'
  BY <1>0, <1>1, <1>2 DEF VersionInv, VersionDue
<1>9. MapInv'
  BY <1>0 DEF MapInv, Take
<1>10. MutexInv'
  BY <1>0 DEF MutexInv
<1>11. AssertInv'
  BY <1>0, <1>1 DEF AssertInv, Clearing
<1> QED
  BY <1>3, <1>6, <1>7, <1>8, <1>9, <1>10, <1>11

\* An assert or the end of a dump is heard: nothing else can still be on the
\* way that an operation waits for.
LEMMA HeardSound ==
  ASSUME TypeOK, Sound, NEW kind \in {"assert", "dumpdone"}, Take(kind),
         UNCHANGED <<op, done, fw, map, power_off, on, work>>,
         rx'.pc \notin {"ready", "version"}, cp_state' = "run" => cp_state = "run",
         MutexInv', AssertInv'
  PROVE  Sound'
<1> USE DEF Sound, RxAt
<1>0. rx.pc = "idle" /\ Ordered /\ air # <<>>
  BY DEF Take, AirInv
<1>1. /\ kind \in Kinds /\ Kinds' = Kinds \ {kind} /\ Ordered' /\ Readies' = Readies
  BY <1>0, AirTaken
<1>2. AirInv'
  BY <1>0, <1>1 DEF AirInv
<1>3. (\A s : ReadyDue(s)' <=> ReadyDue(s)) /\ (ExitDue' <=> ExitDue)
  BY <1>0, <1>1 DEF ReadyDue, ExitDue
<1>4. LifeInv'
  BY <1>0, <1>1, <1>3 DEF LifeInv
<1>5. DueInv'
  BY <1>0, <1>1, <1>3 DEF DueInv, Waiting
<1>6. VersionInv'
  BY <1>0, <1>1 DEF VersionInv, VersionDue
<1>7. MapInv'
  BY <1>0 DEF MapInv
<1> QED
  BY <1>2, <1>4, <1>5, <1>6, <1>7

LEMMA ClearedSound ==
  ASSUME TypeOK, Sound, map' = {}, on' \subseteq map',
         UNCHANGED <<op, done, fw, air, power_off, cp_state>>,
         op.pc \notin {"reinit3", "wait3"},
         rx' = rx \/ (rx.pc = "clear" /\ rx'.pc = "tellwifi"),
         work' = work \/ (work = "clear" /\ work' = "reset")
  PROVE  Sound'
<1> USE DEF Sound, RxAt
<1>1. Kinds' = Kinds /\ Readies' = Readies /\ Ordered' = Ordered
  BY AirSame
<1>2. AirInv'
  BY <1>1 DEF AirInv
<1>3. ~ExitDue /\ \A t \in Services : ~ReadyDue(t)
  BY NothingDue
<1>4. (\A t \in Services : ~ReadyDue(t)') /\ ~ExitDue' /\ ~RxAt("ready")
  BY <1>1, <1>3 DEF ReadyDue, ExitDue, TypeOK
<1>5. LifeInv'
  BY <1>1, <1>4 DEF LifeInv
<1>6. DueInv'
  BY <1>1, <1>4 DEF DueInv
<1>7. VersionInv'
  BY <1>1 DEF VersionInv, VersionDue
<1>8. MapInv'
  BY <1>4 DEF MapInv
<1>9. MutexInv'
  BY DEF MutexInv, Busy, Handling
<1>10. AssertInv'
  BY <1>1 DEF AssertInv, Clearing
<1> QED
  BY <1>2, <1>5, <1>6, <1>7, <1>8, <1>9, <1>10

LEMMA VersionSound ==
  ASSUME TypeOK, Sound, RxVersion
  PROVE  Sound'
<1> USE DEF Sound, RxAt, RxOnly, RxTo, RxIdle, host
<1>0. /\ rx.pc = "idle" /\ rx'.pc = "version" /\ Ordered /\ Take("version")
      /\ on' \subseteq on /\ (cp_state # "run" => done' = done)
      /\ UNCHANGED <<cp_state, map, power_off, work, fw, op>>
  BY DEF RxVersion, Take, AirInv
<1>1. /\ "version" \in Kinds /\ Kinds' = Kinds \ {"version"} /\ Ordered' /\ Readies' = Readies
  BY <1>0, AirTaken
<1>2. VersionDue /\ fw.state # "boot" /\ map = {} /\ ~power_off
  BY <1>0, <1>1 DEF VersionDue, VersionInv, AirInv, Take, MapInv
<1>3. AirInv'
  BY <1>0, <1>1, <1>2 DEF AirInv
<1>4. (\A s : ReadyDue(s)' <=> ReadyDue(s)) /\ (ExitDue' <=> ExitDue)
  BY <1>0, <1>1 DEF ReadyDue, ExitDue
<1>5. LifeInv'
  BY <1>0, <1>1, <1>4 DEF LifeInv
<1>6. DueInv'
  <2>1. op.pc = "wait3" => done' = done
    BY <1>0, <1>2 DEF VersionInv
  <2> QED
    BY <1>0, <1>1, <1>4, <2>1 DEF DueInv, Waiting
<1>7. VersionInv'
  BY <1>0, <1>1, <1>2 DEF VersionInv, VersionDue
<1>8. MapInv'
  BY <1>0, <1>2 DEF MapInv
<1>9. MutexInv'
  BY <1>0 DEF MutexInv, Handling
<1>10. AssertInv'
  BY <1>0, <1>1 DEF AssertInv, Clearing
<1> QED
  BY <1>3, <1>5, <1>6, <1>7, <1>8, <1>9, <1>10

LEMMA RxSound ==
  ASSUME TypeOK, Sound, Clean', Rx
  PROVE  Sound'
<1> USE DEF RxOnly, RxTo, RxIdle, host
<1>1. CASE RxReady \/ RxServiceUp \/ RxBtExit \/ RxVersion
  BY <1>1, ReadySound, ServiceUpSound, ExitSound, VersionSound
<1>2. CASE RxAssert
  <2>1. /\ Take("assert") /\ rx.pc = "idle" /\ rx'.pc = "assert"
        /\ UNCHANGED <<op, done, fw, map, power_off, on, work, cp_state>>
    BY <1>2 DEF RxAssert, Take, RxAt
  <2>2. MutexInv'
    BY <2>1 DEF Sound, MutexInv, Handling
  <2>3. Kinds' = Kinds \ {"assert"} /\ Kinds' \subseteq {"dumpdone"}
    <3>1. Kinds' = Kinds \ {"assert"} /\ \A k \in Kinds' : Rank["assert"] < Rank[k]
      BY <2>1, AirTaken DEF Sound, AirInv
    <3> QED
      BY <3>1, AirFacts DEF Rank
  <2>4. AssertInv'
    BY <2>1, <2>3 DEF Sound, AssertInv, Clearing, RxAt
  <2> QED
    BY <2>1, <2>2, <2>4, HeardSound
<1>3. CASE RxAssertSet
  <2>1. /\ rx.pc = "assert" /\ op.pc \notin {"reinit3", "wait3"}
        /\ \/ rx'.pc = "idle" /\ cp_state = "blocked" /\ cp_state' = cp_state
           \/ rx'.pc = "clear" /\ cp_state' = "assert"
        /\ UNCHANGED <<op, done, fw, air, map, power_off, on, work>>
    BY <1>3 DEF RxAssertSet, RxAt, ExceptMutex
  <2>2. MutexInv'
    BY <2>1 DEF Sound, MutexInv, Handling
  <2>3. Kinds' = Kinds
    BY <2>1, AirSame
  <2>4. AssertInv'
    BY <2>1, <2>3 DEF Sound, AssertInv, Clearing, RxAt
  <2> QED
    BY <2>1, <2>2, <2>4, StateSound
<1>4. CASE RxClear
  <2>1. rx.pc = "clear" /\ op.pc \notin {"reinit3", "wait3"}
    BY <1>4 DEF RxClear, RxAt, Sound, MutexInv, Handling
  <2> QED
    BY <1>4, <2>1, ClearedSound DEF RxClear
<1>5. CASE RxTellWifi
  BY <1>5, EnterSound DEF RxTellWifi, RxAt
<1>6. CASE RxTellBt
  <2>1. CASE RxTo("telling") /\ Enter("rx", "stop", "bt")
    BY <1>6, <2>1, EnterSound DEF RxTellBt, RxAt
  <2>2. CASE rx' = RxIdle /\ UNCHANGED <<op, on>>
    <3>1. MutexInv'
      BY <1>6, <2>2 DEF RxTellBt, Sound, MutexInv, Handling
    <3>2. Kinds' = Kinds
      BY <1>6, AirSame DEF RxTellBt
    <3>3. AssertInv'
      BY <1>6, <2>2, <3>2 DEF RxTellBt, RxAt, Sound, AssertInv, Clearing
    <3> QED
      BY <1>6, <2>2, <3>1, <3>3, StateSound DEF RxTellBt, RxAt
  <2> QED
    BY <1>6, <2>1, <2>2 DEF RxTellBt
<1>7. CASE RxDumpDone
  <2>1. /\ Take("dumpdone") /\ rx.pc = "idle" /\ op.pc \notin {"reinit3", "wait3"}
        /\ \/ rx' = rx /\ cp_state = "blocked" /\ cp_state' = cp_state
           \/ rx'.pc = "unwatch" /\ cp_state' = "dumpdone"
        /\ UNCHANGED <<op, done, fw, map, power_off, on, work>>
    BY <1>7 DEF RxDumpDone, Take, RxAt, ExceptMutex
  <2>2. MutexInv'
    BY <2>1 DEF Sound, MutexInv, Handling
  <2>3. "dumpdone" \in Kinds /\ Kinds' = {}
    <3>1. /\ "dumpdone" \in Kinds /\ Kinds' = Kinds \ {"dumpdone"}
          /\ \A k \in Kinds' : Rank["dumpdone"] < Rank[k]
      BY <2>1, AirTaken DEF Sound, AirInv
    <3> QED
      BY <3>1, AirFacts DEF Rank
  <2>4. "assert" \notin Kinds
    <3>1. Rank["dumpdone"] = 4 /\ Rank["assert"] = 3
      BY DEF Rank
    <3> QED
      BY <2>1, <2>3, AirTaken DEF Sound, AirInv
  <2>5. Clearing
    BY <2>1, <2>3, <2>4 DEF Sound, AssertInv
  <2>6. AssertInv'
    BY <2>1, <2>3, <2>5 DEF Sound, AssertInv, Clearing, RxAt
  <2> QED
    BY <2>1, <2>2, <2>6, HeardSound
<1>8. CASE RxUnwatch
  <2>1. /\ rx.pc = "unwatch" /\ rx'.pc = "reset" /\ work = "idle"
        /\ UNCHANGED <<op, done, fw, air, map, power_off, on, work, cp_state>>
    BY <1>8 DEF RxUnwatch, RxAt
  <2>2. MutexInv'
    BY <2>1 DEF Sound, MutexInv, Handling
  <2>3. Kinds' = Kinds
    BY <2>1, AirSame
  <2>4. AssertInv'
    BY <2>1, <2>3 DEF Sound, AssertInv, Clearing, RxAt
  <2> QED
    BY <2>1, <2>2, <2>4, StateSound
<1>9. CASE RxReset
  <2>1. /\ rx.pc = "reset" /\ rx'.pc = "idle" /\ map = {}
        /\ cp_state # "run" /\ op.pc \notin {"reinit3", "wait3"}
        /\ UNCHANGED <<map, cp_state, on, op, work>>
    BY <1>9 DEF RxReset, RxAt, Sound, AssertInv, MutexInv, Handling
  <2>2. op.do = "stop" /\ op.pc # "idle" => op.svc \notin on
    BY DEF Sound, MapInv
  <2>3. CASE RecoveryMode
    BY <2>1, <2>2, <2>3, ResetSound DEF RecoveryMode
  <2>4. CASE RecoveryFails
    BY <2>1, <2>2, <2>4, ResetSound DEF RecoveryFails
  <2> QED
    BY <1>9, <2>3, <2>4 DEF RxReset
<1>10. CASE RxRunning
  <2>1. /\ rx.pc = "version" /\ rx'.pc = "idle" /\ cp_state' = "run" /\ work \notin Busy
        /\ UNCHANGED <<op, done, fw, air, map, power_off, on, work>>
    BY <1>10 DEF RxRunning, RxAt, Clean, Busy
  <2>2. MutexInv'
    BY <2>1 DEF Sound, MutexInv, Handling
  <2>3. Kinds' = Kinds
    BY <2>1, AirSame
  <2>4. AssertInv'
    BY <2>1, <2>3 DEF Sound, AssertInv, Clearing, RxAt
  <2>5. ~VersionDue
    BY <2>1 DEF Sound, VersionInv, RxAt
  <2> QED
    BY <2>1, <2>2, <2>4, <2>5, StateSound
<1> QED
  BY <1>1, <1>2, <1>3, <1>4, <1>5, <1>6, <1>7, <1>8, <1>9, <1>10 DEF Rx

LEMMA WorkSound ==
  ASSUME TypeOK, Sound, Clean', Work
  PROVE  Sound'
<1> USE DEF WorkOnly, host
<1>1. CASE WorkFires \/ WorkLooks \/ WorkWaits
  <2>1. UNCHANGED <<op, done, fw, air, map, power_off, on, rx>>
    BY <1>1 DEF WorkFires, WorkLooks, WorkWaits, Sound, MutexInv
  <2>2. /\ \/ work' \notin Busy /\ cp_state' = cp_state
           \/ work' \in {"tellwifi", "clear"} /\ cp_state' = "blocked" /\ op.pc \notin {"reinit3", "wait3"}
        /\ work \in {"idle", "look"} /\ work' \notin {"reinit", "wait"}
    BY <1>1 DEF WorkFires, WorkLooks, WorkWaits, Sound, MutexInv, Busy, ExceptMutex
  <2>3. MutexInv'
    BY <2>1, <2>2 DEF Sound, MutexInv, Busy
  <2>4. Kinds' = Kinds
    BY <2>1, AirSame
  <2>5. AssertInv'
    BY <2>1, <2>2, <2>4 DEF Sound, AssertInv, Clearing, RxAt, Busy
  <2> QED
    BY <2>1, <2>2, <2>3, <2>5, StateSound
<1>2. CASE WorkTellsWifi
  BY <1>2, EnterSound DEF WorkTellsWifi
<1>3. CASE WorkClears
  <2>1. op.pc \notin {"reinit3", "wait3"}
    BY <1>3 DEF WorkClears, Sound, MutexInv, Busy
  <2>2. on' = {}
    BY <1>3 DEF WorkClears, Clean
  <2> QED
    BY <1>3, <2>1, <2>2, ClearedSound DEF WorkClears
<1>4. CASE WorkResets
  <2>1. /\ work = "reset" /\ map = {} /\ cp_state # "run" /\ op.pc \notin {"reinit3", "wait3"}
        /\ UNCHANGED <<map, cp_state, on, op, rx>>
    BY <1>4 DEF WorkResets, RxAt, Sound, AssertInv, MutexInv, Busy
  <2>2. op.do = "stop" /\ op.pc # "idle" => op.svc \notin on
    BY DEF Sound, MapInv
  <2>3. CASE RecoveryMode
    BY <1>4, <2>1, <2>2, <2>3, ResetSound DEF RecoveryMode, WorkResets
  <2>4. CASE RecoveryFails
    BY <1>4, <2>1, <2>2, <2>4, ResetSound DEF RecoveryFails, WorkResets
  <2> QED
    BY <1>4, <2>3, <2>4 DEF WorkResets
<1> QED
  BY <1>1, <1>2, <1>3, <1>4 DEF Work

\* The firmware asserts, or hangs.
LEMMA FailSound ==
  ASSUME TypeOK, Sound, UNCHANGED <<cp_state, map, power_off, done, work, op, rx, on>>,
         \/ fw.state \in {"boot", "up"} /\ Asserts
         \/ /\ fw.state \in {"boot", "up", "dump"} /\ air' = air
            /\ fw' = [state |-> "dead", serving |-> {}, todo |-> {}]
  PROVE  Sound'
<1> USE DEF Sound, RxAt
<1>1. /\ fw'.todo = {} /\ fw'.state \in {"dump", "dead"}
      /\ Ordered' /\ Readies' = Readies
      /\ \/ fw'.state = "dump" /\ fw.state \in {"boot", "up"} /\ Kinds' = Kinds \cup {"assert"}
         \/ fw'.state = "dead" /\ fw.state \in {"boot", "up", "dump"} /\ Kinds' = Kinds /\ air' = air
  <2>1. CASE fw.state \in {"boot", "up"} /\ Asserts
    <3>1. \A k \in Kinds : Rank[k] < Rank["assert"]
      <4>1. Kinds \subseteq {"ready", "exit", "version"}
        BY <2>1, AirFacts DEF AirInv
      <4> QED
        BY <4>1 DEF Rank
    <3>2. Packet("assert", "wifi") \in Packets /\ "wifi" \in Services
      BY DEF Packet, Packets, Services
    <3> QED
      BY <2>1, <3>1, <3>2, AirSent DEF Asserts, AirInv
  <2>2. CASE /\ fw.state \in {"boot", "up", "dump"} /\ air' = air
             /\ fw' = [state |-> "dead", serving |-> {}, todo |-> {}]
    BY <2>2, AirSame DEF AirInv
  <2> QED
    BY <2>1, <2>2
<1>2. AirInv'
  BY <1>1 DEF AirInv
<1>3. (\A s : ReadyDue(s)' => ReadyDue(s)) /\ (ExitDue' => ExitDue)
  BY <1>1 DEF ReadyDue, ExitDue
<1>4. LifeInv'
  BY <1>1 DEF LifeInv
<1>5. DueInv'
  BY <1>1, <1>3 DEF DueInv, Waiting
<1>6. VersionInv'
  BY <1>1 DEF VersionInv, VersionDue
<1>7. MapInv'
  BY <1>1 DEF MapInv
<1>8. MutexInv'
  BY DEF MutexInv
<1>9. AssertInv'
  BY <1>1 DEF AssertInv, Clearing, AirInv
<1> QED
  BY <1>2, <1>4, <1>5, <1>6, <1>7, <1>8, <1>9

LEMMA AsserterSound ==
  ASSUME TypeOK, Sound, AssertTest \/ Asserter
  PROVE  Sound'
<1> USE DEF AssertOnly
<1>1. UNCHANGED <<op, done, map, power_off, on, rx, work>> /\ (cp_state' = cp_state \/ cp_state' = "assert")
  BY DEF AssertTest, Asserter, AssertSet, AssertIrq, AssertWatch
<1>2. CASE UNCHANGED <<fw, air>>
  <2>1. MutexInv'
    BY <1>1 DEF Sound, MutexInv
  <2>2. Kinds' = Kinds
    BY <1>2, AirSame
  <2>3. AssertInv'
    BY <1>1, <1>2, <2>2 DEF Sound, AssertInv, Clearing, RxAt
  <2> QED
    BY <1>1, <1>2, <2>1, <2>3, StateSound
<1>3. CASE ~UNCHANGED <<fw, air>>
  <2>1. fw.state \in {"boot", "up"} /\ Asserts /\ cp_state' = cp_state
    BY <1>3 DEF AssertTest, Asserter, AssertSet, AssertIrq, AssertWatch
  <2> QED
    BY <1>1, <2>1, FailSound
<1> QED
  BY <1>2, <1>3

LEMMA BootsSound ==
  ASSUME TypeOK, Sound, FwBoots
  PROVE  Sound'
<1> USE DEF Sound, RxAt, FwOnly, host, threads
<1>0. /\ fw.state = "boot" /\ fw'.state = "up" /\ fw'.serving = fw.serving /\ fw'.todo = fw.todo
      /\ UNCHANGED <<cp_state, map, power_off, done, work, op, rx, on>>
  BY DEF FwBoots, TypeOK
<1>1. air = <<>> /\ VersionDue
  BY <1>0 DEF AirInv, VersionDue
<1>2. Kinds = {} /\ Readies = {} /\ Ordered
  BY <1>1, AirFacts
<1>3. Kinds' = {"version"} /\ Readies' = {} /\ Ordered'
  <2>1. Packet("version", "wifi") \in Packets /\ "wifi" \in Services
    BY DEF Packet, Packets, Services
  <2> QED
    BY <1>2, <2>1, AirSent DEF FwBoots
<1>4. AirInv'
  BY <1>0, <1>3 DEF AirInv
<1>5. (\A s : ReadyDue(s)' <=> ReadyDue(s)) /\ (ExitDue' <=> ExitDue)
  BY <1>0, <1>2, <1>3 DEF ReadyDue, ExitDue
<1>6. fw.todo = {} /\ map = {} /\ ~RxAt("ready")
  BY <1>1 DEF VersionInv
<1>7. LifeInv'
  BY <1>0, <1>3, <1>6 DEF LifeInv
<1>8. DueInv'
  BY <1>0, <1>2, <1>3, <1>5 DEF DueInv, Waiting
<1>9. VersionInv'
  BY <1>0, <1>1, <1>3 DEF VersionInv, VersionDue
<1>10. MapInv'
  BY <1>0 DEF MapInv
<1>11. MutexInv'
  BY <1>0 DEF MutexInv
<1>12. AssertInv'
  BY <1>0, <1>3 DEF AssertInv, Clearing
<1> QED
  BY <1>4, <1>7, <1>8, <1>9, <1>10, <1>11, <1>12

LEMMA DumpsSound ==
  ASSUME TypeOK, Sound, FwDumps
  PROVE  Sound'
<1> USE DEF Sound, RxAt, FwOnly, host, threads
<1>0. /\ fw.state = "dump" /\ fw'.state = "dumped" /\ fw'.todo = fw.todo
      /\ UNCHANGED <<cp_state, map, power_off, done, work, op, rx, on>>
  BY DEF FwDumps, TypeOK
<1>1. Kinds' = Kinds \cup {"dumpdone"} /\ Readies' = Readies /\ Ordered'
  <2>1. Packet("dumpdone", "wifi") \in Packets /\ "wifi" \in Services
    BY DEF Packet, Packets, Services
  <2>2. \A k \in Kinds : Rank[k] < Rank["dumpdone"]
    <3>1. Kinds \subseteq {"ready", "exit", "version", "assert"}
      BY <1>0, AirFacts DEF AirInv
    <3> QED
      BY <3>1 DEF Rank
  <2> QED
    BY <2>1, <2>2, AirSent DEF FwDumps, AirInv
<1>2. AirInv'
  BY <1>0, <1>1 DEF AirInv
<1>3. (\A s : ReadyDue(s)' <=> ReadyDue(s)) /\ (ExitDue' <=> ExitDue)
  BY <1>0, <1>1 DEF ReadyDue, ExitDue
<1>4. LifeInv'
  BY <1>0, <1>1, <1>3 DEF LifeInv
<1>5. DueInv'
  BY <1>0, <1>1, <1>3 DEF DueInv, Waiting
<1>6. VersionInv'
  BY <1>0, <1>1 DEF VersionInv, VersionDue
<1>7. MapInv'
  BY <1>0 DEF MapInv
<1>8. MutexInv'
  BY <1>0 DEF MutexInv
<1>9. AssertInv'
  BY <1>0, <1>1 DEF AssertInv, Clearing
<1> QED
  BY <1>2, <1>4, <1>5, <1>6, <1>7, <1>8, <1>9

\* The firmware carries out a command.
LEMMA ServesSound ==
  ASSUME TypeOK, Sound, FwServes
  PROVE  Sound'
<1> USE DEF Sound, RxAt, FwOnly, host, threads
<1>0. fw.state = "up" /\ UNCHANGED <<cp_state, map, power_off, done, work, op, rx, on>>
  BY DEF FwServes
<1>1. PICK c \in fw.todo :
        IF c[1] = "start"
        THEN /\ fw' = [fw EXCEPT !.todo = @ \ {c}, !.serving = @ \cup {c[2]}]
             /\ air' = Append(air, Packet("ready", c[2]))
        ELSE /\ fw' = [fw EXCEPT !.todo = @ \ {c}, !.serving = @ \ {c[2]}]
             /\ air' = IF c[2] = "bt" THEN Append(air, Packet("exit", c[2])) ELSE air
  BY DEF FwServes
<1>2. PICK what \in {"start", "stop"}, s \in Services : c = <<what, s>>
  BY DEF TypeOK
<1>3. ~VersionDue /\ Kinds \subseteq {"ready", "exit"}
  <2>1. ~VersionDue
    BY <1>1 DEF VersionInv
  <2> QED
    BY <1>0, <2>1, AirFacts DEF AirInv, VersionDue
<1>4. fw'.state = "up" /\ fw'.todo = fw.todo \ {<<what, s>>}
  BY <1>0, <1>1, <1>2 DEF TypeOK
<1>5. ASSUME "version" \notin Kinds' PROVE VersionInv' /\ MapInv' /\ MutexInv'
  <2>1. MapInv' /\ MutexInv'
    BY <1>0 DEF MapInv, MutexInv
  <2> QED
    BY <1>0, <1>4, <1>5, <2>1 DEF VersionInv, VersionDue
<1>6. CASE what = "start"
  <2>1. <<"start", s>> \in fw.todo /\ ReadyDue(s)
    BY <1>1, <1>2, <1>6 DEF ReadyDue
  <2>2. Waiting("start") /\ op.svc = s /\ Readies = {} /\ ~RxAt("ready") /\ ~ExitDue
    BY <2>1 DEF DueInv, Waiting
  <2>3. Kinds = {}
    BY <1>3, <2>2, AirFacts DEF ExitDue
  <2>4. Packet("ready", s) \in Packets /\ air' = Append(air, Packet("ready", s))
        /\ fw'.serving = fw.serving \cup {s}
    BY <1>1, <1>2, <1>6 DEF Packet, Packets, Services, TypeOK
  <2>5. Kinds' = {"ready"} /\ Ordered' /\ Readies' = {s}
    BY <2>2, <2>3, <2>4, AirSent DEF AirInv
  <2>6. AirInv'
    BY <1>4, <2>5 DEF AirInv
  <2>7. ~ExitDue' /\ \A t \in Services : ReadyDue(t)' => t = s
    <3>1. \A t \in Services : ReadyDue(t) => t = s
      BY <2>2 DEF DueInv
    <3> QED
      BY <1>0, <1>4, <2>2, <2>5, <3>1 DEF ExitDue, ReadyDue
  <2>8. LifeInv'
    <3>1. <<"stop", s>> \notin fw.todo
      BY <2>1 DEF LifeInv
    <3> QED
      BY <1>0, <1>4, <2>2, <2>4, <2>5, <2>7, <3>1 DEF LifeInv
  <2>9. DueInv'
    <3>1. \A t \in Services : <<"start", t>> \notin fw'.todo
      <4>1. \A t \in Services : <<"start", t>> \in fw.todo => t = s
        BY <2>2 DEF DueInv, ReadyDue
      <4> QED
        BY <1>4, <1>6, <4>1
    <3>2. <<"stop", "bt">> \notin fw'.todo
      BY <2>7 DEF ExitDue
    <3>3. op.do = "start" /\ op.pc \in {"reinit3", "wait3"} /\ op.svc = s
      BY <2>2 DEF Waiting
    <3>4. ~(op.pc = "wait3" /\ done)
      BY <2>1, <3>3 DEF DueInv
    <3> QED
      BY <1>0, <2>2, <2>5, <2>7, <3>1, <3>2, <3>3, <3>4 DEF DueInv, Waiting
  <2>10. AssertInv'
    BY <1>0, <1>4, <2>5 DEF AssertInv, Clearing
  <2> QED
    BY <1>5, <2>5, <2>6, <2>8, <2>9, <2>10
<1>7. CASE what = "stop"
  <2>1. <<"stop", s>> \in fw.todo /\ s \notin map /\ ~ReadyDue(s) /\ fw'.serving = fw.serving \ {s}
    BY <1>1, <1>2, <1>7 DEF LifeInv, TypeOK
  <2>2. CASE s = "bt"
    <3>1. ExitDue /\ Waiting("stop") /\ op.svc = "bt" /\ "exit" \notin Kinds
      BY <2>1, <2>2 DEF ExitDue, DueInv
    <3>2. \A t \in Services : ~ReadyDue(t)
      BY <3>1 DEF DueInv, Waiting
    <3>3. Readies = {} /\ Kinds = {} /\ ~RxAt("ready")
      <4>1. Readies = {}
        BY <3>2, AirFacts DEF ReadyDue
      <4>2. ~RxAt("ready")
        BY <3>2 DEF ReadyDue, TypeOK
      <4> QED
        BY <1>3, <3>1, <4>1, <4>2, AirFacts
    <3>4. Packet("exit", s) \in Packets /\ air' = Append(air, Packet("exit", s))
      BY <1>1, <1>2, <1>7, <2>2 DEF Packet, Packets, Services
    <3>5. Kinds' = {"exit"} /\ Ordered' /\ Readies' = {}
      BY <3>3, <3>4, AirSent DEF AirInv
    <3>6. AirInv'
      BY <1>4, <3>5 DEF AirInv
    <3>7. \A t \in Services : ~ReadyDue(t)'
      BY <1>0, <1>4, <3>2, <3>5 DEF ReadyDue
    <3>8. LifeInv'
      BY <1>0, <1>4, <2>1, <3>3, <3>5, <3>7 DEF LifeInv
    <3>9. DueInv'
      <4>1. \A t \in Services : <<"start", t>> \notin fw'.todo
        BY <3>7 DEF ReadyDue
      <4>2. op.do = "stop" /\ op.pc \in {"reinit3", "wait3"} /\ op.svc = "bt" /\ <<"stop", "bt">> \notin fw'.todo
        BY <1>4, <1>7, <2>2, <3>1 DEF Waiting
      <4>3. ~(op.pc = "wait3" /\ done)
        BY <3>1, <4>2 DEF DueInv
      <4> QED
        BY <1>0, <3>3, <3>5, <3>7, <4>1, <4>2, <4>3 DEF DueInv, Waiting
    <3>10. AssertInv'
      BY <1>0, <1>4, <3>5 DEF AssertInv, Clearing
    <3> QED
      BY <1>5, <3>5, <3>6, <3>8, <3>9, <3>10
  <2>3. CASE s # "bt"
    <3>1. Kinds' = Kinds /\ Readies' = Readies /\ Ordered' = Ordered
      BY <1>1, <1>2, <1>7, <2>3, AirSame
    <3>2. (\A t : ReadyDue(t)' <=> ReadyDue(t)) /\ (ExitDue' <=> ExitDue)
      BY <1>0, <1>4, <1>7, <2>3, <3>1 DEF ReadyDue, ExitDue
    <3>3. AirInv'
      BY <1>0, <1>4, <3>1 DEF AirInv
    <3>4. LifeInv'
      <4>1. s \notin Readies /\ (RxAt("ready") => rx.svc # s)
        BY <2>1 DEF ReadyDue
      <4> QED
        BY <1>0, <1>4, <2>1, <3>1, <3>2, <4>1 DEF LifeInv
    <3>5. DueInv'
      BY <1>0, <1>4, <3>1, <3>2 DEF DueInv, Waiting
    <3>6. AssertInv'
      BY <1>0, <1>4, <3>1 DEF AssertInv, Clearing
    <3> QED
      BY <1>3, <1>5, <3>1, <3>3, <3>4, <3>5, <3>6
  <2> QED
    BY <2>2, <2>3
<1> QED
  BY <1>2, <1>6, <1>7

LEMMA SoundInit == Init => PlaceInv /\ Sound
<1> SUFFICES ASSUME Init PROVE PlaceInv /\ Sound
  OBVIOUS
<1> USE DEF Init
<1>1. Kinds = {} /\ Readies = {} /\ Ordered
  BY DEF Kinds, Readies, Ordered
<1>2. (\A s : ~ReadyDue(s)) /\ ~ExitDue /\ ~VersionDue
  BY <1>1 DEF ReadyDue, ExitDue, VersionDue, RxAt, RxIdle
<1>3. PlaceInv /\ AirInv /\ LifeInv
  BY <1>1, <1>2 DEF PlaceInv, AirInv, LifeInv, NoOp, RxAt, RxIdle
<1>4. DueInv /\ VersionInv
  BY <1>1, <1>2 DEF DueInv, VersionInv, NoOp, RxAt, RxIdle
<1>5. MapInv /\ MutexInv /\ AssertInv
  BY <1>1 DEF MapInv, MutexInv, AssertInv, Clearing, Busy, Handling, NoOp, RxAt, RxIdle
<1> QED
  BY <1>3, <1>4, <1>5 DEF Sound

LEMMA SoundNext == TypeOK /\ PlaceInv /\ Sound /\ [Next]_vars /\ Clean' => Sound'
<1> SUFFICES ASSUME TypeOK, PlaceInv, Sound, [Next]_vars, Clean' PROVE Sound'
  OBVIOUS
<1>1. CASE \E s \in Services : Call("start", s) \/ Call("stop", s)
  BY <1>1, EnterSound DEF Call, host
<1>2. CASE RecoveryWork
  BY <1>2, EnterSound DEF RecoveryWork, host
<1>3. CASE Op \/ Rx \/ Work
  BY <1>3, OpSound, RxSound, WorkSound
<1>4. CASE AssertTest \/ Asserter
  BY <1>4, AsserterSound
<1>5. CASE Firmware
  BY <1>5, BootsSound, ServesSound, DumpsSound DEF Firmware
<1>6. CASE FwCrashes \/ FwHangs
  BY <1>6, FailSound DEF FwCrashes, FwHangs, FwOnly, host, threads
<1>7. CASE UNCHANGED vars
  <2>1. UNCHANGED <<op, done, fw, air, map, power_off, on, rx, work, cp_state>>
    BY <1>7 DEF vars, host, threads, outside
  <2>2. MutexInv'
    BY <2>1 DEF Sound, MutexInv
  <2>3. Kinds' = Kinds
    BY <2>1, AirSame
  <2>4. AssertInv'
    BY <2>1, <2>3 DEF Sound, AssertInv, Clearing, RxAt
  <2> QED
    BY <2>1, <2>2, <2>4, StateSound
<1> QED
  BY <1>1, <1>2, <1>3, <1>4, <1>5, <1>6, <1>7 DEF Next

LEMMA SoundServed == (Clean => Sound) => OnIsServed
  BY DEF Clean, Sound, MapInv, LifeInv, OnIsServed

\* OnIsServed: whoever has been told that his service is started has a chip
\* that is switched on and, while a firmware is up, one that serves it, unless
\* what a former firmware said was still handled, the recovery forgot to tell
\* somebody, a start overtook a stop, or two writes of the map crossed.
THEOREM StartedIsServed == Spec => []OnIsServed
<1> DEFINE ServeInv == PlaceInv /\ (Clean => Sound)
<1>1. Init => ServeInv
  BY SoundInit
<1>2. TypeOK /\ ServeInv /\ [Next]_vars => ServeInv'
  <2> SUFFICES ASSUME TypeOK, ServeInv, [Next]_vars PROVE ServeInv'
    OBVIOUS
  <2>1. Clean' => Clean
    BY OddKept DEF Clean
  <2> QED
    BY <2>1, PlaceNext, SoundNext
<1>3. ServeInv => OnIsServed
  BY SoundServed
<1> QED
  BY <1>1, <1>2, <1>3, TypeCorrect, PTL DEF Spec
=============================================================================
