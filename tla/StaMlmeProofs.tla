---------------------------- MODULE StaMlmeProofs ----------------------------
(***************************************************************************)
(* Proofs about StaMlme for any access points, contexts, time limits and   *)
(* numbers of calls, refusals and events.                                  *)
(***************************************************************************)
EXTENDS StaMlme, SequenceTheorems, TLAPS

USE StaAssumption

\* What a resend of a watched state relies on.
RetryLeft == sm \in {"AUTHING", "AUTHED", "ASSOCING"} \/ Locked => retry < MaxRetry
BufKept == buf = NoRequest => air = <<>> /\ call = NoRequest /\ sm = "NONE" /\ keyed = None
TypeInv == TypeOK /\ RetryLeft /\ BufKept
-----------------------------------------------------------------------------
(* Requests and links                                                      *)

\* NoRequest is none of the requests.
LEMMA Requests == \A r \in Request : r # NoRequest /\ r.kind \in Kinds /\ r.to \in Bss
  BY DEF Request, NoRequest

\* skw_unjoin: the peer is looked up and unbound, or only stopped.
LEMMA UnjoinIs ==
  ASSUME NEW l \in Link, NEW b \in Bss \cup {None}, NEW ok \in BOOLEAN
  PROVE  /\ Unjoin(l, b, ok) \in Link
         /\ \/ SlotOf(l, b) = {} /\ Unjoin(l, b, ok) = l
            \/ \E s \in SlotOf(l, b) :
                  \/ ok /\ Unjoin(l, b, ok) = Wiped(l, s)
                  \/ ~ok /\ Unjoin(l, b, ok) = [l EXCEPT !.tx = @ \ {s}]
<1>1. CASE SlotOf(l, b) = {}
  BY <1>1 DEF Unjoin
<1>2. CASE SlotOf(l, b) # {}
  <2> DEFINE s == CHOOSE x \in SlotOf(l, b) : TRUE
  <2>1. s \in SlotOf(l, b) /\ s \in Slots
    BY <1>2 DEF SlotOf
  <2>2. Unjoin(l, b, ok) = IF ok THEN Wiped(l, s) ELSE [l EXCEPT !.tx = @ \ {s}]
    BY <1>2 DEF Unjoin
  <2> HIDE DEF s
  <2>3. Wiped(l, s) \in Link /\ [l EXCEPT !.tx = @ \ {s}] \in Link
    BY <2>1 DEF Wiped, Link
  <2> QED
    BY <2>1, <2>2, <2>3
<1> QED
  BY <1>1, <1>2

\* What it makes of the link of this state.
LEMMA UnjoinType ==
  ASSUME TypeOK
  PROVE  /\ link \in Link /\ link.bss \in Bss \cup {None}
         /\ \A b \in Bss \cup {None}, ok \in BOOLEAN : Unjoin(link, b, ok) \in Link
<1>1. link \in Link /\ link.bss \in Bss \cup {None}
  BY DEF TypeOK, Link
<1> QED
  BY <1>1, UnjoinIs

LEMMA JoinType ==
  \A l \in Link, b \in Bss, s \in Slots : Join(l, b, s) \in Link
  BY DEF Join, Link

\* The bounds are kept.
Uses == [call : 0..MaxCall, refuse : 0..MaxRefuse, down : 0..MaxDown]

LEMMA UseType ==
  ASSUME TypeOK
  PROVE  /\ used \in Uses
         /\ used.call < MaxCall /\ Count => used' \in Uses
         /\ used.call < MaxCall /\ used.refuse < MaxRefuse /\ CountRefused => used' \in Uses
         /\ \A ok \in BOOLEAN : Command(ok) => used' \in Uses
         /\ \A ok \in BOOLEAN : CountDown(ok) => used' \in Uses
<1>1. {MaxCall, MaxRefuse, MaxDown} \subseteq Nat
  OBVIOUS
<1>2. used \in Uses
  BY DEF TypeOK, Uses
<1>3. ASSUME used.call < MaxCall, Count  PROVE used' \in Uses
  BY <1>1, <1>2, <1>3 DEF Count, Uses
<1>4. ASSUME used.call < MaxCall, used.refuse < MaxRefuse, CountRefused  PROVE used' \in Uses
  <2>1. used' = [call |-> used.call + 1, refuse |-> used.refuse + 1, down |-> used.down]
    BY <1>2, <1>4 DEF CountRefused, Uses
  <2> QED
    BY <1>1, <1>2, <1>4, <2>1 DEF Uses
<1>5. ASSUME NEW ok \in BOOLEAN, Command(ok)  PROVE used' \in Uses
  BY <1>1, <1>2, <1>5 DEF Command, Uses
<1>6. ASSUME NEW ok \in BOOLEAN, CountDown(ok)  PROVE used' \in Uses
  <2>1. CASE ok
    <3>1. used' = [call |-> used.call, refuse |-> used.refuse + 0, down |-> used.down + 1]
      BY <1>2, <1>6, <2>1 DEF CountDown, Uses
    <3> QED
      BY <1>1, <1>2, <1>6, <3>1 DEF CountDown, Uses
  <2>2. CASE ~ok
    <3>1. used' = [call |-> used.call, refuse |-> used.refuse + 1, down |-> used.down + 1]
      BY <1>2, <1>6, <2>2 DEF CountDown, Uses
    <3> QED
      BY <1>1, <1>2, <1>6, <2>2, <3>1 DEF CountDown, Uses
  <2> QED
    BY <2>1, <2>2
<1> QED
  BY <1>2, <1>3, <1>4, <1>5, <1>6

Oddities == {"overlap", "noop", "otherBss", "reassoc", "lateAuth", "lateAssoc", "lateKey"}

\* The clocks are started again, or go on up to their limits.
Ages == [auth : 0..Old, step : 0..2]

LEMMA AgeType ==
  ASSUME TypeOK
  PROVE  /\ age \in Ages /\ [age EXCEPT !.auth = 0] \in Ages /\ [age EXCEPT !.step = 0] \in Ages
         /\ [auth |-> IF age.auth < Old THEN age.auth + 1 ELSE Old,
             step |-> IF age.step < 2 THEN age.step + 1 ELSE 2] \in Ages
<1>1. age \in Ages /\ Old \in Nat
  BY DEF TypeOK, Ages, Old
<1> HIDE DEF Old
<1> QED
  BY <1>1 DEF Ages

\* What goes out is a request, within the bound.
LEMMA AiredIs ==
  ASSUME TypeOK, NEW r \in Request
  PROVE  Aired(r) \in Seq(Request) /\ Len(Aired(r)) <= MaxAir
  BY DEF TypeOK, Aired

LEMMA TailIs ==
  ASSUME TypeOK, air # <<>>
  PROVE  /\ Head(air) \in Request /\ Tail(air) \in Seq(Request)
         /\ Len(Tail(air)) = Len(air) - 1 /\ Len(air) \in Nat
  BY HeadTailProperties DEF TypeOK
-----------------------------------------------------------------------------
(* The types, by the action.                                               *)

LEMMA AuthTypes ==
  ASSUME TypeInv, NEW b \in Bss, NEW kind \in Kinds,
         \/ AuthReturns(b, kind) \/ AuthJoinFails(b, kind)
         \/ \E s \in Slots : AuthStart(b, kind, s)
  PROVE  TypeInv'
<1> USE DEF TypeInv, RetryLeft, BufKept, Locked
<1>0. [kind |-> kind, to |-> b] \in Request /\ [kind |-> kind, to |-> b] # NoRequest
  BY Requests DEF Request
<1>1. CASE AuthReturns(b, kind)
  BY <1>0, <1>1 DEF AuthReturns, MayAuth, Count, TypeOK, state, clock
<1>2. CASE AuthJoinFails(b, kind)
  <2>1. link' \in Link
    BY <1>2, UnjoinType DEF AuthJoinFails
  <2>2. used' \in Uses
    BY <1>2, UseType DEF AuthJoinFails, MayAuth
  <2>3. cur' \in Bss \cup {None}
        /\ sup' \in [want : Request \cup {NoRequest}, done : Request \cup {NoRequest}]
    BY <1>2 DEF AuthJoinFails, Gone, TypeOK
  <2>4. odd' \subseteq Oddities
    BY <1>2 DEF AuthJoinFails, Overlap, TypeOK, Oddities
  <2> QED
    BY <1>2, <2>1, <2>2, <2>3, <2>4
       DEF AuthJoinFails, MayAuth, TypeOK, States, clock, Uses, Oddities
<1>3. ASSUME NEW s \in Slots, AuthStart(b, kind, s)  PROVE TypeInv'
  <2>1. link' \in Link
    <3>1. CASE sm = "AUTHED"
      BY <1>3, <3>1, UnjoinType DEF AuthStart
    <3>2. CASE sm # "AUTHED"
      <4>1. Unjoin(link, link.bss, TRUE) \in Link
        BY UnjoinType
      <4>2. link' = Join(Unjoin(link, link.bss, TRUE), b, s)
        BY <1>3, <3>2 DEF AuthStart
      <4> QED
        BY <4>1, <4>2, JoinType
    <3> QED
      BY <3>1, <3>2
  <2>2. used' \in Uses
    BY <1>3, UseType DEF AuthStart, MayAuth
  <2>3. cur' \in Bss \cup {None}
        /\ sup' \in [want : Request \cup {NoRequest}, done : Request \cup {NoRequest}]
    BY <1>3 DEF AuthStart, Gone, TypeOK
  <2>4. odd' \subseteq Oddities
    BY <1>3 DEF AuthStart, Overlap, TypeOK, Oddities
  <2>5. age' \in Ages /\ timer' \in {"off", "armed", "due"}
    BY <1>3, AgeType DEF AuthStart, SetStaTimer, TypeOK
  <2> QED
    BY <1>0, <1>3, <2>1, <2>2, <2>3, <2>4, <2>5 
       DEF AuthStart, CmdAuth, TypeOK, States, Uses, Ages, Oddities
<1> QED
  BY <1>1, <1>2, <1>3

LEMMA AssocTypes ==
  ASSUME TypeInv, NEW b \in Bss,
         AssocReturns(b) \/ AssocJoinFails(b) \/ \E s \in Slots : AssocStart(b, s)
  PROVE  TypeInv'
<1> USE DEF TypeInv, RetryLeft, BufKept, Locked
<1>0. [kind |-> "assoc", to |-> b] \in Request /\ [kind |-> "assoc", to |-> b] # NoRequest
  BY Requests DEF Request, Kinds
<1>1. CASE AssocReturns(b)
  BY <1>0, <1>1 DEF AssocReturns, MayAssoc, Count, TypeOK, state, clock
<1>2. CASE AssocJoinFails(b)
  <2>1. link' \in Link
    BY <1>2, UnjoinType DEF AssocJoinFails
  <2>2. used' \in Uses
    BY <1>2, UseType DEF AssocJoinFails, MayAssoc
  <2>3. odd' \subseteq Oddities
    BY <1>2 DEF AssocJoinFails, Overlap, TypeOK, Oddities
  <2> QED
    BY <1>2, <2>1, <2>2, <2>3 DEF AssocJoinFails, TypeOK, States, clock, Uses, Oddities
<1>3. ASSUME NEW s \in Slots, AssocStart(b, s)  PROVE TypeInv'
  <2>1. link' \in Link
    <3>1. Unjoin(link, link.bss, TRUE) \in Link /\ link \in Link
      BY UnjoinType
    <3>2. link' = link \/ link' = Join(Unjoin(link, link.bss, TRUE), b, s)
      BY <1>3 DEF AssocStart
    <3> QED
      BY <3>1, <3>2, JoinType
  <2>2. used' \in Uses
    BY <1>3, UseType DEF AssocStart, MayAssoc
  <2>3. odd' \subseteq Oddities
    BY <1>3 DEF AssocStart, Overlap, TypeOK, Oddities
  <2>4. timer' \in {"off", "armed", "due"}
    BY <1>3 DEF AssocStart, SetStaTimer, TypeOK
  <2> QED
    BY <1>0, <1>3, <2>1, <2>2, <2>3, <2>4 DEF AssocStart, CmdAssoc, TypeOK, States, Uses, Oddities
<1> QED
  BY <1>1, <1>2, <1>3

\* The command of a call has ended, sent or refused.
LEMMA EndTypes ==
  ASSUME TypeInv, CallEnds
  PROVE  TypeInv'
<1> USE DEF TypeInv, RetryLeft, BufKept, Locked
<1> PICK sent, ok \in BOOLEAN : AuthEnd(sent, ok) \/ AssocEnd(sent, ok)
  BY DEF CallEnds
<1>0. call \in Request /\ Aired(call) \in Seq(Request) /\ Len(Aired(call)) <= MaxAir
  BY AiredIs DEF AuthEnd, AssocEnd, Locked, TypeOK
<1>1. link' \in Link
  BY <1>0, UnjoinType, Requests DEF AuthEnd, AssocEnd
<1>2. used' \in Uses
  <2>1. CASE sent
    BY <2>1, UseType DEF AuthEnd, AssocEnd
  <2>2. CASE ~sent
    <3>1. /\ used.refuse < MaxRefuse /\ (ok \/ used.refuse + 1 < MaxRefuse)
          /\ used' = [used EXCEPT !.refuse = @ + IF ok THEN 1 ELSE 2]
      BY <2>2 DEF AuthEnd, AssocEnd
    <3> QED
      BY <3>1, UseType DEF Uses
  <2> QED
    BY <2>1, <2>2
<1>3. odd' \subseteq Oddities
  BY DEF AuthEnd, AssocEnd, Overlap, TypeOK, Oddities
<1>4. /\ air' \in Seq(Request) /\ Len(air') <= MaxAir /\ timer' \in {"off", "armed", "due"}
      /\ sup' \in [want : Request \cup {NoRequest}, done : Request \cup {NoRequest}]
      /\ cbss' \in Bss \cup {None}
  <2>1. CASE sent
    BY <1>0, <2>1 DEF AuthEnd, AssocEnd, TypeOK
  <2>2. CASE ~sent
    BY <2>2 DEF AuthEnd, AssocEnd, TypeOK
  <2> QED
    BY <2>1, <2>2
<1>5. sm' \in States
  BY DEF AuthEnd, AssocEnd, TypeOK, States
<1>6. Locked
  BY DEF AuthEnd, AssocEnd
<1> QED
  BY <1>0, <1>1, <1>2, <1>3, <1>4, <1>5, <1>6
     DEF AuthEnd, AssocEnd, TypeOK, Locked, Uses, Oddities

\* A leave, a refusal or the end of the context of a peer.
LEMMA LeaveTypes ==
  ASSUME TypeInv, NEW b \in Bss \cup {None}, NEW ok \in BOOLEAN, Leave(b, ok)
  PROVE  /\ used' \in Uses /\ link' \in Link
         /\ sm' = "NONE" /\ sae' = FALSE /\ carrier' = FALSE /\ timer' = "off"
  BY UseType, UnjoinType DEF Leave, TypeInv

LEMMA LeaveBssTypes ==
  ASSUME TypeInv, NEW b \in Bss, NEW ok \in BOOLEAN, Deauth(b, ok) \/ Disassoc(b, ok)
  PROVE  TypeInv'
<1> USE DEF TypeInv, RetryLeft, BufKept, Locked
<1>1. LeaveBss(b, ok)
  BY DEF Deauth, Disassoc
<1>2. Leave(b, ok) /\ Gone(b)
  BY <1>1 DEF LeaveBss
<1>3. cur' \in Bss \cup {None}
      /\ sup' \in [want : Request \cup {NoRequest}, done : Request \cup {NoRequest}]
  BY <1>2 DEF Gone, TypeOK
<1>4. odd' \subseteq Oddities
  BY <1>1 DEF LeaveBss, Overlap, TypeOK, Oddities
<1>5. /\ used' \in Uses /\ link' \in Link
      /\ sm' = "NONE" /\ sae' = FALSE /\ carrier' = FALSE /\ timer' = "off"
  BY <1>2, LeaveTypes
<1>6. UNCHANGED <<cbss, retry, buf, work, age, call, ev, keyed, air>> /\ ~Locked
  BY <1>1 DEF LeaveBss
<1> QED
  BY <1>3, <1>4, <1>5, <1>6 DEF TypeOK, States, Uses, Oddities

LEMMA KeyTypes ==
  ASSUME TypeInv, Authorize \/ Authorized \/ SupplicantGivesUp
  PROVE  TypeInv'
<1> USE DEF TypeInv, RetryLeft, BufKept, Locked
<1>1. CASE Authorize
  BY <1>1 DEF Authorize, SlotOf, TypeOK, state, clock
<1>2. CASE Authorized
  <2>1. odd' \subseteq Oddities
    BY <1>2 DEF Authorized, TypeOK, Oddities
  <2>2. UNCHANGED <<sae, retry, buf, cbss, link, carrier, timer, work, age, call, ev, air, cur,
                    sup, used>> /\ ~Locked /\ keyed' = None /\ sm' = "COMPLETED"
    BY <1>2 DEF Authorized, clock
  <2>3. buf # NoRequest
    BY <1>2 DEF Authorized
  <2> QED
    BY <2>1, <2>2, <2>3 DEF TypeOK, States, Oddities
<1>3. CASE SupplicantGivesUp
  BY <1>3 DEF SupplicantGivesUp, Told, TypeOK, state, clock
<1> QED
  BY <1>1, <1>2, <1>3

LEMMA ClockTypes ==
  ASSUME TypeInv, Tick \/ StaTimer \/ StaWorkIdle
  PROVE  TypeInv'
<1> USE DEF TypeInv, RetryLeft, BufKept, Locked
<1>1. CASE Tick
  <2>1. age' \in Ages /\ timer' \in {"off", "armed", "due"}
    BY <1>1, AgeType DEF Tick, TypeOK
  <2> QED
    BY <1>1, <2>1 DEF Tick, TypeOK, state, Ages
<1>2. CASE StaTimer
  BY <1>2 DEF StaTimer, TypeOK, state
<1>3. CASE StaWorkIdle
  <2>1. UNCHANGED <<sm, sae, retry, buf, cbss, link, carrier, timer, age, call, ev, keyed, air,
                    cur, sup, odd, used>> /\ work' = FALSE
    BY <1>3 DEF StaWorkIdle, WorkRuns, state
  <2>2. TypeOK'
    <3>1. work' \in BOOLEAN /\ TypeOK
      BY <2>1
    <3> QED
      BY <2>1, <3>1 DEF TypeOK
  <2>3. RetryLeft' /\ BufKept'
    BY <2>1
  <2> QED
    BY <2>2, <2>3
<1> QED
  BY <1>1, <1>2, <1>3

\* The work resends what is kept.
LEMMA AgainTypes ==
  ASSUME TypeInv, NEW late \in BOOLEAN, StaWorkAgain(late)
  PROVE  TypeInv'
<1> USE DEF TypeInv, RetryLeft, BufKept, Locked
<1>1. sm \in {"AUTHING", "AUTHED", "ASSOCING"} /\ retry < MaxRetry /\ buf \in Request
  BY DEF StaWorkAgain, Watched, TypeOK
<1>2. retry' \in 0..MaxRetry /\ retry' < MaxRetry
  BY <1>1 DEF StaWorkAgain, TypeOK
<1>3. air' \in Seq(Request) /\ Len(air') <= MaxAir
  BY <1>1, AiredIs DEF StaWorkAgain, Resend, TypeOK
<1>4. sm' \in {sm, "AUTHING"} /\ buf' # NoRequest
  BY <1>1, Requests DEF StaWorkAgain, Resend
<1>5. /\ work' = FALSE /\ timer' \in {"off", "armed", "due"} /\ ~Locked
      /\ UNCHANGED <<sae, buf, cbss, link, carrier, age, call, ev, keyed, cur, sup, odd, used>>
  BY DEF StaWorkAgain, WorkRuns, SetStaTimer, TypeOK
<1>6. sm' \in States
  BY <1>1, <1>4 DEF States
<1> QED
  BY <1>2, <1>3, <1>4, <1>5, <1>6 DEF TypeOK

LEMMA GivesUpTypes ==
  ASSUME TypeInv, NEW late \in BOOLEAN, NEW ok \in BOOLEAN, StaWorkGivesUp(late, ok)
  PROVE  TypeInv'
<1> USE DEF TypeInv, RetryLeft, BufKept, Locked
<1>1. sm \in {"AUTHING", "AUTHED", "ASSOCING"} /\ retry < MaxRetry /\ buf \in Request
  BY DEF StaWorkGivesUp, Watched, TypeOK
<1>2. retry' \in 0..MaxRetry
  BY <1>1 DEF StaWorkGivesUp, TypeOK
<1>3. air' \in Seq(Request) /\ Len(air') <= MaxAir
  <2>1. air' = air \/ air' = Aired(buf)
    BY DEF StaWorkGivesUp
  <2>2. air \in Seq(Request) /\ Len(air) <= MaxAir
    BY DEF TypeOK
  <2> QED
    BY <1>1, <2>1, <2>2, AiredIs
<1>4. link.bss \in Bss \cup {None}
  BY UnjoinType
<1>5. /\ used' \in Uses /\ link' \in Link
      /\ sm' = "NONE" /\ sae' = FALSE /\ carrier' = FALSE /\ timer' = "off"
  <2>1. CASE Leave(link.bss, ok)
    BY <2>1, <1>4, LeaveTypes
  <2>2. CASE ~Leave(link.bss, ok)
    <3>1. /\ used.refuse < MaxRefuse /\ used' = [used EXCEPT !.refuse = @ + 1]
          /\ link' = Unjoin(link, link.bss, TRUE)
          /\ sm' = "NONE" /\ sae' = FALSE /\ carrier' = FALSE /\ timer' = "off"
      BY <2>2 DEF StaWorkGivesUp
    <3>2. used' \in Uses
      BY <3>1, UseType DEF Uses
    <3> QED
      BY <3>1, <3>2, <1>4, UnjoinType
  <2> QED
    BY <2>1, <2>2
<1>6. buf' = buf /\ buf # NoRequest
  BY <1>1, Requests DEF StaWorkGivesUp
<1> QED
  BY <1>2, <1>3, <1>5, <1>6
     DEF StaWorkGivesUp, WorkRuns, Told, TypeOK, States, Uses, Oddities

\* An answer comes.
LEMMA AuthAnswerTypes ==
  ASSUME TypeInv, NEW accepted \in BOOLEAN, NEW early \in BOOLEAN, NEW ok \in BOOLEAN,
         RxAuth(accepted, early, ok)
  PROVE  TypeInv'
<1> USE DEF TypeInv, RetryLeft, BufKept, Locked
<1> DEFINE req == Head(air)
<1>1. air # <<>> /\ req \in Request /\ req.to \in Bss /\ buf # NoRequest
  BY TailIs, Requests DEF RxAuth
<1>2. air' \in Seq(Request) /\ Len(air') <= MaxAir
  <2>1. Tail(air) \in Seq(Request) /\ Len(Tail(air)) = Len(air) - 1 /\ Len(air) <= MaxAir
        /\ Len(air) \in Nat
    BY <1>1, TailIs DEF TypeOK
  <2>2. [req EXCEPT !.kind = "confirm"] \in Request
    BY <1>1 DEF Request, Kinds
  <2>3. CASE early
    <3>1. air' = <<[req EXCEPT !.kind = "confirm"]>> \o Tail(air)
      BY <2>3 DEF RxAuth
    <3> HIDE DEF req
    <3> QED
      BY <2>1, <2>2, <3>1
  <2>4. CASE ~early
    <3>1. air' = <<>> \o Tail(air)
      BY <2>4 DEF RxAuth
    <3> QED
      BY <2>1, <3>1
  <2> QED
    BY <2>3, <2>4
<1>3. used' \in Uses /\ link' \in Link /\ carrier' \in BOOLEAN /\ timer' \in {"off", "armed", "due"}
      /\ sm' \in {"AUTHED", "NONE"} /\ sae' \in BOOLEAN
  <2>1. CASE accepted
    BY <2>1, UseType DEF RxAuth, TypeOK
  <2>2. CASE ~accepted
    <3>1. Command(ok) /\ link' = Unjoin(link, req.to, ok)
      BY <2>2 DEF RxAuth
    <3>2. used' \in Uses
      BY <3>1, UseType
    <3>3. link' \in Link
      BY <3>1, <1>1, UnjoinType
    <3> QED
      BY <2>2, <3>2, <3>3 DEF RxAuth
  <2> QED
    BY <2>1, <2>2
<1>4. sup' \in [want : Request \cup {NoRequest}, done : Request \cup {NoRequest}]
  BY <1>1 DEF RxAuth, Told, TypeOK
<1>5. odd' \subseteq Oddities
  BY DEF RxAuth, TypeOK, Oddities
<1>6. age' \in Ages /\ retry' \in 0..MaxRetry /\ retry' < MaxRetry
  BY AgeType DEF RxAuth
<1>7. UNCHANGED <<buf, cbss, work, call, ev, keyed, cur>>
  BY DEF RxAuth
<1>8. sm' \in States
  BY <1>3 DEF States
<1> QED
  BY <1>1, <1>2, <1>3, <1>4, <1>5, <1>6, <1>7, <1>8 DEF TypeOK, Uses, Ages, Oddities

LEMMA AssocAnswerTypes ==
  ASSUME TypeInv, NEW accepted \in BOOLEAN, RxAssoc(accepted)
  PROVE  TypeInv'
<1> USE DEF TypeInv, RetryLeft, BufKept, Locked
<1> DEFINE req == Head(air)
<1>1. air # <<>> /\ req \in Request /\ req.to \in Bss /\ buf # NoRequest
  BY TailIs, Requests DEF RxAssoc
<1>2. air' \in Seq(Request) /\ Len(air') <= MaxAir
  BY <1>1, TailIs DEF RxAssoc, TypeOK
<1>3. link' \in Link
  <2>1. link \in Link /\ link.slot \in Slots
    BY DEF RxAssoc, TypeOK, Link
  <2>2. link' = link \/ link' = [link EXCEPT !.tx = @ \cup {link.slot}]
    BY DEF RxAssoc
  <2> QED
    BY <2>1, <2>2 DEF Link
<1>4. cur' \in Bss \cup {None}
      /\ sup' \in [want : Request \cup {NoRequest}, done : Request \cup {NoRequest}]
  BY <1>1 DEF RxAssoc, Told, TypeOK
<1>5. odd' \subseteq Oddities
  BY DEF RxAssoc, TypeOK, Oddities
<1> QED
  BY <1>1, <1>2, <1>3, <1>4, <1>5 DEF RxAssoc, TypeOK, States, Uses, Oddities, clock

LEMMA LostTypes ==
  ASSUME TypeInv, RxStale \/ LoseFrame
  PROVE  TypeInv'
<1> USE DEF TypeInv, RetryLeft, BufKept, Locked
<1>1. air # <<>> /\ air' = Tail(air)
  BY DEF RxStale, LoseFrame
<1>2. air' \in Seq(Request) /\ Len(air') <= MaxAir
  BY <1>1, TailIs DEF TypeOK
<1> QED
  BY <1>1, <1>2 DEF RxStale, LoseFrame, TypeOK, state, clock

\* The access point or the firmware ends the association.
LEMMA DownTypes ==
  ASSUME TypeInv, NEW b \in Bss, NEW ok \in BOOLEAN,
         RxDeauth(b, ok) \/ Disconnect(b) \/ Disconnected(ok)
  PROVE  TypeInv'
<1> USE DEF TypeInv, RetryLeft, BufKept, Locked
<1>1. CASE RxDeauth(b, ok)
  <2>1. used' \in Uses /\ link' \in Link
    BY <1>1, UseType, UnjoinType DEF RxDeauth
  <2>2. cur' \in Bss \cup {None}
        /\ sup' \in [want : Request \cup {NoRequest}, done : Request \cup {NoRequest}]
    BY <1>1 DEF RxDeauth, Gone, TypeOK
  <2> QED
    BY <1>1, <2>1, <2>2 DEF RxDeauth, TypeOK, States, Uses, Oddities
<1>2. CASE Disconnect(b)
  <2>1. used' \in Uses
    BY <1>2, UseType DEF Disconnect, Uses
  <2>2. link' \in Link /\ ev' \in [to : Bss, slot : Slots]
    <3>1. PICK s \in SlotOf(link, b) :
             ev' = [to |-> b, slot |-> s] /\ link' = [link EXCEPT !.tx = @ \ {s}]
      BY <1>2 DEF Disconnect
    <3>2. s \in Slots /\ link \in Link
      BY DEF SlotOf, TypeOK
    <3> QED
      BY <3>1, <3>2 DEF Link
  <2>3. odd' \subseteq Oddities
    BY <1>2 DEF Disconnect, TypeOK, Oddities
  <2> QED
    BY <1>2, <2>1, <2>2, <2>3 DEF Disconnect, TypeOK, States, Uses, Oddities
<1>3. CASE Disconnected(ok)
  <2>1. used' \in Uses
    BY <1>3, UseType DEF Disconnected
  <2>2. ev \in [to : Bss, slot : Slots]
    BY <1>3 DEF Disconnected, TypeOK
  <2>3. link' \in Link
    BY <1>3, <2>2 DEF Disconnected, Wiped, TypeOK, Link
  <2>4. cur' \in Bss \cup {None}
        /\ sup' \in [want : Request \cup {NoRequest}, done : Request \cup {NoRequest}]
    BY <1>3 DEF Disconnected, Gone, TypeOK
  <2>5. odd' \subseteq Oddities
    BY <1>3 DEF Disconnected, TypeOK, Oddities
  <2> QED
    BY <1>3, <2>1, <2>3, <2>4, <2>5 DEF Disconnected, TypeOK, States, Uses, Oddities, state, clock
<1> QED
  BY <1>1, <1>2, <1>3
-----------------------------------------------------------------------------
(* The driver, the firmware and cfg80211 agree                             *)

\* core.bss is the one bound peer, it is the firmware's, and the firmware may
\* transmit to no other.
Sound(l) ==
  /\ {s \in Slots : l.peer[s] # None} = IF l.bss = None THEN {} ELSE {l.slot}
  /\ IF l.bss = None THEN l.slot = None ELSE l.slot \in Slots /\ l.peer[l.slot] = l.bss
  /\ l.fw = l.slot /\ l.tx \subseteq {l.slot}

\* So it stays, with the peer of an event that is being handled still bound.
BssInv == "overlap" \notin odd =>
            Sound(link) /\ (ev # None => link.peer[ev.slot] = ev.to)

\* While a call waits for its command nothing else goes on; transmission is for
\* those associated, and so is what cfg80211 is connected to.
AgreeInv ==
  odd \cap {"overlap", "otherBss", "lateAuth", "lateAssoc"} = {} =>
    /\ Locked => ev = None /\ sm = IF call.kind = "assoc" THEN "ASSOCING" ELSE "AUTHING"
    /\ link.tx # {} => sm \in Joined
    /\ "reassoc" \notin odd /\ cur # None =>
         /\ ~Locked
         /\ IF ev = None
            THEN sm \in Joined /\ link.bss = cur /\ link.slot \in link.tx /\ carrier
            ELSE cur = ev.to

CbssInv == sm = "ASSOCING" => cbss # None

LinkInv == BssInv /\ AgreeInv /\ CbssInv /\ AttemptIsWatched

\* skw_unjoin stops transmission, and to its BSS altogether.
LEMMA UnjoinSound ==
  ASSUME NEW l \in Link, NEW b \in Bss \cup {None}, NEW ok \in BOOLEAN
  PROVE  /\ Unjoin(l, b, ok).tx \subseteq l.tx
         /\ Sound(l) => Sound(Unjoin(l, b, ok))
         /\ Sound(l) /\ b = l.bss => Unjoin(l, b, ok).tx = {}
         /\ Sound(l) /\ SlotOf(l, b) # {} => b = l.bss
<1>1. CASE SlotOf(l, b) = {}
  <2>1. Unjoin(l, b, ok) = l
    BY <1>1, UnjoinIs
  <2>2. Sound(l) /\ b = l.bss => l.tx = {}
    BY <1>1 DEF Sound, SlotOf, Link
  <2> QED
    BY <1>1, <2>1, <2>2
<1>2. CASE SlotOf(l, b) # {}
  <2>1. PICK s \in SlotOf(l, b) :
           \/ ok /\ Unjoin(l, b, ok) = Wiped(l, s)
           \/ ~ok /\ Unjoin(l, b, ok) = [l EXCEPT !.tx = @ \ {s}]
    BY <1>2, UnjoinIs
  <2>2. s \in Slots /\ l.peer[s] = b /\ b # None
    BY <2>1 DEF SlotOf
  <2>3. ASSUME Sound(l)  PROVE b = l.bss /\ s = l.slot /\ l.tx \subseteq {s} /\ l.fw = s
    BY <2>2, <2>3 DEF Sound
  <2>4. CASE ok
    <3>1. Unjoin(l, b, ok) = [l EXCEPT !.bss = None, !.slot = None, !.peer[s] = None,
                                       !.tx = @ \ {s}, !.fw = None]
      BY <2>1, <2>4 DEF Wiped
    <3>2. ASSUME Sound(l)  PROVE Sound(Unjoin(l, b, ok)) /\ Unjoin(l, b, ok).tx = {}
      BY <2>2, <2>3, <3>1, <3>2 DEF Sound, Link
    <3> QED
      BY <2>3, <3>1, <3>2 DEF Link
  <2>5. CASE ~ok
    <3>1. Unjoin(l, b, ok) = [l EXCEPT !.tx = @ \ {s}]
      BY <2>1, <2>5
    <3>2. ASSUME Sound(l)  PROVE Sound(Unjoin(l, b, ok)) /\ Unjoin(l, b, ok).tx = {}
      BY <2>2, <2>3, <3>1, <3>2 DEF Sound, Link
    <3> QED
      BY <2>3, <3>1, <3>2 DEF Link
  <2> QED
    BY <2>4, <2>5
<1> QED
  BY <1>1, <1>2

\* skw_join after an unjoin that the firmware obeyed.
Moved(l, b, s) == Join(Unjoin(l, l.bss, TRUE), b, s)

LEMMA JoinSound ==
  ASSUME NEW l \in Link, NEW b \in Bss, NEW s \in Slots, Sound(l)
  PROVE  Sound(Moved(l, b, s)) /\ Moved(l, b, s).tx = {}
<1> DEFINE u == Unjoin(l, l.bss, TRUE)
<1>0. l.bss \in Bss \cup {None}
  BY DEF Link
<1>1. u \in Link /\ u.tx = {}
  BY <1>0, UnjoinIs, UnjoinSound
<1>2. \A x \in Slots : u.peer[x] = None
  <2>1. CASE SlotOf(l, l.bss) = {}
    <3>1. u = l
      BY <1>0, <2>1, UnjoinIs
    <3>2. l.bss = None
      BY <2>1 DEF Sound, SlotOf, Link
    <3> QED
      BY <3>1, <3>2 DEF Sound
  <2>2. CASE SlotOf(l, l.bss) # {}
    <3>1. PICK x \in SlotOf(l, l.bss) : u = Wiped(l, x)
      BY <1>0, <2>2, UnjoinIs
    <3>2. x \in Slots /\ l.peer[x] # None /\ u.peer = [l.peer EXCEPT ![x] = None]
      BY <3>1 DEF SlotOf, Wiped, Link
    <3>3. {y \in Slots : l.peer[y] # None} = {x}
      BY <3>2 DEF Sound
    <3> QED
      BY <3>2, <3>3 DEF Link
  <2> QED
    BY <2>1, <2>2
<1> HIDE DEF u
<1>3. Sound(Join(u, b, s)) /\ Join(u, b, s).tx = {}
  BY <1>1, <1>2 DEF Join, Sound, Link
<1> QED
  BY <1>3 DEF u, Moved

\* The link of this state, without an overlap.
LEMMA LinkOf ==
  ASSUME TypeInv
  PROVE  /\ link \in Link /\ link.bss \in Bss \cup {None} /\ None \notin Bss
         /\ \A b \in Bss \cup {None}, ok \in BOOLEAN :
               LET u == Unjoin(link, b, ok)
               IN  /\ u.tx \subseteq link.tx
                   /\ Sound(link) => /\ Sound(u)
                                     /\ b = link.bss => u.tx = {}
                                     /\ SlotOf(link, b) # {} => b = link.bss
         /\ Sound(link) => \A b \in Bss, s \in Slots :
               Sound(Moved(link, b, s)) /\ Moved(link, b, s).tx = {}
<1>1. link \in Link /\ link.bss \in Bss \cup {None}
  BY DEF TypeInv, TypeOK, Link
<1>2. \A b \in Bss \cup {None}, ok \in BOOLEAN :
         LET u == Unjoin(link, b, ok)
         IN  /\ u.tx \subseteq link.tx
             /\ Sound(link) => /\ Sound(u)
                               /\ b = link.bss => u.tx = {}
                               /\ SlotOf(link, b) # {} => b = link.bss
  BY <1>1, UnjoinSound
<1>3. Sound(link) => \A b \in Bss, s \in Slots :
         Sound(Moved(link, b, s)) /\ Moved(link, b, s).tx = {}
  BY <1>1, JoinSound
<1> QED
  BY <1>1, <1>2, <1>3

LEMMA AuthKeeps ==
  ASSUME TypeInv, LinkInv, NEW b \in Bss, NEW kind \in Kinds,
         \/ AuthReturns(b, kind) \/ AuthJoinFails(b, kind)
         \/ \E s \in Slots : AuthStart(b, kind, s)
  PROVE  LinkInv'
<1> USE DEF LinkInv
<1>0. MayAuth(b, kind) /\ ~Locked /\ kind # "assoc"
  BY DEF AuthReturns, AuthJoinFails, AuthStart, MayAuth
<1>1. CASE AuthReturns(b, kind)
  <2>1. UNCHANGED <<sm, cbss, link, carrier, timer, work, call, ev, cur>> /\ odd \subseteq odd'
    BY <1>1 DEF AuthReturns, state, clock
  <2> QED
    BY <2>1 DEF BssInv, AgreeInv, CbssInv, AttemptIsWatched, Locked, Sound
<1>2. CASE AuthJoinFails(b, kind)
  <2>1. /\ sm \notin Attempt /\ sm' = "NONE" /\ UNCHANGED <<call, ev, cbss, carrier>>
        /\ odd' = odd \cup Overlap
        /\ \E ok \in BOOLEAN : link' = Unjoin(link, link.bss, ok)
        /\ IF sm \in Joined THEN Gone(link.bss) ELSE UNCHANGED cur
    BY <1>2 DEF AuthJoinFails, Attempt, Joined
  <2>2. ASSUME "overlap" \notin odd'
        PROVE  Sound(link) /\ ev = None /\ Sound(link') /\ link'.tx = {}
    BY <2>1, <2>2, LinkOf DEF BssInv, Overlap
  <2>3. BssInv'
    BY <2>1, <2>2 DEF BssInv
  <2>4. AgreeInv'
    BY <1>0, <2>1, <2>2 DEF AgreeInv, Locked, Gone
  <2> QED
    BY <2>1, <2>3, <2>4 DEF CbssInv, AttemptIsWatched, Attempt
<1>3. ASSUME NEW s \in Slots, AuthStart(b, kind, s)  PROVE LinkInv'
  <2>1. /\ sm' = "AUTHING" /\ call' = [kind |-> kind, to |-> b] /\ UNCHANGED <<ev, carrier>>
        /\ timer' # "off" /\ odd' = odd \cup Overlap
                  \cup (IF sm = "AUTHED" /\ link.bss # b THEN {"otherBss"} ELSE {})
        /\ IF sm \in Joined THEN Gone(link.bss) ELSE UNCHANGED cur
    BY <1>3 DEF AuthStart, CmdAuth, SetStaTimer
  <2>2. ASSUME "overlap" \notin odd'
        PROVE  Sound(link) /\ ev = None /\ Sound(link') /\ (sm # "AUTHED" => link'.tx = {})
    <3>1. Sound(link) /\ ev = None
      BY <2>1, <2>2 DEF BssInv, Overlap
    <3>2. CASE sm = "AUTHED"
      BY <1>3, <3>1, <3>2 DEF AuthStart, Sound
    <3>3. CASE sm # "AUTHED"
      <4>1. link' = Moved(link, b, s)
        BY <1>3, <3>3 DEF AuthStart, Moved
      <4> QED
        BY <3>1, <4>1, LinkOf
    <3> QED
      BY <3>1, <3>2, <3>3
  <2>3. BssInv'
    BY <2>1, <2>2 DEF BssInv
  <2>4. sm = "AUTHED" => link' = link
    BY <1>3 DEF AuthStart
  <2>5. AgreeInv'
    BY <1>0, <2>1, <2>2, <2>4 DEF AgreeInv, Locked, Gone, Joined
  <2> QED
    BY <2>1, <2>3, <2>5 DEF CbssInv, AttemptIsWatched, Attempt
<1> QED
  BY <1>1, <1>2, <1>3

LEMMA AssocKeeps ==
  ASSUME TypeInv, LinkInv, NEW b \in Bss,
         AssocReturns(b) \/ AssocJoinFails(b) \/ \E s \in Slots : AssocStart(b, s)
  PROVE  LinkInv'
<1> USE DEF LinkInv
<1>0. ~Locked
  BY DEF AssocReturns, AssocJoinFails, AssocStart, MayAssoc
<1>1. CASE AssocReturns(b)
  <2>1. UNCHANGED <<sm, cbss, link, carrier, timer, work, call, ev, cur>> /\ odd \subseteq odd'
    BY <1>1 DEF AssocReturns, state, clock
  <2> QED
    BY <2>1 DEF BssInv, AgreeInv, CbssInv, AttemptIsWatched, Locked, Sound
<1>2. CASE AssocJoinFails(b)
  <2>1. /\ sm' = "NONE" /\ UNCHANGED <<call, ev, cbss, carrier, cur>>
        /\ odd' = odd \cup Overlap \cup {"reassoc"}
        /\ \E ok \in BOOLEAN : link' = Unjoin(link, link.bss, ok)
    BY <1>2 DEF AssocJoinFails
  <2>2. ASSUME "overlap" \notin odd'
        PROVE  Sound(link) /\ ev = None /\ Sound(link') /\ link'.tx = {}
    BY <2>1, <2>2, LinkOf DEF BssInv, Overlap
  <2> QED
    BY <1>0, <2>1, <2>2 DEF BssInv, AgreeInv, CbssInv, AttemptIsWatched, Attempt, Locked
<1>3. ASSUME NEW s \in Slots, AssocStart(b, s)  PROVE LinkInv'
  <2>1. /\ sm' = "ASSOCING" /\ cbss' = b /\ call' = [kind |-> "assoc", to |-> b]
        /\ UNCHANGED <<ev, carrier, cur>> /\ timer' # "off"
        /\ odd' = odd \cup Overlap \cup (IF sm \in Joined THEN {"reassoc"} ELSE {})
    BY <1>3 DEF AssocStart, CmdAssoc, SetStaTimer
  <2>2. \/ sm = "AUTHED" /\ link' = link
        \/ sm \in Joined /\ link' = Moved(link, b, s)
    BY <1>3 DEF AssocStart, Moved
  <2>3. ASSUME "overlap" \notin odd'
        PROVE  ev = None /\ Sound(link') /\ (sm # "AUTHED" => link'.tx = {})
    <3>1. Sound(link) /\ ev = None
      BY <2>1, <2>3 DEF BssInv, Overlap
    <3>2. CASE sm = "AUTHED" /\ link' = link
      BY <3>1, <3>2 DEF Sound
    <3>3. CASE link' = Moved(link, b, s)
      BY <3>1, <3>3, LinkOf
    <3> QED
      BY <2>2, <3>1, <3>2, <3>3
  <2>4. BssInv'
    BY <2>1, <2>3 DEF BssInv
  <2>5. AgreeInv'
    BY <1>0, <2>1, <2>2, <2>3 DEF AgreeInv, Locked, Joined
  <2>6. cbss' # None
    BY <2>1
  <2> QED
    BY <2>1, <2>4, <2>5, <2>6 DEF CbssInv, AttemptIsWatched, Attempt
<1> QED
  BY <1>1, <1>2, <1>3

LEMMA EndKeeps ==
  ASSUME TypeInv, LinkInv, CallEnds
  PROVE  LinkInv'
<1> USE DEF LinkInv
<1> PICK sent, ok \in BOOLEAN : AuthEnd(sent, ok) \/ AssocEnd(sent, ok)
  BY DEF CallEnds
<1>1. /\ Locked /\ call \in Request /\ call' = NoRequest /\ odd' = odd \cup Overlap
      /\ UNCHANGED <<carrier, ev, cur, work>>
  BY DEF AuthEnd, AssocEnd, TypeInv, TypeOK, Locked
<1>2. CASE sent
  <2>1. /\ UNCHANGED <<link, cbss, timer>> /\ sm' \in {sm, "AUTHED"}
        /\ sm' # sm => call.kind # "assoc"
    BY <1>2 DEF AuthEnd, AssocEnd
  <2>2. ASSUME "overlap" \notin odd'  PROVE Sound(link') /\ ev = None
    BY <1>1, <2>1, <2>2 DEF BssInv, Overlap, Sound
  <2>3. BssInv'
    BY <1>1, <2>2 DEF BssInv
  <2>4. AgreeInv'
    BY <1>1, <2>1, <2>2 DEF AgreeInv, Locked, Joined
  <2> QED
    BY <1>1, <2>1, <2>3, <2>4 DEF CbssInv, AttemptIsWatched, Attempt
<1>3. CASE ~sent
  <2>1. sm' = "NONE" /\ link' = Unjoin(link, call.to, ok) /\ call.to \in Bss
    BY <1>1, <1>3, Requests DEF AuthEnd, AssocEnd
  <2>2. link'.tx \subseteq link.tx
    BY <2>1, LinkOf
  <2>3. ASSUME "overlap" \notin odd'  PROVE Sound(link') /\ ev = None
    BY <1>1, <2>1, <2>3, LinkOf DEF BssInv, Overlap
  <2>4. BssInv'
    BY <1>1, <2>3 DEF BssInv
  <2>5. AgreeInv'
    BY <1>1, <2>1, <2>2, <2>3 DEF AgreeInv, Locked, Joined
  <2> QED
    BY <2>1, <2>4, <2>5 DEF CbssInv, AttemptIsWatched, Attempt
<1> QED
  BY <1>2, <1>3

LEMMA LeaveBssKeeps ==
  ASSUME TypeInv, LinkInv, NEW b \in Bss, NEW ok \in BOOLEAN, Deauth(b, ok) \/ Disassoc(b, ok)
  PROVE  LinkInv'
<1> USE DEF LinkInv
<1>1. /\ ~Locked /\ sm' = "NONE" /\ link' = Unjoin(link, b, ok) /\ Gone(b)
      /\ UNCHANGED <<cbss, call, ev>>
      /\ odd' = odd \cup Overlap
                \cup (IF sm # "NONE" /\ b # link.bss THEN {"otherBss"} ELSE {})
  BY DEF Deauth, Disassoc, LeaveBss, Leave
<1>2. link'.tx \subseteq link.tx
  BY <1>1, LinkOf
<1>3. ASSUME "overlap" \notin odd'
      PROVE  ev = None /\ Sound(link') /\ (b = link.bss => link'.tx = {})
  BY <1>1, <1>3, LinkOf DEF BssInv, Overlap
<1>4. BssInv'
  BY <1>1, <1>3 DEF BssInv
<1>5. AgreeInv'
  BY <1>1, <1>2, <1>3 DEF AgreeInv, Locked, Gone, Joined
<1> QED
  BY <1>1, <1>4, <1>5 DEF CbssInv, AttemptIsWatched, Attempt

\* The port is authorised, the supplicant gives up, time passes.
LEMMA IdleKeeps ==
  ASSUME TypeInv, LinkInv,
         Authorize \/ Authorized \/ SupplicantGivesUp \/ Tick \/ StaTimer \/ StaWorkIdle
         \/ RxStale \/ LoseFrame
  PROVE  LinkInv'
<1> USE DEF LinkInv
<1>1. /\ UNCHANGED <<cbss, link, carrier, call, ev, cur>> /\ odd \subseteq odd'
      /\ sm' = sm \/ (sm' = "COMPLETED" /\ ~Locked)
  BY DEF Authorize, Authorized, SupplicantGivesUp, Tick, StaTimer, StaWorkIdle, RxStale,
         LoseFrame, state
<1>2. BssInv'
  BY <1>1 DEF BssInv, Sound
<1>3. AgreeInv'
  BY <1>1 DEF AgreeInv, Locked, Joined
<1>4. AttemptIsWatched'
  <2>1. CASE Authorize \/ Authorized \/ SupplicantGivesUp \/ RxStale \/ LoseFrame
    BY <2>1 DEF Authorize, Authorized, SupplicantGivesUp, RxStale, LoseFrame, state, clock,
                AttemptIsWatched, Attempt
  <2>2. CASE Tick \/ StaTimer
    BY <2>2 DEF Tick, StaTimer, state, AttemptIsWatched, Attempt
  <2>3. CASE StaWorkIdle
    BY <2>3 DEF StaWorkIdle, WorkRuns, state, AttemptIsWatched, Attempt, Joined
  <2> QED
    BY <2>1, <2>2, <2>3
<1> QED
  BY <1>1, <1>2, <1>3, <1>4 DEF CbssInv

LEMMA WorkKeeps ==
  ASSUME TypeInv, LinkInv, NEW late \in BOOLEAN, NEW ok \in BOOLEAN,
         StaWorkAgain(late) \/ StaWorkGivesUp(late, ok)
  PROVE  LinkInv'
<1> USE DEF LinkInv
<1>1. /\ ~Locked /\ ev = None /\ sm \in {"AUTHING", "AUTHED", "ASSOCING"}
      /\ UNCHANGED <<cbss, call, ev, cur, odd>>
  BY DEF StaWorkAgain, StaWorkGivesUp, WorkRuns, Watched
<1>2. CASE StaWorkAgain(late)
  <2>1. sm' \in {sm, "AUTHING"} /\ UNCHANGED <<link, carrier>> /\ timer' # "off"
    BY <1>2 DEF StaWorkAgain, Resend, SetStaTimer
  <2>2. BssInv'
    BY <1>1, <2>1 DEF BssInv, Sound
  <2>3. AgreeInv'
    BY <1>1, <2>1 DEF AgreeInv, Locked, Joined
  <2> QED
    BY <1>1, <2>1, <2>2, <2>3 DEF CbssInv, AttemptIsWatched
<1>3. CASE StaWorkGivesUp(late, ok)
  <2>1. sm' = "NONE" /\ \E o \in BOOLEAN : link' = Unjoin(link, link.bss, o)
    BY <1>3 DEF StaWorkGivesUp, Leave
  <2>2. link'.tx \subseteq link.tx /\ ("overlap" \notin odd => Sound(link'))
    BY <2>1, LinkOf DEF BssInv
  <2>3. BssInv'
    BY <1>1, <2>2 DEF BssInv
  <2>4. AgreeInv'
    BY <1>1, <2>1, <2>2 DEF AgreeInv, Locked, Joined
  <2> QED
    BY <2>1, <2>3, <2>4 DEF CbssInv, AttemptIsWatched, Attempt
<1> QED
  BY <1>2, <1>3

LEMMA AuthAnswerKeeps ==
  ASSUME TypeInv, LinkInv, NEW accepted \in BOOLEAN, NEW early \in BOOLEAN, NEW ok \in BOOLEAN,
         RxAuth(accepted, early, ok)
  PROVE  LinkInv'
<1> USE DEF LinkInv
<1>1. /\ ~Locked /\ ev = None /\ sm' \in {"AUTHED", "NONE"} /\ UNCHANGED <<cbss, call, ev, cur>>
      /\ odd' = odd \cup (IF sm \in Joined \cup {"ASSOCING"} THEN {"lateAuth"} ELSE {})
  BY DEF RxAuth, Receive
<1>2. link' = link \/ link' = Unjoin(link, Head(air).to, ok)
  BY DEF RxAuth
<1>3. Head(air).to \in Bss
  BY TailIs, Requests DEF RxAuth, TypeInv
<1>4. link'.tx \subseteq link.tx /\ ("overlap" \notin odd => Sound(link'))
  BY <1>2, <1>3, LinkOf DEF BssInv
<1>5. BssInv'
  BY <1>1, <1>4 DEF BssInv
<1>6. AgreeInv'
  BY <1>1, <1>4 DEF AgreeInv, Locked, Joined
<1> QED
  BY <1>1, <1>5, <1>6 DEF CbssInv, AttemptIsWatched, Attempt

LEMMA AssocAnswerKeeps ==
  ASSUME TypeInv, LinkInv, NEW accepted \in BOOLEAN, RxAssoc(accepted)
  PROVE  LinkInv'
<1> USE DEF LinkInv
<1> DEFINE req == Head(air)
<1>1. /\ ~Locked /\ ev = None /\ UNCHANGED <<call, ev>>
      /\ link.slot # None /\ link.peer[link.slot] = req.to
      /\ odd' = odd \cup (IF sm # "ASSOCING" THEN {"lateAssoc"} ELSE {})
  BY DEF RxAssoc, Receive
<1>2. req.to \in Bss /\ link.slot \in Slots
  BY <1>1, TailIs, Requests DEF RxAssoc, TypeInv, TypeOK, Link
<1>3. CASE accepted
  <2>1. /\ sm' = "ASSOCED" /\ carrier' = TRUE /\ cur' = req.to
        /\ link' = [link EXCEPT !.tx = @ \cup {link.slot}]
    BY <1>3 DEF RxAssoc
  <2>2. ASSUME "overlap" \notin odd
        PROVE  Sound(link') /\ link'.bss = req.to /\ link'.slot \in link'.tx
    BY <1>1, <1>2, <2>1, <2>2, LinkOf DEF BssInv, Sound, Link
  <2>3. BssInv'
    BY <1>1, <2>2 DEF BssInv
  <2>4. AgreeInv'
    BY <1>1, <2>1, <2>2 DEF AgreeInv, Locked, Joined
  <2> QED
    BY <2>1, <2>3, <2>4 DEF CbssInv, AttemptIsWatched, Attempt
<1>4. CASE ~accepted
  <2>1. sm' = "NONE" /\ UNCHANGED <<carrier, link>> /\ cur' = None
    BY <1>4 DEF RxAssoc
  <2>2. BssInv'
    BY <1>1, <2>1 DEF BssInv, Sound
  <2>3. AgreeInv'
    BY <1>1, <2>1 DEF AgreeInv, Locked, Joined
  <2> QED
    BY <2>1, <2>2, <2>3 DEF CbssInv, AttemptIsWatched, Attempt
<1> QED
  BY <1>3, <1>4

LEMMA DownKeeps ==
  ASSUME TypeInv, LinkInv, NEW b \in Bss, NEW ok \in BOOLEAN,
         RxDeauth(b, ok) \/ Disconnect(b) \/ Disconnected(ok)
  PROVE  LinkInv'
<1> USE DEF LinkInv
<1>1. CASE RxDeauth(b, ok)
  <2>1. /\ ~Locked /\ ev = None /\ sm' = "NONE" /\ SlotOf(link, b) # {} /\ Gone(b)
        /\ link' = Unjoin(link, b, ok) /\ UNCHANGED <<call, ev, odd, cbss>>
    BY <1>1 DEF RxDeauth, Receive
  <2>2. ASSUME "overlap" \notin odd
        PROVE  Sound(link') /\ b = link.bss /\ link'.tx = {}
    BY <2>1, <2>2, LinkOf DEF BssInv
  <2>3. BssInv'
    BY <2>1, <2>2 DEF BssInv
  <2>4. AgreeInv'
    BY <2>1, <2>2 DEF AgreeInv, Locked, Joined, Gone
  <2> QED
    BY <2>1, <2>3, <2>4 DEF CbssInv, AttemptIsWatched, Attempt
<1>2. CASE Disconnect(b)
  <2>1. PICK s \in SlotOf(link, b) :
           ev' = [to |-> b, slot |-> s] /\ link' = [link EXCEPT !.tx = @ \ {s}]
    BY <1>2 DEF Disconnect
  <2>2. /\ sm' = "NONE" /\ ev = None /\ UNCHANGED <<call, cbss, cur>>
        /\ odd' = odd \cup (IF Locked THEN {"overlap"} ELSE {})
    BY <1>2 DEF Disconnect
  <2>3. link \in Link /\ s \in Slots /\ link.peer[s] = b
    BY <2>1, LinkOf DEF SlotOf
  <2>4. ASSUME "overlap" \notin odd
        PROVE  Sound(link') /\ link.bss = b /\ link'.tx = {} /\ link'.peer[s] = b
    BY <2>1, <2>3, <2>4, LinkOf DEF BssInv, Sound, Link
  <2>5. BssInv'
    BY <2>1, <2>2, <2>4 DEF BssInv
  <2>6. ASSUME odd' \cap {"overlap", "otherBss", "lateAuth", "lateAssoc"} = {}
        PROVE  ~Locked /\ link'.tx = {} /\ link.bss = b
               /\ ("reassoc" \notin odd' /\ cur # None => cur = b)
    BY <2>2, <2>4, <2>6 DEF AgreeInv
  <2>7. AgreeInv'
    <3>1. ev' # None /\ ev'.to = b
      BY <2>1, <2>3
    <3> QED
      BY <2>2, <2>6, <3>1 DEF AgreeInv, Locked
  <2> QED
    BY <2>2, <2>5, <2>7 DEF CbssInv, AttemptIsWatched, Attempt
<1>3. CASE Disconnected(ok)
  <2>1. /\ ev # None /\ ev' = None /\ link' = (IF ok THEN Wiped(link, ev.slot) ELSE link)
        /\ Gone(ev.to) /\ UNCHANGED <<sm, call, cbss, carrier, timer, work>>
        /\ odd' = odd \cup (IF Locked THEN {"overlap"} ELSE {})
    BY <1>3 DEF Disconnected, state, clock
  <2>2. ev.slot \in Slots /\ ev.to \in Bss /\ link \in Link
    BY <2>1, LinkOf DEF TypeInv, TypeOK
  <2>3. link'.tx \subseteq link.tx
    BY <2>1, <2>2 DEF Wiped, Link
  <2>4. ASSUME "overlap" \notin odd  PROVE Sound(link')
    <3>1. Sound(link) /\ link.peer[ev.slot] = ev.to
      BY <2>1, <2>4 DEF BssInv
    <3>2. ev.slot = link.slot /\ link.bss # None
      BY <2>2, <3>1, LinkOf DEF Sound
    <3> QED
      BY <2>1, <2>2, <3>1, <3>2 DEF Sound, Wiped, Link
  <2>5. BssInv'
    BY <2>1, <2>4 DEF BssInv
  <2>6. AgreeInv'
    BY <2>1, <2>3 DEF AgreeInv, Locked, Gone
  <2> QED
    BY <2>1, <2>5, <2>6 DEF CbssInv, AttemptIsWatched
<1> QED
  BY <1>1, <1>2, <1>3
-----------------------------------------------------------------------------
(* The invariant                                                           *)

Inv == TypeInv /\ LinkInv

LEMMA InvInit == Init => Inv
<1> SUFFICES ASSUME Init  PROVE Inv
  OBVIOUS
<1>1. TypeOK
  <2>1. NoLink \in Link
    BY DEF NoLink, Link
  <2>2. <<>> \in Seq(Request) /\ Len(<<>>) = 0
    BY EmptySeq
  <2>3. [auth |-> Old, step |-> 2] \in [auth : 0..Old, step : 0..2]
    BY DEF Old
  <2>4. [call |-> 0, refuse |-> 0, down |-> 0] \in Uses
    BY DEF Uses
  <2>5. /\ link \in Link /\ air \in Seq(Request) /\ Len(air) <= MaxAir
        /\ age \in [auth : 0..Old, step : 0..2] /\ used \in Uses
    BY <2>1, <2>2, <2>3, <2>4 DEF Init
  <2>6. /\ sm \in States /\ retry \in 0..MaxRetry
        /\ sup \in [want : Request \cup {NoRequest}, done : Request \cup {NoRequest}]
    BY DEF Init, States
  <2> QED
    BY <2>5, <2>6 DEF Init, TypeOK, Uses
<1>2. RetryLeft /\ BufKept
  BY DEF Init, RetryLeft, BufKept, Locked
<1>3. Sound(link)
  BY DEF Init, NoLink, Sound
<1> QED
  BY <1>1, <1>2, <1>3
     DEF Init, Inv, TypeInv, LinkInv, BssInv, AgreeInv, CbssInv, AttemptIsWatched, Locked,
         Attempt, NoLink

LEMMA InvNext == Inv /\ [Next]_vars => Inv'
<1> SUFFICES ASSUME Inv, [Next]_vars  PROVE Inv'
  OBVIOUS
<1> USE DEF Inv
<1>1. ASSUME NEW b \in Bss, NEW kind \in Kinds,
             \/ AuthReturns(b, kind) \/ AuthJoinFails(b, kind)
             \/ \E s \in Slots : AuthStart(b, kind, s)
      PROVE  Inv'
  BY <1>1, AuthTypes, AuthKeeps
<1>2. ASSUME NEW b \in Bss,
             AssocReturns(b) \/ AssocJoinFails(b) \/ \E s \in Slots : AssocStart(b, s)
      PROVE  Inv'
  BY <1>2, AssocTypes, AssocKeeps
<1>3. ASSUME NEW b \in Bss, NEW ok \in BOOLEAN, Deauth(b, ok) \/ Disassoc(b, ok)  PROVE Inv'
  BY <1>3, LeaveBssTypes, LeaveBssKeeps
<1>4. CASE CallEnds
  BY <1>4, EndTypes, EndKeeps
<1>5. CASE Authorize \/ Authorized \/ SupplicantGivesUp
  BY <1>5, KeyTypes, IdleKeeps
<1>6. CASE Tick \/ StaTimer \/ StaWorkIdle
  BY <1>6, ClockTypes, IdleKeeps
<1>7. ASSUME NEW late \in BOOLEAN, NEW ok \in BOOLEAN,
             StaWorkAgain(late) \/ StaWorkGivesUp(late, ok)
      PROVE  Inv'
  BY <1>7, AgainTypes, GivesUpTypes, WorkKeeps
<1>8. ASSUME NEW accepted \in BOOLEAN, NEW early \in BOOLEAN, NEW ok \in BOOLEAN,
             RxAuth(accepted, early, ok)
      PROVE  Inv'
  BY <1>8, AuthAnswerTypes, AuthAnswerKeeps
<1>9. ASSUME NEW accepted \in BOOLEAN, RxAssoc(accepted)  PROVE Inv'
  BY <1>9, AssocAnswerTypes, AssocAnswerKeeps
<1>10. CASE RxStale \/ LoseFrame
  BY <1>10, LostTypes, IdleKeeps
<1>11. ASSUME NEW b \in Bss, NEW ok \in BOOLEAN, RxDeauth(b, ok) \/ Disconnect(b)  PROVE Inv'
  BY <1>11, DownTypes, DownKeeps
<1>12. ASSUME NEW ok \in BOOLEAN, Disconnected(ok)  PROVE Inv'
  <2>1. ev.to \in Bss
    BY <1>12 DEF Disconnected, TypeInv, TypeOK
  <2> QED
    BY <1>12, <2>1, DownTypes, DownKeeps
<1>13. CASE UNCHANGED vars
  BY <1>13 DEF vars, TypeInv, TypeOK, RetryLeft, BufKept, Locked, LinkInv, BssInv, AgreeInv,
               CbssInv, AttemptIsWatched, Attempt, Sound
<1>14. CASE Cfg80211
  BY <1>1, <1>2, <1>3, <1>4, <1>5, <1>14 DEF Cfg80211
<1>15. CASE Events
  BY <1>6, <1>7, <1>8, <1>9, <1>10, <1>11, <1>12, <1>15 DEF Events, StaWork
<1> QED
  BY <1>6, <1>13, <1>14, <1>15 DEF Next

THEOREM InvAlways == Spec => []Inv
  BY InvInit, InvNext, PTL DEF Spec

\* The types: a request is resent no more often than the limit allows, and the
\* request that is resent is one that was made (skw_sta_work, pending.cmd).
THEOREM TypesHold == Spec => []TypeOK
<1>1. Inv => TypeOK
  BY DEF Inv, TypeInv
<1> QED
  BY <1>1, InvAlways, PTL

\* An authentication or an association under way always has its timer armed or
\* its work queued (skw_set_sta_timer, skw_sta_work): a lost answer ends it.
THEOREM AttemptWatched == Spec => []AttemptIsWatched
<1>1. Inv => AttemptIsWatched
  BY DEF Inv, LinkInv
<1> QED
  BY <1>1, InvAlways, PTL

\* core.bss is the one peer bound to a context and the one the firmware has
\* joined, unless skw_event_disconnect has overlapped a call.
THEOREM BssHolds == Spec => []BssIsThePeer
<1>1. Inv => BssIsThePeer
  BY DEF Inv, LinkInv, BssInv, Sound, BssIsThePeer
<1> QED
  BY <1>1, InvAlways, PTL

\* While cfg80211 is connected the driver is associated with that BSS and may
\* transmit; it transmits to nobody otherwise; and it associates with a BSS.
THEOREM LinkHolds == Spec => []LinkAgrees
<1>1. Inv => LinkAgrees
  BY DEF Inv, LinkInv, AgreeInv, CbssInv, LinkAgrees
<1> QED
  BY <1>1, InvAlways, PTL
=============================================================================
