------------------------------ MODULE ScanProofs ------------------------------
(***************************************************************************)
(* Proofs about Scan for any requests, interfaces, time limit and numbers  *)
(* of scans and events.                                                    *)
(***************************************************************************)
EXTENDS Scan, SequenceTheorems, TLAPS

USE ScanAssumption DEF CallOps, Enders, Places

Scanning == {"prepare", "arm", "start", "fail"}
Looking == {"seen", "checked"}

\* What the call of cfg80211, the scan it waits for and the skw_scan_done under
\* way have to do with the request of the driver.
CallInv ==
  /\ asked # None => \/ asked = req
                     \/ busy.at = "taken" /\ asked = busy.req
                     \/ call.op \in {"prepare", "fail"}
  /\ call.op \in Scanning => call.req \in Requests /\ asked \in {call.req, None}
  /\ call.op \in {"down", "abort"} => call.wdev \in Wdevs
  /\ busy.by = "down" =>
        /\ call.op = "down" /\ ~call.done /\ busy.wdev = call.wdev
        /\ busy.at \in Looking => req # None /\ req = busy.req
        /\ busy.at = "taken" => req = None
  /\ busy.by = "abort" => call.op = "abort"
  /\ (busy.by = None <=> busy.at = None)

\* Unless skw_scan failed meanwhile: what skw_scan_done has read is still there,
\* and cfg80211 waits for it.
AskInv ==
  "crossed" \notin odd =>
    /\ req # None => asked = req
    /\ busy.at \in Looking => req # None /\ busy.req = req
    /\ busy.at = "taken" => busy.req # None /\ asked = busy.req /\ req = None
    /\ busy.at # "oops"
    /\ call.op = "prepare" => asked = call.req /\ req = None /\ busy.at = None
    /\ call.op \in {"arm", "start"} => req \in {None, call.req}
    /\ call.op = "fail" => req = None /\ busy.at \in {None, "taken"}

\* Without the time-out of an earlier scan: only the scan of scan_req, or that
\* which just failed, has a timer, and it has no less time left than the scan;
\* its work comes when it is over, and not before the START is answered.
WorkInv ==
  odd \cap {"late", "crossed"} = {} =>
    /\ \A r \in Requests :
          pending[r] # Off => /\ r = req \/ (call.op = "fail" /\ r = call.req)
                              /\ pending[r] \in Nat /\ age + pending[r] >= Old
    /\ req # None /\ (works # <<>> \/ running \cap Requests # {}) => age = Old
    /\ busy.by = "work" => age = Old
    /\ call.op \in Scanning => ~LateWork
    /\ call.op = "arm" => pending[call.req] = Off
    /\ call.op \in {"start", "fail"} => pending[call.req] # 0

\* The flag of an interface is set while its CQM timer is armed, and its callback
\* is not running then.
CqmInv ==
  "again" \notin odd /\ cqmFor.set # None => cqmFor.set \in cqm /\ cqmFor.set # cqmFor.run

Calls == [op : CallOps \cup {None}, req : Requests \cup {None},
          wdev : Wdevs \cup {None}, done : BOOLEAN]
Busies == [by : Enders \cup {None}, wdev : Wdevs \cup {None},
           req : Requests \cup {None}, at : Places \cup {None}]
Cqms == [set : Wdevs \cup {None}, run : Wdevs \cup {None}]
Uses == [scan : 0..MaxScan, low : 0..MaxUsed]

\* The types of the variables but for the timers and their interface.
RestOK ==
  /\ req \in Requests \cup {None} /\ asked \in Requests \cup {None}
  /\ fw \in Requests \cup {None} /\ call \in Calls /\ busy \in Busies
  /\ works \in Seq(Wdevs) /\ events \in [Wdevs -> 0..MaxEvents]
  /\ age \in 0..Old /\ odd \subseteq Odds /\ used \in Uses

TimersOK ==
  /\ pending \in [Ids -> Nat \cup {Off}] /\ running \subseteq Ids
  /\ cqm \subseteq Wdevs /\ cqmFor \in Cqms
  /\ (pending[Cqm] = Off <=> cqmFor.set = None) /\ (Cqm \notin running <=> cqmFor.run = None)

Inv == RestOK /\ TimersOK /\ CallInv /\ AskInv /\ WorkInv /\ CqmInv

LEMMA Types == TypeOK <=> RestOK /\ TimersOK
  BY DEF TypeOK, RestOK, TimersOK, Calls, Busies, Cqms, Uses

\* The time limit, and the tick that begins with it.
LEMMA OldIs == Old \in Nat \ {0} /\ \A r \in Requests : Timeout[r] \in Nat /\ Old = Timeout[r] + 1
<1> DEFINE ts == {Timeout[r] : r \in Requests}
<1>1. PICK q \in Requests : TRUE
  OBVIOUS
<1>2. (CHOOSE t \in ts : TRUE) \in ts
  BY <1>1
<1>3. \A r \in Requests : Timeout[r] \in Nat /\ (CHOOSE t \in ts : TRUE) = Timeout[r]
  BY <1>2
<1> QED
  BY <1>1, <1>3 DEF Old

\* What every step may use.
LEMMA Facts ==
  /\ Requests \subseteq Ids /\ Cqm \in Ids /\ Cqm \notin Requests /\ None \notin Ids \cup Wdevs
  /\ \A r \in Requests : WdevOf[r] \in Wdevs /\ r # None
  BY DEF Ids, Wdevs

LEMMA Nones == NoCall \in Calls /\ Free \in Busies
  BY DEF NoCall, Free, Calls, Busies

\* The timers of TimerSpec: arming and deleting.
LEMMA Armed ==
  ASSUME TimersOK, NEW id \in Ids, Arm(id)
  PROVE  /\ pending' \in [Ids -> Nat \cup {Off}] /\ running' = running
         /\ \A i \in Ids : i # id => pending'[i] = pending[i]
         /\ pending[id] = Off => pending'[id] = Timeout[id] + 1
         /\ pending[id] # Off => pending'[id] = pending[id]
  BY DEF Arm, T!Add, timers, Ids, TimersOK

LEMMA Deleted ==
  ASSUME TimersOK, NEW S, T!Del(S)
  PROVE  /\ pending' \in [Ids -> Nat \cup {Off}] /\ running' = running
         /\ \A i \in Ids : pending'[i] = IF i \in S THEN Off ELSE pending[i]
  BY DEF T!Del, T!Cleared, TimersOK

\* A timer of a scan does not concern that of the CQM event.
LEMMA CqmKept ==
  ASSUME TimersOK, CqmInv, pending' \in [Ids -> Nat \cup {Off}], UNCHANGED <<running, cqms>>,
         pending'[Cqm] = pending[Cqm], odd' \cap {"again"} = odd \cap {"again"}
  PROVE  TimersOK' /\ CqmInv'
  BY DEF TimersOK, CqmInv, cqms

\* The end of skw_scan_done, and its look at scan_req.
LEMMA LeavesIs ==
  ASSUME RestOK, NEW by, Leaves(by)
  PROVE  /\ busy' = Free /\ call' \in Calls
         /\ \/ call' = call
            \/ by = "down" /\ call' = [call EXCEPT !.done = TRUE]
            \/ by = "abort" /\ call' = NoCall
  BY Nones DEF Leaves, RestOK, Calls
-----------------------------------------------------------------------------
(* skw_scan                                                                *)

LEMMA BeginNext ==
  ASSUME Inv, NEW r \in Requests, NEW narrow \in BOOLEAN, BeginScan(r, narrow)
  PROVE  Inv'
<1> USE DEF Inv
<1>0. RestOK /\ TimersOK
  OBVIOUS
<1>1. /\ call = NoCall /\ asked = None /\ asked' = r
      /\ call' = [op |-> "prepare", req |-> r, wdev |-> WdevOf[r], done |-> FALSE]
      /\ UNCHANGED <<req, busy, works, fw, events, age>>
      /\ odd' = (IF Calm THEN odd \ {"late", "crossed"}
                 ELSE odd \cup IF LateWork THEN {"late"} ELSE {})
                \ IF narrow THEN {"again"} ELSE {}
  BY DEF BeginScan
<1>2. /\ pending' \in [Ids -> Nat \cup {Off}] /\ running' = running
      /\ \A i \in Requests : pending'[i] = pending[i]
      /\ IF narrow THEN /\ pending'[Cqm] = Off /\ cqm' \subseteq cqm
                        /\ cqmFor' = [cqmFor EXCEPT !.set = None]
                   ELSE pending'[Cqm] = pending[Cqm] /\ UNCHANGED cqms
  <2>1. CASE narrow
    BY <2>1, <1>0, Deleted, Facts DEF BeginScan
  <2>2. CASE ~narrow
    BY <2>2, <1>0, Facts DEF BeginScan, timers, TimersOK
  <2> QED
    BY <2>1, <2>2
<1>3. used' \in Uses
  <2>1. /\ used \in Uses /\ MaxScan \in Nat /\ used.scan < MaxScan
        /\ used' = [used EXCEPT !.scan = @ + 1]
    BY <1>0 DEF BeginScan, RestOK
  <2> QED
    BY <2>1 DEF Uses
<1>4. call' \in Calls
  BY <1>1, Facts DEF Calls, CallOps
<1>5. RestOK'
  BY <1>0, <1>1, <1>3, <1>4 DEF RestOK, Odds
<1>6. TimersOK' /\ CqmInv'
  <2>1. CASE narrow
    BY <2>1, <1>0, <1>2 DEF TimersOK, CqmInv, Cqms
  <2>2. CASE ~narrow
    <3>1. odd' \cap {"again"} = odd \cap {"again"}
      BY <2>2, <1>1
    <3> QED
      BY <2>2, <3>1, <1>0, <1>2, CqmKept
  <2> QED
    BY <2>1, <2>2
<1>7. call.op = None
  BY <1>1 DEF NoCall
<1>8. CallInv'
  BY <1>1, <1>7 DEF CallInv, CallOps, Scanning
<1>9. ASSUME "crossed" \notin odd'
      PROVE  req = None /\ busy.at = None
  BY <1>0, <1>1, <1>9 DEF Calm, AskInv, Free, RestOK, Busies, Places, Looking
<1>10. AskInv'
  BY <1>1, <1>9 DEF AskInv, Looking
<1>11. ASSUME odd' \cap {"late", "crossed"} = {}
       PROVE  ~LateWork /\ \A q \in Requests : pending[q] = Off
  BY <1>1, <1>7, <1>9, <1>11, Facts DEF Calm, WorkInv
<1>12. WorkInv'
  BY <1>1, <1>2, <1>9, <1>11 DEF WorkInv, LateWork
<1> QED
  BY <1>5, <1>6, <1>8, <1>10, <1>12

LEMMA NoMemoryNext ==
  ASSUME Inv, NoMemory
  PROVE  Inv'
<1> USE DEF Inv
<1>1. /\ call.op = "prepare" /\ call' = NoCall /\ asked' = None
      /\ UNCHANGED <<pending, running, req, busy, works, fw, events, cqm, cqmFor, age, odd, used>>
  BY DEF NoMemory, timers, cqms
<1>2. NoCall.op = None
  BY DEF NoCall
<1>3. RestOK' /\ TimersOK' /\ CqmInv'
  BY <1>1, Nones DEF RestOK, TimersOK, CqmInv
<1>4. CallInv' /\ AskInv' /\ WorkInv'
  BY <1>1, <1>2 DEF CallInv, AskInv, WorkInv, Scanning, CallOps, LateWork
<1> QED
  BY <1>3, <1>4

LEMMA StartNext ==
  ASSUME Inv, StartScan
  PROVE  Inv'
<1> USE DEF Inv
<1>1. /\ call.op = "prepare" /\ call' = [call EXCEPT !.op = "arm"] /\ req' = call.req /\ age' = 0
      /\ UNCHANGED <<pending, running, asked, busy, works, fw, events, cqm, cqmFor, odd, used>>
      /\ call.req \in Requests /\ call \in Calls
  BY DEF StartScan, CallInv, Scanning, RestOK, timers, cqms
<1>2. call' \in Calls /\ call'.op = "arm" /\ call'.req = call.req
  BY <1>1 DEF Calls, CallOps
<1>3. RestOK' /\ TimersOK' /\ CqmInv'
  BY <1>1, <1>2, OldIs DEF RestOK, TimersOK, CqmInv
<1>4. CallInv'
  BY <1>1, <1>2 DEF CallInv, Scanning, Looking
<1>5. AskInv'
  BY <1>1, <1>2 DEF AskInv, Looking
<1>6. ASSUME odd \cap {"late", "crossed"} = {}
      PROVE  (\A r \in Requests : pending[r] = Off) /\ ~LateWork
  <2>1. req = None
    BY <1>1, <1>6 DEF AskInv
  <2> QED
    BY <1>1, <1>6, <2>1, Facts DEF WorkInv, Scanning
<1>7. WorkInv'
  BY <1>1, <1>2, <1>6 DEF WorkInv, LateWork, Scanning
<1> QED
  BY <1>3, <1>4, <1>5, <1>7

LEMMA ArmNext ==
  ASSUME Inv, ArmScan
  PROVE  Inv'
<1> USE DEF Inv
<1>0. RestOK /\ TimersOK
  OBVIOUS
<1>1. /\ call.op = "arm" /\ call' = [call EXCEPT !.op = "start"]
      /\ UNCHANGED <<req, asked, busy, works, fw, events, cqm, cqmFor, age, used>>
      /\ odd' = odd \cup IF req # call.req THEN {"late"} ELSE {}
      /\ call.req \in Requests /\ call \in Calls
  BY <1>0 DEF ArmScan, CallInv, Scanning, RestOK, cqms
<1>2. call' \in Calls /\ call'.op = "start" /\ call'.req = call.req
  BY <1>1 DEF Calls, CallOps
<1>3. /\ pending' \in [Ids -> Nat \cup {Off}] /\ running' = running
      /\ \A i \in Ids : i # call.req => pending'[i] = pending[i]
      /\ pending[call.req] = Off => pending'[call.req] = Old
  BY <1>0, <1>1, Armed, Facts, OldIs DEF ArmScan
<1>4. RestOK'
  BY <1>0, <1>1, <1>2 DEF RestOK, Odds
<1>5. TimersOK' /\ CqmInv'
  <2>1. odd' \cap {"again"} = odd \cap {"again"} /\ pending'[Cqm] = pending[Cqm]
    BY <1>1, <1>3, Facts
  <2> QED
    BY <2>1, <1>0, <1>1, <1>3, CqmKept DEF cqms
<1>6. CallInv'
  BY <1>1, <1>2 DEF CallInv, Scanning, Looking
<1>7. AskInv'
  BY <1>1, <1>2 DEF AskInv, Looking
<1>8. ASSUME odd' \cap {"late", "crossed"} = {}
      PROVE  /\ odd \cap {"late", "crossed"} = {} /\ req = call.req
             /\ pending'[call.req] = Old /\ age + Old >= Old /\ Old \in Nat \ {0}
  <2>1. age \in Nat
    BY <1>0, OldIs DEF RestOK
  <2> QED
    BY <1>1, <1>3, <1>8, <2>1, OldIs DEF WorkInv
<1>9. WorkInv'
  BY <1>1, <1>2, <1>3, <1>8, Facts DEF WorkInv, LateWork, Scanning
<1> QED
  BY <1>4, <1>5, <1>6, <1>7, <1>9

LEMMA StartsNext ==
  ASSUME Inv, FwStarts \/ StartSucceeds
  PROVE  Inv'
<1> USE DEF Inv
<1>1. /\ call.op = "start" /\ fw' \in {fw, call.req} /\ call' \in Calls
      /\ call'.op \in {None, "start"} /\ (call'.op = "start" => call'.req = call.req)
      /\ call.req \in Requests
      /\ UNCHANGED <<pending, running, req, asked, busy, works, events, cqm, cqmFor, age, odd, used>>
  <2>1. CASE FwStarts
    BY <2>1 DEF FwStarts, timers, cqms, Calls, RestOK, CallInv, Scanning
  <2>2. CASE StartSucceeds
    BY <2>2, Nones DEF StartSucceeds, timers, cqms, NoCall, CallInv, Scanning
  <2> QED
    BY <2>1, <2>2
<1>2. RestOK' /\ TimersOK' /\ CqmInv'
  BY <1>1 DEF RestOK, TimersOK, CqmInv
<1>3. CallInv' /\ AskInv'
  BY <1>1 DEF CallInv, AskInv, Scanning, Looking, CallOps
<1>4. WorkInv'
  BY <1>1 DEF WorkInv, Scanning, CallOps, LateWork
<1> QED
  BY <1>2, <1>3, <1>4

LEMMA RefusedNext ==
  ASSUME Inv, StartRefused
  PROVE  Inv'
<1> USE DEF Inv
<1>1. /\ call.op = "start" /\ call' = [call EXCEPT !.op = "fail"] /\ req' = None
      /\ odd' = odd \cup IF busy.at \in Looking THEN {"crossed"} ELSE {}
      /\ UNCHANGED <<pending, running, asked, busy, works, fw, events, cqm, cqmFor, age, used>>
      /\ call.req \in Requests /\ call \in Calls
  BY DEF StartRefused, CallInv, Scanning, Looking, RestOK, timers, cqms
<1>2. call' \in Calls /\ call'.op = "fail" /\ call'.req = call.req
  BY <1>1 DEF Calls, CallOps
<1>3. RestOK' /\ TimersOK' /\ CqmInv'
  BY <1>1, <1>2 DEF RestOK, TimersOK, CqmInv, Odds
<1>4. CallInv'
  BY <1>1, <1>2 DEF CallInv, Scanning, Looking
<1>5. busy.at \in {None, "taken", "oops"} \cup Looking
  BY DEF RestOK, Busies, Places, Looking
<1>6. AskInv'
  BY <1>1, <1>2, <1>5 DEF AskInv, Looking
<1>7. ASSUME odd' \cap {"late", "crossed"} = {}, NEW r \in Requests, pending[r] # Off
      PROVE  r = call.req
  BY <1>1, <1>7, Facts DEF WorkInv, AskInv
<1>8. WorkInv'
  BY <1>1, <1>2, <1>7 DEF WorkInv, LateWork, Scanning
<1> QED
  BY <1>3, <1>4, <1>6, <1>8

LEMMA FailsNext ==
  ASSUME Inv, StartFails
  PROVE  Inv'
<1> USE DEF Inv
<1>0. RestOK /\ TimersOK
  OBVIOUS
<1>1. /\ call.op = "fail" /\ call.req \in Requests /\ call' = NoCall /\ asked' = None
      /\ odd' = odd \cup IF busy.at = "taken" /\ busy.req = call.req THEN {"crossed"} ELSE {}
      /\ UNCHANGED <<req, busy, works, fw, events, cqm, cqmFor, age, used>>
      /\ asked \in {call.req, None}
  BY DEF StartFails, CallInv, Scanning, cqms
<1>2. /\ pending' \in [Ids -> Nat \cup {Off}] /\ running' = running
      /\ \A i \in Ids : pending'[i] = IF i = call.req THEN Off ELSE pending[i]
  BY <1>0, Deleted DEF StartFails
<1>3. NoCall \in Calls /\ NoCall.op = None
  BY Nones DEF NoCall
<1>4. RestOK'
  BY <1>0, <1>1, <1>3 DEF RestOK, Odds
<1>5. TimersOK' /\ CqmInv'
  <2>1. odd' \cap {"again"} = odd \cap {"again"} /\ pending'[Cqm] = pending[Cqm]
    BY <1>1, <1>2, Facts
  <2> QED
    BY <2>1, <1>0, <1>1, <1>2, CqmKept DEF cqms
<1>6. CallInv'
  BY <1>1, <1>3 DEF CallInv, Scanning, Looking, CallOps
<1>7. AskInv'
  BY <1>1, <1>3 DEF AskInv, Looking, CallOps
<1>8. WorkInv'
  BY <1>1, <1>2, <1>3, Facts DEF WorkInv, LateWork, Scanning, CallOps
<1> QED
  BY <1>4, <1>5, <1>6, <1>7, <1>8
-----------------------------------------------------------------------------
(* skw_scan_done                                                           *)

LEMMA CompareNext ==
  ASSUME Inv, Compare
  PROVE  Inv'
<1> USE DEF Inv
<1>1. /\ busy.at = "seen" /\ busy \in Busies
      /\ UNCHANGED <<pending, running, req, asked, works, fw, events, cqm, cqmFor, age, odd, used>>
  BY DEF Compare, RestOK, timers, cqms
<1>2. /\ call' \in Calls /\ busy' \in Busies
      /\ \/ /\ call' = call /\ busy'.by = busy.by /\ busy'.wdev = busy.wdev /\ busy'.req = busy.req
            /\ \/ busy'.at = "oops" /\ (req = None \/ busy.req = None)
               \/ busy'.at = "checked"
         \/ /\ busy' = Free
            /\ \/ call' = call
               \/ busy.by = "down" /\ call' = [call EXCEPT !.done = TRUE]
               \/ busy.by = "abort" /\ call' = NoCall
  <2>1. PICK r \in {req, busy.req} :
           \/ r = None /\ busy' = [busy EXCEPT !.at = "oops"] /\ UNCHANGED call
           \/ IsOf(r, busy.wdev) /\ busy' = [busy EXCEPT !.at = "checked"] /\ UNCHANGED call
           \/ r # None /\ ~IsOf(r, busy.wdev) /\ Leaves(busy.by)
    BY DEF Compare
  <2>2. CASE Leaves(busy.by)
    BY <2>2, LeavesIs, Nones
  <2>3. CASE ~Leaves(busy.by)
    BY <1>1, <2>1, <2>3 DEF RestOK, Busies
  <2> QED
    BY <2>2, <2>3
<1>3. /\ Free.by = None /\ Free.at = None /\ NoCall.op = None
  BY DEF Free, NoCall
<1>4. /\ call'.op \in {call.op, None} /\ call'.req \in {call.req, None}
      /\ call'.op = None => call.op \in {None, "abort"}
      /\ call'.op # None => call'.req = call.req /\ call'.wdev = call.wdev
  BY <1>2 DEF NoCall, Calls, RestOK, CallInv
<1>5. busy.by # None
  BY <1>1 DEF CallInv
<1>6. RestOK' /\ TimersOK' /\ CqmInv'
  BY <1>1, <1>2 DEF RestOK, TimersOK, CqmInv
<1>7. CallInv'
  BY <1>1, <1>2, <1>3, <1>4, <1>5 DEF CallInv, Scanning, Looking, RestOK, Calls
<1>8. AskInv'
  BY <1>1, <1>2, <1>3, <1>4 DEF AskInv, Looking
<1>9. LateWork' => LateWork
  BY <1>1, <1>2, <1>3 DEF LateWork
<1>10. WorkInv'
  BY <1>1, <1>2, <1>3, <1>4, <1>9 DEF WorkInv, Scanning
<1> QED
  BY <1>6, <1>7, <1>8, <1>10

LEMMA TakeNext ==
  ASSUME Inv, Take
  PROVE  Inv'
<1> USE DEF Inv
<1>1. /\ busy.at = "checked" /\ busy \in Busies /\ req' = None /\ req \in Requests \cup {None}
      /\ busy' = [busy EXCEPT !.at = "taken", !.req = req]
      /\ UNCHANGED <<asked, call, works, fw, events, cqm, cqmFor, age, odd, used>>
  BY DEF Take, RestOK, cqms
<1>2. /\ pending' \in [Ids -> Nat \cup {Off}] /\ running' = running
      /\ \A i \in Ids : pending'[i] = IF i = req THEN Off ELSE pending[i]
  BY Deleted DEF Take
<1>3. /\ busy' \in Busies /\ busy'.at = "taken" /\ busy'.req = req
      /\ busy'.by = busy.by /\ busy'.wdev = busy.wdev
  BY <1>1 DEF Busies
<1>4. RestOK'
  BY <1>1, <1>3 DEF RestOK
<1>5. TimersOK' /\ CqmInv'
  <2>1. pending'[Cqm] = pending[Cqm]
    BY <1>1, <1>2, Facts
  <2> QED
    BY <2>1, <1>1, <1>2, CqmKept DEF cqms
<1>6. CallInv'
  BY <1>1, <1>3 DEF CallInv, Looking
<1>7. AskInv'
  BY <1>1, <1>3 DEF AskInv, Looking
<1>8. LateWork' = LateWork
  BY <1>1, <1>2, <1>3 DEF LateWork
<1>9. WorkInv'
  BY <1>1, <1>2, <1>3, <1>8, Facts DEF WorkInv, CallInv, Scanning
<1> QED
  BY <1>4, <1>5, <1>6, <1>7, <1>9

\* STOP_SCAN only takes the scan from the firmware, and may send an event.
LEMMA StoppedIs ==
  ASSUME RestOK, NEW w, Stopped(w)
  PROVE  fw' \in {fw, None} /\ events' \in [Wdevs -> 0..MaxEvents]
<1>1. CASE UNCHANGED events
  BY <1>1 DEF Stopped, RestOK
<1>2. CASE IsOf(fw, w) /\ fw' = None /\ Completes(w)
  <2>1. w \in Wdevs
    BY <1>2, Facts DEF IsOf, RestOK
  <2> QED
    BY <1>2, <2>1 DEF Completes, RestOK
<1> QED
  BY <1>1, <1>2 DEF Stopped

\* cfg80211 is told, or the thread dies.
LEMMA TellIs ==
  ASSUME Inv, Tell
  PROVE  /\ busy.at = "taken" /\ busy.req # None /\ busy' = Free
         /\ asked' = (IF asked = busy.req THEN None ELSE asked)
         /\ fw' \in {fw, None} /\ events' \in [Wdevs -> 0..MaxEvents]
         /\ UNCHANGED <<pending, running, req, works, cqm, cqmFor, age, odd, used>>
         /\ call' \in Calls
         /\ \/ call' = call
            \/ busy.by = "down" /\ call' = [call EXCEPT !.done = TRUE]
            \/ busy.by = "abort" /\ call' = NoCall
<1>1. RestOK
  BY DEF Inv
<1>2. fw' \in {fw, None} /\ events' \in [Wdevs -> 0..MaxEvents]
  BY <1>1, StoppedIs DEF Tell, RestOK
<1> QED
  BY <1>1, <1>2, LeavesIs DEF Tell, Report, timers, cqms

LEMMA TellNext ==
  ASSUME Inv, Tell
  PROVE  Inv'
<1> USE DEF Inv
<1>1. /\ busy.at = "taken" /\ busy.req # None /\ busy' = Free
      /\ asked' = (IF asked = busy.req THEN None ELSE asked)
      /\ fw' \in {fw, None} /\ events' \in [Wdevs -> 0..MaxEvents]
      /\ UNCHANGED <<pending, running, req, works, cqm, cqmFor, age, odd, used>>
      /\ call' \in Calls
      /\ \/ call' = call
         \/ busy.by = "down" /\ call' = [call EXCEPT !.done = TRUE]
         \/ busy.by = "abort" /\ call' = NoCall
  BY TellIs
<1>2. /\ Free.by = None /\ Free.at = None /\ NoCall.op = None /\ Free \in Busies
  BY Nones DEF Free, NoCall
<1>3. /\ call'.op \in {call.op, None}
      /\ call'.op = None => call.op \in {None, "abort"}
      /\ call'.op # None => call'.req = call.req /\ call'.wdev = call.wdev
  BY <1>1 DEF NoCall, Calls, RestOK, CallInv
<1>4. RestOK' /\ TimersOK' /\ CqmInv'
  BY <1>1, <1>2 DEF RestOK, TimersOK, CqmInv
<1>5. CallInv'
  BY <1>1, <1>2, <1>3 DEF CallInv, Scanning, Looking
<1>6. AskInv'
  BY <1>1, <1>2, <1>3 DEF AskInv, Looking
<1>7. LateWork' => LateWork
  BY <1>1, <1>2 DEF LateWork
<1>8. WorkInv'
  BY <1>1, <1>2, <1>3, <1>7 DEF WorkInv, Scanning
<1> QED
  BY <1>4, <1>5, <1>6, <1>8

LEMMA TellNullNext ==
  ASSUME Inv, TellNull
  PROVE  Inv'
<1> USE DEF Inv
<1>1. /\ busy.at = "taken" /\ busy.req = None /\ busy \in Busies
      /\ busy' = [busy EXCEPT !.at = "oops"]
      /\ UNCHANGED <<pending, running, req, asked, call, works, fw, events, cqm, cqmFor, age, odd, used>>
  BY DEF TellNull, RestOK, timers, cqms
<1>2. /\ busy' \in Busies /\ busy'.at = "oops" /\ busy'.req = busy.req
      /\ busy'.by = busy.by /\ busy'.wdev = busy.wdev
  BY <1>1 DEF Busies
<1>3. RestOK' /\ TimersOK' /\ CqmInv'
  BY <1>1, <1>2 DEF RestOK, TimersOK, CqmInv
<1>4. CallInv' /\ AskInv'
  BY <1>1, <1>2 DEF CallInv, AskInv, Looking
<1>5. WorkInv'
  BY <1>1, <1>2 DEF WorkInv, Scanning, LateWork
<1> QED
  BY <1>3, <1>4, <1>5
-----------------------------------------------------------------------------
(* Its callers                                                             *)

\* A look at scan_req either begins or ends it.
LEMMA LookIs ==
  ASSUME RestOK, NEW by \in Enders, NEW w \in Wdevs, Look(by, w)
  PROVE  /\ busy = Free /\ busy' \in Busies /\ call' \in Calls
         /\ \/ /\ req # None /\ call' = call
               /\ busy' = [by |-> by, wdev |-> w, req |-> req, at |-> "seen"]
            \/ /\ req = None /\ busy' = Free
               /\ \/ call' = call
                  \/ by = "down" /\ call' = [call EXCEPT !.done = TRUE]
                  \/ by = "abort" /\ call' = NoCall
<1>1. CASE req = None
  BY <1>1, LeavesIs, Nones DEF Look
<1>2. CASE req # None
  BY <1>2 DEF Look, RestOK, Busies
<1> QED
  BY <1>1, <1>2

\* The look of one that may end a scan now.
LEMMA LookNext ==
  ASSUME Inv, NEW by \in Enders, NEW w \in Wdevs, Look(by, w),
         by = "down" => call.op = "down" /\ ~call.done /\ w = call.wdev,
         by = "abort" => call.op = "abort",
         by = "work" => works # <<>>,
         works' = works \/ (by = "work" /\ works' \in Seq(Wdevs)),
         events' \in [Wdevs -> 0..MaxEvents],
         UNCHANGED <<pending, running, req, asked, fw, cqm, cqmFor, age, odd, used>>
  PROVE  Inv'
<1> USE DEF Inv
<1>1. /\ busy = Free /\ busy' \in Busies /\ call' \in Calls
      /\ \/ /\ req # None /\ call' = call
            /\ busy' = [by |-> by, wdev |-> w, req |-> req, at |-> "seen"]
         \/ /\ req = None /\ busy' = Free
            /\ \/ call' = call
               \/ by = "down" /\ call' = [call EXCEPT !.done = TRUE]
               \/ by = "abort" /\ call' = NoCall
  BY LookIs
<1>2. /\ Free.by = None /\ Free.at = None /\ NoCall.op = None
  BY DEF Free, NoCall
<1>3. /\ call'.op \in {call.op, None}
      /\ call'.op = None => call.op \in {None, "abort"}
      /\ call'.op # None => call'.req = call.req /\ call'.wdev = call.wdev
  BY <1>1 DEF NoCall, Calls, RestOK, CallInv
<1>4. RestOK' /\ TimersOK' /\ CqmInv'
  BY <1>1 DEF RestOK, TimersOK, CqmInv
<1>5. CallInv'
  BY <1>1, <1>2, <1>3 DEF CallInv, Scanning, Looking
<1>6. AskInv'
  BY <1>1, <1>2, <1>3 DEF AskInv, CallInv, Scanning, Looking
<1>7. LateWork' => LateWork
  BY <1>1, <1>2 DEF LateWork
<1>8. WorkInv'
  <2>1. busy'.by = "work" => req # None /\ works # <<>>
    BY <1>1, <1>2
  <2>2. works' # <<>> => works # <<>>
    OBVIOUS
  <2> QED
    BY <1>3, <1>7, <2>1, <2>2 DEF WorkInv, Scanning
<1> QED
  BY <1>4, <1>5, <1>6, <1>8

LEMMA LooksNext ==
  ASSUME Inv, DownLooks \/ AbortLooks
  PROVE  Inv'
<1> USE DEF Inv
<1>1. events \in [Wdevs -> 0..MaxEvents]
  BY DEF RestOK
<1>2. CASE DownLooks
  BY <1>1, <1>2, LookNext DEF DownLooks, timers, cqms, CallInv
<1>3. CASE AbortLooks
  BY <1>1, <1>3, LookNext DEF AbortLooks, timers, cqms, CallInv
<1> QED
  BY <1>2, <1>3

LEMMA WorkNext ==
  ASSUME Inv, Work
  PROVE  Inv'
<1> USE DEF Inv
<1>1. works \in Seq(Wdevs) /\ works # <<>> /\ events \in [Wdevs -> 0..MaxEvents]
  BY DEF Work, RestOK
<1>2. Head(works) \in Wdevs /\ Tail(works) \in Seq(Wdevs)
  BY <1>1, HeadTailProperties
<1> QED
  BY <1>1, <1>2, LookNext DEF Work, timers, cqms

LEMMA EventNext ==
  ASSUME Inv, NEW w \in Wdevs, EventScanComplete(w)
  PROVE  Inv'
<1> USE DEF Inv
<1>1. events' \in [Wdevs -> 0..MaxEvents]
  BY DEF EventScanComplete, RestOK
<1> QED
  BY <1>1, LookNext DEF EventScanComplete, timers, cqms

LEMMA CallNext ==
  ASSUME Inv, (\E w \in Wdevs : Down(w) \/ Abort(w)) \/ AbortStopped \/ DownEnds
  PROVE  Inv'
<1> USE DEF Inv
<1>1. /\ call' \in Calls /\ call'.op \in {None, "down", "abort"}
      /\ call.op \in {None, "down", "abort"} /\ (call.op = "down" => call.done)
      /\ (call'.op \in {"down", "abort"} => call'.wdev \in Wdevs)
      /\ (call.op = "abort" => call'.op = "abort")
      /\ UNCHANGED <<pending, running, req, asked, busy, works, cqm, cqmFor, age, odd, used>>
  <2>1. CASE \E w \in Wdevs : Down(w) \/ Abort(w)
    <3>1. PICK w \in Wdevs : Down(w) \/ Abort(w)
      BY <2>1
    <3>2. /\ call = NoCall /\ NoCall.op = None
          /\ \E op \in {"down", "abort"} : call' = [NoCall EXCEPT !.op = op, !.wdev = w]
          /\ UNCHANGED <<pending, running, req, asked, busy, works, cqm, cqmFor, age, odd, used>>
      BY <3>1 DEF Down, Abort, timers, cqms, NoCall
    <3> QED
      BY <3>2, Nones DEF Calls
  <2>2. CASE AbortStopped
    BY <2>2 DEF AbortStopped, timers, cqms, Calls, RestOK, CallInv
  <2>3. CASE DownEnds
    BY <2>3, Nones DEF DownEnds, timers, cqms, NoCall
  <2> QED
    BY <2>1, <2>2, <2>3
<1>2. fw' \in {fw, None} /\ events' \in [Wdevs -> 0..MaxEvents]
  <2>1. CASE UNCHANGED <<fw, events>>
    BY <2>1 DEF RestOK
  <2>2. CASE AbortStopped
    BY <2>2, StoppedIs DEF AbortStopped
  <2> QED
    BY <2>1, <2>2 DEF Down, Abort, DownEnds
<1>3. RestOK' /\ TimersOK' /\ CqmInv'
  BY <1>1, <1>2 DEF RestOK, TimersOK, CqmInv
<1>4. CallInv' /\ AskInv'
  BY <1>1 DEF CallInv, AskInv, Scanning, Looking
<1>5. WorkInv'
  BY <1>1 DEF WorkInv, Scanning, LateWork
<1> QED
  BY <1>3, <1>4, <1>5
-----------------------------------------------------------------------------
(* The timers and the CQM event                                            *)

LEMMA ExpireNext ==
  ASSUME Inv, NEW S \in SUBSET Ids, Expire(S)
  PROVE  Inv'
<1> USE DEF Inv
<1>1. /\ UNCHANGED <<req, asked, call, busy, works, fw, events, cqm, age, used>>
      /\ running = {} /\ running' = S
      /\ pending' \in [Ids -> Nat \cup {Off}]
      /\ \A i \in Ids : pending'[i] = IF i \in S THEN Off ELSE pending[i]
      /\ \A i \in S : pending[i] = 0
      /\ IF Cqm \in S THEN /\ cqmFor' = [set |-> None, run |-> cqmFor.set]
                           /\ odd' = odd \ {"again"}
                      ELSE UNCHANGED <<cqmFor, odd>>
  BY DEF Expire, T!Expire, T!Due, T!Cleared, TimersOK
<1>2. RestOK'
  BY <1>1 DEF RestOK
<1>3. TimersOK' /\ CqmInv'
  <2>1. CASE Cqm \in S
    <3>1. Off # 0 /\ pending[Cqm] = 0 /\ pending'[Cqm] = Off /\ cqmFor.set # None
      BY <1>1, <2>1, Facts DEF TimersOK
    <3> QED
      BY <1>1, <2>1, <3>1 DEF TimersOK, CqmInv, Cqms
  <2>2. CASE Cqm \notin S
    BY <1>1, <2>2, Facts DEF TimersOK, CqmInv
  <2> QED
    BY <2>1, <2>2
<1>4. CallInv' /\ AskInv'
  BY <1>1 DEF CallInv, AskInv, Looking, Scanning
<1>5. ASSUME odd \cap {"late", "crossed"} = {}, NEW r \in S \cap Requests
      PROVE  req = r /\ age = Old /\ call.op \notin Scanning
  <2>1. pending[r] = 0 /\ Off # 0 /\ age \in 0..Old /\ Old \in Nat
    BY <1>1, <1>5, OldIs DEF RestOK
  <2>2. r = req \/ (call.op = "fail" /\ r = call.req)
    BY <1>5, <2>1 DEF WorkInv
  <2>3. age = Old
    BY <1>5, <2>1 DEF WorkInv
  <2>4. r = req
    <3>1. call.op \in {"start", "fail"} => pending[call.req] # 0
      BY <1>5 DEF WorkInv
    <3> QED
      BY <2>1, <2>2, <3>1
  <2>5. req # None
    BY <2>4, <1>5, Facts
  <2>6. /\ call.op \in {"start", "fail"} => pending[call.req] # 0
        /\ call.op = "arm" => pending[call.req] = Off
    BY <1>5 DEF WorkInv
  <2>7. /\ call.op = "prepare" => req = None
        /\ call.op \in {"arm", "start"} => req \in {None, call.req}
        /\ call.op = "fail" => req = None
    BY <1>5 DEF AskInv
  <2> QED
    BY <2>1, <2>3, <2>4, <2>5, <2>6, <2>7 DEF Scanning
<1>6. WorkInv'
  <2> SUFFICES ASSUME odd \cap {"late", "crossed"} = {}  PROVE WorkInv'
    BY <1>1 DEF WorkInv
  <2>1. running' \cap Requests # {} => age = Old /\ call.op \notin Scanning
    BY <1>1, <1>5
  <2>2. call.op \in Scanning => ~LateWork'
    BY <1>1, <2>1 DEF WorkInv, LateWork
  <2>3. \A r \in Requests : pending'[r] \in {Off, pending[r]}
    BY <1>1, Facts
  <2>4. call.op \in {"start", "fail"} => pending'[call.req] # 0
    <3>1. call.op \in {"start", "fail"} => call.req \in Requests /\ pending[call.req] # 0
      BY DEF WorkInv, CallInv, Scanning
    <3> QED
      BY <3>1, <2>3
  <2>5. call.op = "arm" => pending'[call.req] = Off
    <3>1. call.op = "arm" => call.req \in Requests /\ pending[call.req] = Off
      BY DEF WorkInv, CallInv, Scanning
    <3> QED
      BY <3>1, <2>3
  <2>6. ASSUME NEW r \in Requests, pending'[r] # Off
        PROVE  /\ r = req \/ (call.op = "fail" /\ r = call.req)
               /\ pending'[r] \in Nat /\ age + pending'[r] >= Old
    BY <2>3, <2>6 DEF WorkInv
  <2> QED
    BY <1>1, <2>1, <2>2, <2>4, <2>5, <2>6 DEF WorkInv
<1> QED
  BY <1>2, <1>3, <1>4, <1>6

LEMMA TickNext ==
  ASSUME Inv, Tick
  PROVE  Inv'
<1> USE DEF Inv
<1>1. /\ UNCHANGED <<req, asked, call, busy, works, fw, events, cqm, cqmFor, odd, used>>
      /\ running = {} /\ running' = {}
      /\ (call.op \in {"start", "fail"} => pending[call.req] # 1)
      /\ pending' = [i \in Ids |-> IF pending[i] \in Nat \ {0} THEN pending[i] - 1 ELSE pending[i]]
      /\ age' = IF age < Old THEN age + 1 ELSE Old
  BY DEF Tick, T!Tick, cqms
<1>2. age \in 0..Old /\ Old \in Nat /\ age' \in 0..Old
  BY <1>1, OldIs DEF RestOK
<1>3. \A i \in Ids : /\ pending[i] \in Nat \cup {Off} /\ pending'[i] \in Nat \cup {Off}
                     /\ (pending'[i] = Off <=> pending[i] = Off)
                     /\ pending'[i] = IF pending[i] \in Nat \ {0} THEN pending[i] - 1 ELSE pending[i]
  BY <1>1 DEF TimersOK
<1>4. RestOK' /\ TimersOK' /\ CqmInv'
  <2>1. pending' \in [Ids -> Nat \cup {Off}] /\ (pending'[Cqm] = Off <=> pending[Cqm] = Off)
    BY <1>1, <1>3, Facts
  <2> QED
    BY <1>1, <1>2, <2>1 DEF RestOK, TimersOK, CqmInv
<1>5. CallInv' /\ AskInv'
  BY <1>1 DEF CallInv, AskInv, Looking, Scanning
<1>6. WorkInv'
  <2> SUFFICES ASSUME odd \cap {"late", "crossed"} = {}  PROVE WorkInv'
    BY <1>1 DEF WorkInv
  <2>1. ASSUME NEW r \in Requests, pending'[r] # Off
        PROVE  /\ r = req \/ (call.op = "fail" /\ r = call.req)
               /\ pending'[r] \in Nat /\ age' + pending'[r] >= Old
    <3>1. /\ r \in Ids /\ pending[r] \in Nat /\ age + pending[r] >= Old
          /\ r = req \/ (call.op = "fail" /\ r = call.req)
      BY <1>3, <2>1, Facts DEF WorkInv
    <3>2. pending'[r] = IF pending[r] \in Nat \ {0} THEN pending[r] - 1 ELSE pending[r]
      BY <1>3, <3>1
    <3> QED
      BY <1>1, <1>2, <3>1, <3>2
  <2>2. call.op \in {"start", "fail"} => pending'[call.req] # 0
    <3>1. call.op \in {"start", "fail"} =>
             call.req \in Ids /\ pending[call.req] # 0 /\ pending[call.req] # 1
      BY <1>1, Facts DEF WorkInv, CallInv, Scanning
    <3>2. Off # 0
      OBVIOUS
    <3> QED
      BY <1>3, <3>1, <3>2
  <2>3. call.op = "arm" => pending'[call.req] = Off
    <3>1. call.op = "arm" => call.req \in Ids /\ pending[call.req] = Off
      BY Facts DEF WorkInv, CallInv, Scanning
    <3> QED
      BY <1>3, <3>1
  <2>4. age = Old => age' = Old
    BY <1>1, <1>2
  <2>5. LateWork' = LateWork
    BY <1>1 DEF LateWork
  <2> QED
    BY <1>1, <2>1, <2>2, <2>3, <2>4, <2>5 DEF WorkInv
<1> QED
  BY <1>4, <1>5, <1>6

LEMMA TimeoutNext ==
  ASSUME Inv, NEW r \in Requests, ScanTimeout(r)
  PROVE  Inv'
<1> USE DEF Inv
<1>1. /\ UNCHANGED <<pending, req, asked, call, busy, fw, events, cqm, cqmFor, age, odd, used>>
      /\ r \in running /\ running' = running \ {r} /\ works' = Append(works, WdevOf[r])
  BY DEF ScanTimeout, T!CallBack, cqms
<1>2. works' \in Seq(Wdevs)
  BY <1>1, Facts DEF RestOK
<1>3. RestOK' /\ TimersOK' /\ CqmInv'
  BY <1>1, <1>2, Facts DEF RestOK, TimersOK, CqmInv
<1>4. CallInv' /\ AskInv'
  BY <1>1 DEF CallInv, AskInv, Looking, Scanning
<1>5. WorkInv'
  BY <1>1 DEF WorkInv, LateWork
<1> QED
  BY <1>3, <1>4, <1>5

\* What belongs to the CQM timer only.
LEMMA CqmOnly ==
  ASSUME Inv, UNCHANGED <<req, asked, call, busy, works, fw, events, age>>, used' \in Uses,
         \A r \in Requests : pending'[r] = pending[r],
         running' \cap Requests = running \cap Requests,
         odd' \subseteq Odds, odd' \cap {"late", "crossed"} = odd \cap {"late", "crossed"}
  PROVE  RestOK' /\ CallInv' /\ AskInv' /\ WorkInv'
<1> USE DEF Inv
<1>1. RestOK' /\ CallInv'
  BY DEF RestOK, CallInv, Looking, Scanning
<1>2. AskInv'
  BY DEF AskInv, Looking, Scanning
<1>3. LateWork' = LateWork
  BY DEF LateWork
<1>4. call.op \in Scanning => pending'[call.req] = pending[call.req]
  BY DEF CallInv
<1>5. WorkInv'
  BY <1>3, <1>4 DEF WorkInv, Scanning
<1> QED
  BY <1>1, <1>2, <1>5

LEMMA CqmTimeoutNext ==
  ASSUME Inv, CqmScanTimeout
  PROVE  Inv'
<1> USE DEF Inv
<1>1. /\ UNCHANGED <<pending, req, asked, call, busy, works, fw, events, age, odd, used>>
      /\ running' = running \ {Cqm} /\ cqm' = cqm \ {cqmFor.run}
      /\ cqmFor' = [cqmFor EXCEPT !.run = None]
  BY DEF CqmScanTimeout, T!CallBack
<1>2. used' \in Uses /\ odd' \subseteq Odds /\ running' \cap Requests = running \cap Requests
  BY <1>1, Facts DEF RestOK
<1>3. TimersOK' /\ CqmInv'
  BY <1>1, Facts DEF TimersOK, CqmInv, Cqms
<1> QED
  BY <1>1, <1>2, <1>3, CqmOnly

LEMMA EventCqmNext ==
  ASSUME Inv, NEW w \in Wdevs, EventCqm(w)
  PROVE  Inv'
<1> USE DEF Inv
<1>1. UNCHANGED <<req, asked, call, busy, works, fw, events, age>> /\ used' \in Uses
  <2>1. used \in Uses /\ used.scan + used.low < MaxUsed /\ MaxUsed \in Nat
        /\ used' = [used EXCEPT !.low = @ + 1]
    BY DEF EventCqm, RestOK, MayUse
  <2>2. used' \in Uses
    BY <2>1 DEF Uses
  <2> QED
    BY <2>2 DEF EventCqm
<1>2. CASE w \in cqm
  <2>1. UNCHANGED <<pending, running, cqm, cqmFor, odd>>
    BY <1>2 DEF EventCqm, timers, cqms
  <2>2. TimersOK' /\ CqmInv' /\ odd' \subseteq Odds
    BY <2>1 DEF TimersOK, CqmInv, RestOK
  <2> QED
    BY <1>1, <2>1, <2>2, CqmOnly
<1>3. CASE w \notin cqm
  <2>1. SetLow(w)
    BY <1>3 DEF EventCqm
  <2>2. /\ pending' \in [Ids -> Nat \cup {Off}] /\ running' = running
        /\ \A r \in Requests : pending'[r] = pending[r]
        /\ pending'[Cqm] # Off
        /\ cqm' = cqm \cup {w}
    <3>1. Timeout[Cqm] + 1 \in Nat /\ Off \notin Nat
      OBVIOUS
    <3> QED
      BY <2>1, <3>1, Armed, Facts DEF SetLow
  <2>3. \/ pending[Cqm] # Off /\ UNCHANGED <<cqmFor, odd>>
        \/ /\ pending[Cqm] = Off /\ cqmFor' = [cqmFor EXCEPT !.set = w]
           /\ odd' = odd \cup IF cqmFor.run = w THEN {"again"} ELSE {}
    BY <2>1 DEF SetLow
  <2>4. odd' \subseteq Odds /\ odd' \cap {"late", "crossed"} = odd \cap {"late", "crossed"}
    BY <2>3 DEF RestOK, Odds
  <2>5. TimersOK'
    BY <2>2, <2>3, Facts DEF TimersOK, Cqms
  <2>6. CqmInv'
    BY <2>2, <2>3, Facts DEF TimersOK, CqmInv, Cqms
  <2> QED
    BY <1>1, <2>2, <2>4, <2>5, <2>6, CqmOnly
<1> QED
  BY <1>2, <1>3

LEMMA FwNext ==
  ASSUME Inv, FwCompletes \/ FwForgets
  PROVE  Inv'
<1> USE DEF Inv
<1>1. /\ UNCHANGED <<pending, running, req, asked, call, busy, works, cqm, cqmFor, age, odd, used>>
      /\ fw' = None
  BY DEF FwCompletes, FwForgets, timers, cqms
<1>2. events' \in [Wdevs -> 0..MaxEvents]
  BY Facts DEF FwCompletes, FwForgets, Completes, RestOK
<1>3. RestOK' /\ TimersOK' /\ CqmInv'
  BY <1>1, <1>2 DEF RestOK, TimersOK, CqmInv
<1>4. CallInv' /\ AskInv' /\ WorkInv'
  BY <1>1 DEF CallInv, AskInv, WorkInv, Looking, Scanning, LateWork
<1> QED
  BY <1>3, <1>4
-----------------------------------------------------------------------------
(* The invariant                                                           *)

LEMMA InvInit == Init => Inv
<1> SUFFICES ASSUME Init  PROVE Inv
  OBVIOUS
<1>1. /\ NoCall.op = None /\ Free.by = None /\ Free.at = None
  BY DEF NoCall, Free
<1>2. RestOK
  <2>1. <<>> \in Seq(Wdevs) /\ 0 \in 0..MaxEvents /\ 0 \in 0..Old
    BY OldIs
  <2>2. used \in Uses
    BY DEF Init, Uses
  <2> QED
    BY <2>1, <2>2, Nones DEF Init, RestOK
<1>3. TimersOK /\ CqmInv
  BY Facts DEF Init, T!Init, TimersOK, CqmInv, Cqms
<1>4. CallInv /\ AskInv
  BY <1>1 DEF Init, CallInv, AskInv, Looking, Scanning
<1>5. WorkInv
  BY <1>1, Facts DEF Init, T!Init, WorkInv, Scanning
<1> QED
  BY <1>2, <1>3, <1>4, <1>5 DEF Inv

LEMMA InvNext == Inv /\ [Next]_vars => Inv'
<1> SUFFICES ASSUME Inv, [Next]_vars  PROVE Inv'
  OBVIOUS
<1>1. CASE \E r \in Requests, narrow \in BOOLEAN : BeginScan(r, narrow)
  BY <1>1, BeginNext
<1>2. CASE FwStarts \/ FwCompletes \/ FwForgets
  BY <1>2, StartsNext, FwNext
<1>3. CASE \E w \in Wdevs : Down(w) \/ Abort(w) \/ EventScanComplete(w) \/ EventCqm(w)
  BY <1>3, CallNext, EventNext, EventCqmNext
<1>4. CASE CallGoesOn
  BY <1>4, NoMemoryNext, StartNext, ArmNext, RefusedNext, FailsNext, StartsNext, LooksNext,
     CallNext DEF CallGoesOn
<1>5. CASE Done
  BY <1>5, CompareNext, TakeNext, TellNext, TellNullNext DEF Done
<1>6. CASE Timers
  BY <1>6, ExpireNext, CqmTimeoutNext, TimeoutNext DEF Timers, CallBack
<1>7. CASE Tick \/ Work
  BY <1>7, TickNext, WorkNext
<1>8. CASE UNCHANGED vars
  <2>1. UNCHANGED <<pending, running, req, asked, call, busy, works, fw, events, cqm, cqmFor, age,
                    odd, used>>
    BY <1>8 DEF vars, timers, cqms
  <2>2. RestOK' /\ TimersOK' /\ CqmInv'
    BY <2>1 DEF Inv, RestOK, TimersOK, CqmInv
  <2>3. CallInv' /\ AskInv' /\ WorkInv'
    BY <2>1 DEF Inv, CallInv, AskInv, WorkInv, Looking, Scanning, LateWork
  <2> QED
    BY <2>2, <2>3 DEF Inv
<1> QED
  BY <1>1, <1>2, <1>3, <1>4, <1>5, <1>6, <1>7, <1>8 DEF Next

THEOREM InvAlways == Spec => []Inv
  BY InvInit, InvNext, PTL DEF Spec

\* The types.
THEOREM TypeCorrect == Spec => []TypeOK
<1>1. Inv => TypeOK
  BY Types DEF Inv
<1> QED
  BY <1>1, InvAlways, PTL

\* skw->scan_req, and the request skw_scan_done has taken, is the one cfg80211
\* waits for, at every step of skw_scan_done, whatever time-outs are left over
\* from earlier scans, unless skw_scan failed in the middle of it.
THEOREM RequestIsAsked == Spec => []ScanReqIsAsked
<1>1. Inv => ScanReqIsAsked
  BY DEF Inv, AskInv, ScanReqIsAsked
<1> QED
  BY <1>1, InvAlways, PTL

\* skw_scan_timeout ends a scan whose own time is over, and skw_add_timer_work
\* does not meet the id of a scan, nor an interface its own CQM timer, but for
\* the named exceptions.
THEOREM OwnTimers == Spec => []TimersAreOwn
<1>1. Inv => TimeoutIsOwn
  BY DEF Inv, WorkInv, TimeoutIsOwn
<1>2. Inv => NoDuplicateTimer
  <2> SUFFICES ASSUME Inv  PROVE NoDuplicateTimer
    OBVIOUS
  <2>1. ASSUME call.op = "prepare", odd \cap {"late", "crossed"} = {}
        PROVE  pending[call.req] = Off
    <3>1. call.req \in Requests /\ req = None
      BY <2>1 DEF Inv, CallInv, AskInv, Scanning
    <3> QED
      BY <2>1, <3>1, Facts DEF Inv, WorkInv
  <2>2. ASSUME call.op = "arm", odd \cap {"late", "crossed"} = {}
        PROVE  pending[call.req] = Off
    BY <2>2 DEF Inv, WorkInv
  <2>3. ASSUME "again" \notin odd, NEW w \in Wdevs \ cqm
        PROVE  cqmFor.set # w
    BY <2>3, Facts DEF Inv, CqmInv
  <2> QED
    BY <2>1, <2>2, <2>3 DEF NoDuplicateTimer
<1> QED
  BY <1>1, <1>2, InvAlways, PTL DEF TimersAreOwn

\* One step keeps what cfg80211 finds when an interface is down: nothing of it
\* begins meanwhile, and the scan of the interface has been reported.
LEMMA DownKept ==
  ASSUME Inv, DownEndsScan, [Next]_vars
  PROVE  DownEndsScan'
<1> USE DEF Inv
<1>0. call \in Calls
  BY DEF RestOK
<1>1. CASE \E r \in Requests, narrow \in BOOLEAN : BeginScan(r, narrow)
  BY <1>1 DEF BeginScan, DownEndsScan
<1>2. CASE NoMemory \/ StartScan \/ ArmScan \/ FwStarts \/ StartRefused \/ StartFails \/ StartSucceeds
  <2>1. call.op \in Scanning /\ call'.op # "down"
    BY <1>0, <1>2 DEF NoMemory, StartScan, ArmScan, StartRefused, StartFails, FwStarts, StartSucceeds,
                      NoCall, Calls, Scanning
  <2> QED
    BY <2>1 DEF DownEndsScan
<1>3. CASE \E w \in Wdevs : Down(w) \/ Abort(w)
  <2>1. ~call'.done
    BY <1>3 DEF Down, Abort, NoCall
  <2> QED
    BY <2>1 DEF DownEndsScan
<1>4. CASE AbortStopped \/ DownEnds \/ AbortLooks
  <2>1. call'.op # "down"
    BY <1>0, <1>4 DEF AbortStopped, DownEnds, AbortLooks, Look, Leaves, NoCall, Calls
  <2> QED
    BY <2>1 DEF DownEndsScan
<1>5. ASSUME UNCHANGED asked, call'.op = call.op, call'.wdev = call.wdev,
             call'.done => call.done \/ call.op # "down" \/ ~IsOf(asked, call.wdev)
      PROVE  DownEndsScan'
  BY <1>5 DEF DownEndsScan, IsOf
<1>6. CASE DownLooks
  <2>1. /\ call.op = "down" /\ ~call.done /\ busy = Free /\ asked' = asked
        /\ call' = call \/ (req = None /\ call' = [call EXCEPT !.done = TRUE])
    BY <1>6 DEF DownLooks, Look, Leaves
  <2>2. req = None => asked = None
    BY <2>1 DEF CallInv, Free
  <2> QED
    BY <1>0, <1>5, <2>1, <2>2 DEF Calls, IsOf
<1>7. CASE Compare
  <2>1. PICK r \in {req, busy.req} :
           \/ r = None /\ UNCHANGED call
           \/ IsOf(r, busy.wdev) /\ UNCHANGED call
           \/ r # None /\ ~IsOf(r, busy.wdev) /\ Leaves(busy.by)
    BY <1>7 DEF Compare
  <2>2. asked' = asked /\ busy.at = "seen"
    BY <1>7 DEF Compare
  <2>3. CASE busy.by = "down" /\ Leaves(busy.by) /\ r # None /\ ~IsOf(r, busy.wdev)
    <3>1. call' = [call EXCEPT !.done = TRUE] /\ call.op = "down" /\ r = req /\ busy.wdev = call.wdev
      BY <2>2, <2>3 DEF Leaves, CallInv, Looking
    <3>2. asked \in {req, None}
      BY <2>2, <3>1 DEF CallInv
    <3> QED
      BY <1>0, <1>5, <2>2, <2>3, <3>1, <3>2 DEF Calls, IsOf
  <2>4. CASE busy.by = "abort" /\ Leaves(busy.by)
    <3>1. call' = NoCall
      BY <2>4 DEF Leaves
    <3> QED
      BY <3>1 DEF NoCall, DownEndsScan
  <2>5. CASE call' = call
    BY <1>5, <2>2, <2>5
  <2> QED
    BY <2>1, <2>3, <2>4, <2>5 DEF Leaves
<1>8. CASE Tell
  <2>1. /\ busy.at = "taken"
        /\ asked' = (IF asked = busy.req THEN None ELSE asked)
        /\ \/ call' = call
           \/ busy.by = "down" /\ call' = [call EXCEPT !.done = TRUE]
           \/ busy.by = "abort" /\ call' = NoCall
    BY <1>8, TellIs
  <2>2. CASE call' = call
    BY <2>1, <2>2 DEF DownEndsScan, IsOf
  <2>3. CASE busy.by = "down" /\ call' = [call EXCEPT !.done = TRUE]
    <3>1. asked' = None
      BY <2>1, <2>3 DEF CallInv
    <3> QED
      BY <3>1 DEF DownEndsScan, IsOf
  <2>4. CASE call' = NoCall
    BY <2>4 DEF NoCall, DownEndsScan
  <2> QED
    BY <2>1, <2>2, <2>3, <2>4
<1>9. CASE Take \/ TellNull \/ Timers \/ Tick \/ FwCompletes \/ FwForgets \/ UNCHANGED vars
           \/ \E w \in Wdevs : EventCqm(w)
  <2>1. asked' = asked /\ call' = call
    BY <1>9 DEF Take, TellNull, Timers, CallBack, Expire, ScanTimeout, CqmScanTimeout, Tick, EventCqm,
                FwCompletes, FwForgets, vars
  <2> QED
    BY <1>5, <2>1
<1>10. CASE Work \/ \E w \in Wdevs : EventScanComplete(w)
  <2>1. asked' = asked /\ call' = call
    BY <1>10 DEF Work, EventScanComplete, Look, Leaves
  <2> QED
    BY <1>5, <2>1
<1> QED
  BY <1>1, <1>2, <1>3, <1>4, <1>6, <1>7, <1>8, <1>9, <1>10 DEF Next, CallGoesOn, Done

\* An interface that is down has no scan left that cfg80211 waits for
\* (skw_ndo_stop, skw_iface_teardown).
THEOREM DownEnded == Spec => []DownEndsScan
<1>1. Init => DownEndsScan
  BY DEF Init, NoCall, DownEndsScan
<1>2. Inv /\ DownEndsScan /\ [Next]_vars => DownEndsScan'
  BY DownKept
<1> QED
  BY <1>1, <1>2, InvAlways, PTL DEF Spec
===============================================================================
