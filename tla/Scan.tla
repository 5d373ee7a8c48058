-------------------------------- MODULE Scan --------------------------------
(***************************************************************************)
(* Scanning in the skwifi driver (skw_cfg80211.c): cfg80211 asks for one   *)
(* scan at a time; it ends with the event of the firmware, with the time   *)
(* limit, whose timer (TimerSpec) queues a work (skw_work.c), or with the  *)
(* interface.  skw_scan_done holds skw->lock from its look at scan_req to  *)
(* its call of cfg80211; skw_scan and skw_abort_scan read and write        *)
(* scan_req without it, so what they do falls between any two steps of it. *)
(* The CQM event of a weak link (skw_msg.c) sets a flag of its interface,  *)
(* which the next scan uses up, and a timer whose id all interfaces share. *)
(* The timer entry always gets its memory here (in the code -ENOMEM of     *)
(* skw_add_timer_work is ignored), and is looked for and added in one step *)
(* (in the code two interfaces may both miss the id and both add it).      *)
(***************************************************************************)
EXTENDS Naturals, Sequences, FiniteSets

CONSTANTS
    Requests,     \* addresses of scan requests, used again once freed
    WdevOf,       \* the interface each is for
    Cqm,          \* skw_cqm_scan_timeout, the id of the CQM timer
    Timeout, Off, \* of TimerSpec
    None,
    MaxEvents,    \* bound: events of the firmware that wait, of each interface
    MaxScan, MaxUsed  \* bounds: scans; scans and CQM events

Ids == Requests \cup {Cqm}
Wdevs == {WdevOf[r] : r \in Requests}
CallOps == {"prepare", "arm", "start", "fail", "down", "abort"}
Enders == {"work", "down", "abort", "event"}   \* the callers of skw_scan_done
Places == {"seen", "checked", "taken", "oops"} \* how far it has come

ASSUME ScanAssumption ==
    /\ Cqm \notin Requests /\ None \notin Requests \cup {Cqm} \cup Wdevs
    /\ Timeout \in [Requests \cup {Cqm} -> Nat] /\ Off \notin Nat
    /\ Requests # {} /\ \A r, q \in Requests : Timeout[r] = Timeout[q]
    /\ None \notin CallOps \cup Enders \cup Places
    /\ {MaxEvents, MaxScan, MaxUsed} \subseteq Nat

VARIABLES
    pending, running,   \* the timers
    req,       \* skw->scan_req
    asked,     \* cfg80211: the scan it waits for
    call,      \* the call of cfg80211 under way
    busy,      \* skw->lock: which skw_scan_done holds it, the scan_req it read
    works,     \* work_list: the interfaces of the SKW_WORK_SCAN_TIMEOUT in it
    fw,        \* the request the firmware scans for
    events,    \* the SCAN_COMPLETE in the event queue of each interface
    cqm,       \* the interfaces with SKW_IFACE_STA_ROAM_FLAG_CQM_LOW
    cqmFor,    \* the interface of the CQM timer: of the entry, of the callback
    age,       \* history: ticks since scan_req was set, saturated
    odd,       \* history: see below
    used       \* bounds: scans and CQM events so far

\* "late": a time-out of an earlier scan was left when this one began;
\* "crossed": skw_scan failed while skw_scan_done was ending the same scan;
\* "again": the CQM timer was set while the callback of the same interface ran.
Odds == {"late", "crossed", "again"}

T == INSTANCE TimerSpec

timers == <<pending, running>>
cqms == <<cqm, cqmFor>>
vars == <<timers, req, asked, call, busy, works, fw, events, cqms, age, odd, used>>

Old == 1 + CHOOSE t \in {Timeout[r] : r \in Requests} : TRUE
NoCall == [op |-> None, req |-> None, wdev |-> None, done |-> FALSE]
Free == [by |-> None, wdev |-> None, req |-> None, at |-> None]

Init ==
    /\ T!Init /\ req = None /\ asked = None /\ call = NoCall /\ busy = Free
    /\ works = <<>> /\ fw = None /\ events = [w \in Wdevs |-> 0]
    /\ cqm = {} /\ cqmFor = [set |-> None, run |-> None]
    /\ age = 0 /\ odd = {} /\ used = [scan |-> 0, low |-> 0]

\* skw_add_timer_work refuses an id that is in the list, with SKW_BUG_ON.
Arm(id) == IF pending[id] = Off THEN T!Add(id) ELSE UNCHANGED timers

MayUse == used.scan + used.low < MaxUsed

IsOf(r, w) == r # None /\ WdevOf[r] = w

\* compat_scan_done: cfg80211 ends the scan it waits for.
Report(r) == asked' = IF asked = r THEN None ELSE asked

Completes(w) == events[w] < MaxEvents /\ events' = [events EXCEPT ![w] = @ + 1]

\* STOP_SCAN: executed, with a SCAN_COMPLETE or without one, or refused.
Stopped(w) ==
    \/ UNCHANGED <<fw, events>>
    \/ IsOf(fw, w) /\ fw' = None /\ (UNCHANGED events \/ Completes(w))
-----------------------------------------------------------------------------
(* skw_scan *)

\* The time-out of an earlier scan is still to come, or is being handled.
LateWork == works # <<>> \/ running \cap Requests # {} \/ busy.by = "work"

Calm == ~LateWork /\ busy = Free /\ req = None /\ \A r \in Requests : pending[r] = Off

\* skw_cqm_bg_scan: the scan may be narrowed to the channel of the CQM event;
\* the one CQM timer is deleted, whichever interface it is for.
BeginScan(r, narrow) ==
    /\ call = NoCall /\ asked = None /\ asked' = r
    /\ call' = [op |-> "prepare", req |-> r, wdev |-> WdevOf[r], done |-> FALSE]
    /\ odd' = (IF Calm THEN odd \ {"late", "crossed"}
               ELSE odd \cup IF LateWork THEN {"late"} ELSE {})
              \ IF narrow THEN {"again"} ELSE {}
    /\ IF narrow THEN /\ WdevOf[r] \in cqm /\ cqm' = cqm \ {WdevOf[r]}
                      /\ T!Del({Cqm}) /\ cqmFor' = [cqmFor EXCEPT !.set = None]
                 ELSE UNCHANGED <<timers, cqms>>
    /\ UNCHANGED <<req, busy, works, fw, events, age>>
    /\ MayUse /\ used.scan < MaxScan /\ used' = [used EXCEPT !.scan = @ + 1]

\* -ENOMEM, when the CQM flag is used up already.
NoMemory ==
    /\ call.op = "prepare" /\ call' = NoCall /\ asked' = None
    /\ UNCHANGED <<timers, req, busy, works, fw, events, cqms, age, odd, used>>

StartScan ==
    /\ call.op = "prepare" /\ call' = [call EXCEPT !.op = "arm"]
    /\ req' = call.req /\ age' = 0
    /\ UNCHANGED <<timers, asked, busy, works, fw, events, cqms, odd, used>>

\* A scan that was ended meanwhile leaves its timer to the next one.
ArmScan ==
    /\ call.op = "arm" /\ call' = [call EXCEPT !.op = "start"]
    /\ Arm(call.req)
    /\ odd' = odd \cup IF req # call.req THEN {"late"} ELSE {}
    /\ UNCHANGED <<req, asked, busy, works, fw, events, cqms, age, used>>

FwStarts ==
    /\ call.op = "start" /\ ~call.done /\ call' = [call EXCEPT !.done = TRUE]
    /\ fw' = call.req
    /\ UNCHANGED <<timers, req, asked, busy, works, events, cqms, age, odd, used>>

\* mutant: a refused scan is kept
StartRefusedKept ==
    /\ call.op = "start" /\ call' = [call EXCEPT !.op = "fail"]
    /\ UNCHANGED <<timers, req, asked, busy, works, fw, events, cqms, age, odd, used>>

\* Refused, or executed with the answer lost: scan_req is cleared, ...
StartRefused ==
    /\ call.op = "start" /\ call' = [call EXCEPT !.op = "fail"]
    /\ req' = None
    /\ odd' = odd \cup IF busy.at \in {"seen", "checked"} THEN {"crossed"} ELSE {}
    /\ UNCHANGED <<timers, asked, busy, works, fw, events, cqms, age, used>>

\* ... the timer deleted and the error returned: cfg80211 frees the request.
StartFails ==
    /\ call.op = "fail" /\ call' = NoCall
    /\ asked' = None /\ T!Del({call.req})
    /\ odd' = odd \cup IF busy.at = "taken" /\ busy.req = call.req THEN {"crossed"} ELSE {}
    /\ UNCHANGED <<req, busy, works, fw, events, cqms, age, used>>

StartSucceeds ==
    /\ call.op = "start" /\ call.done /\ call' = NoCall
    /\ UNCHANGED <<timers, req, asked, busy, works, fw, events, cqms, age, odd, used>>
-----------------------------------------------------------------------------
(* skw_scan_done *)

\* It gives the lock up and its caller goes on.
Leaves(by) ==
    /\ busy' = Free
    /\ call' = CASE by = "down" -> [call EXCEPT !.done = TRUE]
                 [] by = "abort" -> NoCall
                 [] OTHER -> call

\* With the lock: is there a scan?
Look(by, w) ==
    /\ busy = Free
    /\ IF req = None THEN Leaves(by)
       ELSE /\ busy' = [by |-> by, wdev |-> w, req |-> req, at |-> "seen"]
            /\ UNCHANGED call

\* mutant: another interface's scan is forgotten
CompareForgetting ==
    /\ busy.at = "seen"
    /\ \E r \in {req, busy.req} :
           \/ r = None /\ busy' = [busy EXCEPT !.at = "oops"] /\ UNCHANGED <<req, call>>
           \/ IsOf(r, busy.wdev) /\ busy' = [busy EXCEPT !.at = "checked"] /\ UNCHANGED <<req, call>>
           \/ r # None /\ ~IsOf(r, busy.wdev) /\ Leaves(busy.by) /\ req' = None
    /\ UNCHANGED <<timers, asked, works, fw, events, cqms, age, odd, used>>

\* Is it of this interface? The build may read scan_req again or keep what it
\* has read; with NULL the thread dies here, and keeps the lock.
Compare ==
    /\ busy.at = "seen"
    /\ \E r \in {req, busy.req} :
           \/ r = None /\ busy' = [busy EXCEPT !.at = "oops"] /\ UNCHANGED call
           \/ IsOf(r, busy.wdev) /\ busy' = [busy EXCEPT !.at = "checked"] /\ UNCHANGED call
           \/ r # None /\ ~IsOf(r, busy.wdev) /\ Leaves(busy.by)
    /\ UNCHANGED <<timers, req, asked, works, fw, events, cqms, age, odd, used>>

\* mutant: the timer of a scan that is done is not deleted
TakeTimed ==
    /\ busy.at = "checked" /\ busy' = [busy EXCEPT !.at = "taken", !.req = req]
    /\ req' = None
    /\ UNCHANGED <<timers, asked, call, works, fw, events, cqms, age, odd, used>>

\* scan_req is read once more, after a call that makes the build read it.
Take ==
    /\ busy.at = "checked" /\ busy' = [busy EXCEPT !.at = "taken", !.req = req]
    /\ req' = None /\ T!Del({req} \cap Ids)
    /\ UNCHANGED <<asked, call, works, fw, events, cqms, age, odd, used>>

Aborted == busy.by \in {"work", "down"}

\* mutant: cfg80211 is told after a successful command only
TellStoppedOnly ==
    /\ busy.at = "taken" /\ busy.req # None
    /\ IF Aborted THEN call.op # "start" /\ Stopped(busy.wdev) ELSE UNCHANGED <<fw, events>>
    /\ IF Aborted /\ fw' = fw THEN UNCHANGED asked ELSE Report(busy.req)
    /\ Leaves(busy.by)
    /\ UNCHANGED <<timers, req, works, cqms, age, odd, used>>

\* An aborted scan is stopped first; the command waits for the one that is
\* under way.  Then cfg80211 is told.
Tell ==
    /\ busy.at = "taken" /\ busy.req # None
    /\ IF Aborted THEN call.op # "start" /\ Stopped(busy.wdev) ELSE UNCHANGED <<fw, events>>
    /\ Report(busy.req) /\ Leaves(busy.by)
    /\ UNCHANGED <<timers, req, works, cqms, age, odd, used>>

TellNull ==
    /\ busy.at = "taken" /\ busy.req = None
    /\ busy' = [busy EXCEPT !.at = "oops"]
    /\ UNCHANGED <<timers, req, asked, call, works, fw, events, cqms, age, odd, used>>
-----------------------------------------------------------------------------
(* Its callers *)

\* skw_ndo_stop, skw_iface_teardown
Down(w) ==
    /\ call = NoCall /\ call' = [NoCall EXCEPT !.op = "down", !.wdev = w]
    /\ UNCHANGED <<timers, req, asked, busy, works, fw, events, cqms, age, odd, used>>

DownLooks ==
    /\ call.op = "down" /\ ~call.done /\ Look("down", call.wdev)
    /\ UNCHANGED <<timers, req, asked, works, fw, events, cqms, age, odd, used>>

DownEnds ==
    /\ call.op = "down" /\ call.done /\ call' = NoCall
    /\ UNCHANGED <<timers, req, asked, busy, works, fw, events, cqms, age, odd, used>>

\* skw_abort_scan, also called by skw_auth, looks for a scan of any interface
\* and stops that of its own.
Abort(w) ==
    /\ call = NoCall /\ req # None
    /\ call' = [NoCall EXCEPT !.op = "abort", !.wdev = w]
    /\ UNCHANGED <<timers, req, asked, busy, works, fw, events, cqms, age, odd, used>>

AbortStopped ==
    /\ call.op = "abort" /\ ~call.done /\ call' = [call EXCEPT !.done = TRUE]
    /\ Stopped(call.wdev)
    /\ UNCHANGED <<timers, req, asked, busy, works, cqms, age, odd, used>>

AbortLooks ==
    /\ call.op = "abort" /\ call.done /\ Look("abort", call.wdev)
    /\ UNCHANGED <<timers, req, asked, works, fw, events, cqms, age, odd, used>>

\* SKW_WORK_SCAN_TIMEOUT says only which interface it is for.
Work ==
    /\ works # <<>> /\ works' = Tail(works) /\ Look("work", Head(works))
    /\ UNCHANGED <<timers, req, asked, fw, events, cqms, age, odd, used>>

\* mutant: the event worker runs without an event
EventScanCompleteIdle(w) ==
    /\ events' = [events EXCEPT ![w] = @ - 1] /\ Look("event", w)
    /\ UNCHANGED <<timers, req, asked, works, fw, cqms, age, odd, used>>

\* skw_event_scan_complete
EventScanComplete(w) ==
    /\ events[w] > 0 /\ events' = [events EXCEPT ![w] = @ - 1] /\ Look("event", w)
    /\ UNCHANGED <<timers, req, asked, works, fw, cqms, age, odd, used>>
-----------------------------------------------------------------------------
(* The timers *)

Expire(S) ==
    /\ T!Expire(S)
    /\ IF Cqm \in S THEN /\ cqmFor' = [set |-> None, run |-> cqmFor.set]
                         /\ odd' = odd \ {"again"}
                    ELSE UNCHANGED <<cqmFor, odd>>
    /\ UNCHANGED <<req, asked, call, busy, works, fw, events, cqm, age, used>>

\* START_SCAN is answered or timed out (2 s) before the scan is (8 s).
Tick ==
    /\ call.op \in {"start", "fail"} => pending[call.req] # 1
    /\ T!Tick
    /\ age' = IF age < Old THEN age + 1 ELSE Old
    /\ UNCHANGED <<req, asked, call, busy, works, fw, events, cqms, odd, used>>

\* skw_scan_timeout
ScanTimeout(r) ==
    /\ T!CallBack(r)
    /\ works' = Append(works, WdevOf[r])
    /\ UNCHANGED <<req, asked, call, busy, fw, events, cqms, age, odd, used>>

CqmScanTimeout ==
    /\ T!CallBack(Cqm) /\ cqm' = cqm \ {cqmFor.run}
    /\ cqmFor' = [cqmFor EXCEPT !.run = None]
    /\ UNCHANGED <<req, asked, call, busy, works, fw, events, age, odd, used>>
-----------------------------------------------------------------------------
(* The firmware, and the CQM event *)

FwCompletes ==
    /\ fw # None /\ fw' = None /\ Completes(WdevOf[fw])
    /\ UNCHANGED <<timers, req, asked, call, busy, works, cqms, age, odd, used>>

\* It restarts, or never ends.
FwForgets ==
    /\ fw # None /\ fw' = None
    /\ UNCHANGED <<timers, req, asked, call, busy, works, events, cqms, age, odd, used>>

SetLow(w) ==
    /\ Arm(Cqm) /\ cqm' = cqm \cup {w}
    /\ IF pending[Cqm] # Off THEN UNCHANGED <<cqmFor, odd>>
       ELSE /\ cqmFor' = [cqmFor EXCEPT !.set = w]
            /\ odd' = odd \cup IF cqmFor.run = w THEN {"again"} ELSE {}

\* mutant: the flag of an earlier event is not looked at
EventCqmUnset(w) ==
    /\ busy.by # "event"
    /\ MayUse /\ used' = [used EXCEPT !.low = @ + 1]
    /\ IF w \in cqm THEN UNCHANGED <<timers, cqms, odd>>
       ELSE Arm(Cqm) /\ cqmFor' = [cqmFor EXCEPT !.set = w] /\ UNCHANGED <<cqm, odd>>
    /\ UNCHANGED <<req, asked, call, busy, works, fw, events, age>>

\* skw_event_cqm, CQM_STATUS_RSSI_LOW: event_wq runs one work at a time, of any
\* interface; what waits before it does not matter, since the firmware may send
\* it at any time.
EventCqm(w) ==
    /\ busy.by # "event"
    /\ MayUse /\ used' = [used EXCEPT !.low = @ + 1]
    /\ IF w \in cqm THEN UNCHANGED <<timers, cqms, odd>> ELSE SetLow(w)
    /\ UNCHANGED <<req, asked, call, busy, works, fw, events, age>>
-----------------------------------------------------------------------------
CallBack == CqmScanTimeout \/ \E r \in Requests : ScanTimeout(r)
Timers == CallBack \/ \E S \in SUBSET Ids : Expire(S)
Done == Compare \/ Take \/ Tell \/ TellNull
CallGoesOn == NoMemory \/ StartScan \/ ArmScan \/ StartRefused \/ StartFails \/ StartSucceeds
              \/ DownLooks \/ DownEnds \/ AbortStopped \/ AbortLooks

Next ==
    \/ \E r \in Requests, narrow \in BOOLEAN : BeginScan(r, narrow)
    \/ FwStarts \/ FwCompletes \/ FwForgets
    \/ \E w \in Wdevs : Down(w) \/ Abort(w) \/ EventScanComplete(w) \/ EventCqm(w)
    \/ CallGoesOn \/ Done \/ Timers \/ Tick \/ Work

Spec == Init /\ [][Next]_vars

\* Time passes, due timers run, calls go on and skw->lock is given up; a work
\* that waits for the lock gets it in the end.
FairSpec ==
    /\ Spec
    /\ WF_vars(Tick) /\ WF_vars(CallBack) /\ WF_vars(CallGoesOn) /\ WF_vars(Done)
    /\ SF_vars(Work)
    /\ \A r \in Requests : SF_vars(\E S \in SUBSET Ids : r \in S /\ Expire(S))
-----------------------------------------------------------------------------
TypeOK ==
    /\ pending \in [Ids -> Nat \cup {Off}] /\ running \subseteq Ids
    /\ {req, asked, fw} \subseteq Requests \cup {None}
    /\ call \in [op : CallOps \cup {None}, req : Requests \cup {None},
                 wdev : Wdevs \cup {None}, done : BOOLEAN]
    /\ busy \in [by : Enders \cup {None}, wdev : Wdevs \cup {None},
                 req : Requests \cup {None}, at : Places \cup {None}]
    /\ works \in Seq(Wdevs)
    /\ events \in [Wdevs -> 0..MaxEvents]
    /\ cqm \subseteq Wdevs /\ cqmFor \in [set : Wdevs \cup {None}, run : Wdevs \cup {None}]
    /\ (pending[Cqm] = Off <=> cqmFor.set = None) /\ (Cqm \notin running <=> cqmFor.run = None)
    /\ age \in 0..Old /\ odd \subseteq Odds
    /\ used \in [scan : 0..MaxScan, low : 0..MaxUsed]

\* The request the driver keeps, and the one skw_scan_done has taken from it to
\* report, is the one cfg80211 waits for, so it has not been freed, and is not
\* NULL; also when a late time-out ends the next scan.  Except when skw_scan
\* failed while skw_scan_done was ending the same scan.
ScanReqIsAsked ==
    "crossed" \notin odd =>
        /\ req # None => asked = req
        /\ busy.at = "taken" => busy.req # None /\ asked = busy.req
        /\ busy.at # "oops"

\* The work ends a scan whose own time is over, unless a time-out of an earlier
\* scan was still to come when it began: the work does not say which scan.
TimeoutIsOwn ==
    busy.by = "work" /\ busy.at = "taken" /\ odd \cap {"late", "crossed"} = {} => age = Old

\* cfg80211 warns of a scan that outlives its interface.
DownEndsScan == call.op = "down" /\ call.done => ~IsOf(asked, call.wdev)

\* The id of a scan is never met by skw_add_timer_work (SKW_BUG_ON), unless a
\* timer was left or the request freed too early; and an interface never meets
\* its own CQM timer, unless that was set while its callback ran.  It may meet
\* that of another interface: they share the id and not the flag.
NoDuplicateTimer ==
    /\ call.op \in {"prepare", "arm"} /\ odd \cap {"late", "crossed"} = {}
           => pending[call.req] = Off
    /\ "again" \notin odd => \A w \in Wdevs \ cqm : cqmFor.set # w

\* A timer, and the work it queues, belongs to the scan it was set for.
TimersAreOwn == TimeoutIsOwn /\ NoDuplicateTimer

\* Every scan cfg80211 asks for is ended, unless the thread that was to end it
\* died of a NULL scan_req.
ScanIsReported == []<>(asked = None \/ busy.at = "oops")
=============================================================================
