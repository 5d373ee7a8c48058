------------------------------- MODULE StaMlme -------------------------------
(***************************************************************************)
(* The station side of the skwifi driver with an external SME: cfg80211    *)
(* (that is, the supplicant) asks to authenticate, to associate and to     *)
(* leave (skw_cfg80211.c); a timer resends (skw_iface.c); the event worker *)
(* handles the frames and the events of the firmware (skw_msg.c).          *)
(*                                                                         *)
(* All of them hold the station lock, except skw_event_disconnect and      *)
(* skw_change_station; so those two, and the AUTH and ASSOC commands they  *)
(* can overtake, take two steps here.  event_wq runs one work at a time,   *)
(* and cfg80211 makes one call at a time.  A command the firmware refuses  *)
(* was not executed; one that times out ends in the restart of the         *)
(* firmware, which is CmdChannel's.  A tick is SKW_STEP_TIMEOUT, 500 ms.   *)
(* The scan skw_auth aborts first is in Scan.                         *)
(***************************************************************************)
EXTENDS Naturals, Sequences, FiniteSets

CONSTANTS
    Bss,            \* the access points
    Sae,            \* those that authenticate with SAE, in two exchanges
    None,
    Slots,          \* contexts for peers the firmware can name
    ConnectTicks,   \* SKW_CONNECT_TIMEOUT in ticks (8 in the code)
    MaxRetry,       \* SKW_MAX_AUTH_ASSOC_RETRY_NUM
    MaxCall,        \* bound: requests to authenticate or associate
    MaxRefuse,      \* bound: commands the firmware refuses
    MaxDown,        \* bound: deauthentications and disconnect events
    MaxAir          \* bound: requests on the air

ASSUME StaAssumption ==
    /\ Sae \subseteq Bss /\ None \notin {"auth", "assoc"}
    /\ None \notin Bss \cup Slots \cup [to : Bss, slot : Slots]
    /\ {ConnectTicks, MaxRetry} \subseteq Nat \ {0}
    /\ {MaxCall, MaxRefuse, MaxDown, MaxAir} \subseteq Nat

VARIABLES
    sm,        \* core.sm.state
    sae,       \* SKW_SM_FLAG_SAE_RX_CONFIRM
    link,      \* core.bss, the peers bound to contexts, the firmware's join
    carrier,   \* netif_carrier of the interface
    cbss,      \* core.cbss, the BSS of the association under way
    retry,     \* core.pending.retry
    buf,       \* core.pending.cmd: the request a resend repeats
    timer,     \* core.timer: "off", "armed", "due"
    work,      \* sta.work is queued
    age,       \* ticks since auth_start and pending.start, saturated
    call,      \* the cfg80211 call that waits for its command; it holds the lock
    ev,        \* skw_event_disconnect waits for its command, without the lock
    keyed,     \* skw_change_station holds a context it looked up
    air,       \* requests sent and not answered yet
    cur,       \* cfg80211: the BSS it is connected to
    sup,       \* the supplicant: what it waits for, what it has done
    odd,       \* history: things that happened and no lock or check prevents
    used       \* bounds

state == <<sm, sae, retry, buf, cbss>>
clock == <<timer, work, age>>
vars == <<sm, sae, link, carrier, cbss, retry, buf, timer, work, age, call, ev,
          keyed, air, cur, sup, odd, used>>

States == {"NONE", "AUTHING", "AUTHED", "ASSOCING", "ASSOCED", "COMPLETED"}
Attempt == {"AUTHING", "ASSOCING"}
Joined == {"ASSOCED", "COMPLETED"}
Kinds == {"open", "commit", "confirm", "assoc"}
Request == [kind : Kinds, to : Bss]
NoRequest == [kind |-> None, to |-> None]
NoLink == [bss |-> None, slot |-> None, peer |-> [s \in Slots |-> None],
           tx |-> {}, fw |-> None]
Old == ConnectTicks + 1

\* pending.start is 0 at boot: long ago.
Init ==
    /\ sm = "NONE" /\ sae = FALSE /\ link = NoLink /\ carrier = FALSE /\ cbss = None
    /\ retry = 0 /\ buf = NoRequest
    /\ timer = "off" /\ work = FALSE /\ age = [auth |-> Old, step |-> 2]
    /\ call = NoRequest /\ ev = None /\ keyed = None /\ air = <<>>
    /\ cur = None /\ sup = [want |-> NoRequest, done |-> NoRequest]
    /\ odd = {} /\ used = [call |-> 0, refuse |-> 0, down |-> 0]

\* One command: executed, or refused as often as the bound allows.
Command(ok) ==
    /\ ok \/ used.refuse < MaxRefuse
    /\ used' = [used EXCEPT !.refuse = @ + IF ok THEN 0 ELSE 1]
\* A request goes out; those past the bound are lost.
Aired(req) == IF Len(air) < MaxAir THEN Append(air, req) ELSE air
Locked == call # NoRequest
Overlap == IF ev # None THEN {"overlap"} ELSE {}
-----------------------------------------------------------------------------
(* skw_join, skw_unjoin, skw_sta_leave *)

SlotOf(l, b) == {s \in Slots : l.peer[s] = b /\ b # None}

Join(l, b, s) ==
    [l EXCEPT !.bss = b, !.slot = s, !.peer[s] = b, !.fw = s, !.tx = @ \ {s}]

\* skw_unjoin from the answer on: whatever core.bss is by then is wiped, and
\* the context that was looked up is unbound.
Wiped(l, s) ==
    [l EXCEPT !.bss = None, !.slot = None, !.peer[s] = None, !.tx = @ \ {s}, !.fw = None]

\* mutant: a refused command forgets the BSS all the same
UnjoinForgetting(l, b, ok) ==
    LET held == SlotOf(l, b)
        s == CHOOSE x \in held : TRUE
    IN  IF held = {} THEN l
        ELSE IF ok THEN Wiped(l, s) ELSE [l EXCEPT !.tx = @ \ {s}, !.bss = None]

\* mutant: a refused command leaves transmission on
UnjoinSending(l, b, ok) ==
    LET held == SlotOf(l, b)
    IN  IF held = {} \/ ~ok THEN l ELSE Wiped(l, CHOOSE x \in held : TRUE)

\* Nothing happens for a BSS without a context.  A refused command leaves the
\* context bound and core.bss in place, with transmission off.
Unjoin(l, b, ok) ==
    LET held == SlotOf(l, b)
        s == CHOOSE x \in held : TRUE
    IN  IF held = {} THEN l ELSE IF ok THEN Wiped(l, s) ELSE [l EXCEPT !.tx = @ \ {s}]

\* skw_sta_leave: the result of the command is ignored.
Leave(b, ok) ==
    /\ Command(ok)
    /\ ok \/ SlotOf(link, b) # {}
    /\ sm' = "NONE" /\ sae' = FALSE /\ carrier' = FALSE /\ timer' = "off"
    /\ link' = Unjoin(link, b, ok)

\* skw_set_sta_timer: an armed timer is left as it is.
SetStaTimer(t) == IF t = "off" THEN "armed" ELSE t

\* cfg80211 hears that a BSS is gone; the supplicant waits no longer.
Gone(b) ==
    /\ cur' = IF cur = b THEN None ELSE cur
    /\ sup' = [want |-> NoRequest,
               done |-> IF sup.done.to = b THEN NoRequest ELSE sup.done]

Told(done) == sup' = [want |-> NoRequest, done |-> done]
-----------------------------------------------------------------------------
(* skw_auth *)

\* What the supplicant may ask: one request at a time, the confirm after the
\* commit, and cfg80211 refuses the BSS it is connected to.
MayAuth(b, kind) ==
    /\ ~Locked /\ sup.want = NoRequest /\ cur # b /\ used.call < MaxCall
    /\ kind \in (IF b \in Sae THEN {"commit", "confirm"} ELSE {"open"})
    /\ kind = "confirm" => sup.done = [kind |-> "commit", to |-> b]

Count == used' = [used EXCEPT !.call = @ + 1]
CountRefused == used' = [used EXCEPT !.call = @ + 1, !.refuse = @ + 1]

\* skw_cmd_auth, skw_cmd_assoc: the request is kept for a resend and sent;
\* AUTH does not name the BSS, which is the one the firmware has joined.
CmdAuth(b, kind) == buf' = [kind |-> kind, to |-> b] /\ call' = buf'
CmdAssoc(b) == buf' = [kind |-> "assoc", to |-> b] /\ call' = buf'

\* The states in which it returns without doing a thing: -EBUSY, or 0 for a
\* BSS it is on; nobody will answer then.
AuthReturns(b, kind) ==
    /\ MayAuth(b, kind)
    /\ \/ sm \in Attempt /\ sup' = sup
       \/ sm \in Joined /\ link.bss = b /\ sup' = [sup EXCEPT !.want = [kind |-> kind, to |-> b]]
    /\ odd' = odd \cup (IF sm \in Joined THEN {"noop"} ELSE {})
    /\ Count
    /\ UNCHANGED <<state, link, carrier, clock, call, ev, keyed, air, cur>>

\* Roaming leaves the old BSS first, with a notice to cfg80211 and the carrier
\* left on; a leftover of a refused leave is removed; then the join.  Each of
\* the three can be refused: the unjoin, the channel, the join.
AuthJoinFails(b, kind) ==
    /\ MayAuth(b, kind)
    /\ sm = "NONE" \/ (sm \in Joined /\ link.bss # b)
    /\ \/ /\ CountRefused /\ used.refuse < MaxRefuse
          /\ SlotOf(link, link.bss) # {}
          /\ link' = Unjoin(link, link.bss, FALSE)
       \/ /\ CountRefused /\ used.refuse < MaxRefuse
          /\ link' = Unjoin(link, link.bss, TRUE)
    /\ sm' = "NONE"
    /\ IF sm \in Joined THEN Gone(link.bss) ELSE UNCHANGED <<cur, sup>>
    /\ odd' = odd \cup Overlap
    /\ UNCHANGED <<sae, retry, buf, cbss, carrier, clock, call, ev, keyed, air>>

\* As far as the AUTH command: the AUTHED state is taken as joined, whatever
\* BSS the request names.
AuthStart(b, kind, s) ==
    /\ MayAuth(b, kind)
    /\ sm \in {"NONE", "AUTHED"} \/ (sm \in Joined /\ link.bss # b)
    /\ IF sm = "AUTHED" THEN s = link.slot /\ link' = link
       ELSE LET l == Unjoin(link, link.bss, TRUE)
            IN  s # l.fw /\ link' = Join(l, b, s)
    /\ IF sm \in Joined THEN Gone(link.bss) ELSE UNCHANGED <<cur, sup>>
    /\ sm' = "AUTHING" /\ retry' = 0
    /\ timer' = SetStaTimer(timer) /\ age' = [age EXCEPT !.auth = 0]
    /\ CmdAuth(b, kind)
    /\ Count
    /\ odd' = odd \cup Overlap
                  \cup (IF sm = "AUTHED" /\ link.bss # b THEN {"otherBss"} ELSE {})
    /\ UNCHANGED <<sae, cbss, carrier, work, ev, keyed, air>>

\* The command is done: sent, or refused and all undone.  A confirm that was
\* received before the one just sent ends the exchange.
AuthEnd(sent, ok) ==
    /\ Locked /\ call.kind # "assoc"
    /\ call' = NoRequest
    /\ odd' = odd \cup Overlap
    /\ IF sent
       THEN /\ ok /\ Command(TRUE)
            /\ air' = Aired(call)
            /\ sm' = IF call.kind = "confirm" /\ sae THEN "AUTHED" ELSE sm
            /\ sup' = [sup EXCEPT !.want = call]
            /\ UNCHANGED <<link, timer>>
       ELSE /\ used.refuse < MaxRefuse /\ (ok \/ used.refuse + 1 < MaxRefuse)
            /\ used' = [used EXCEPT !.refuse = @ + IF ok THEN 1 ELSE 2]
            /\ timer' = "off" /\ link' = Unjoin(link, call.to, ok) /\ sm' = "NONE"
            /\ UNCHANGED <<air, sup>>
    /\ UNCHANGED <<sae, retry, buf, cbss, carrier, work, age, ev, keyed, cur>>
-----------------------------------------------------------------------------
(* skw_assoc *)

\* The supplicant associates where it has authenticated, or moves its
\* association (fast transition over the wire).
MayAssoc(b) ==
    /\ ~Locked /\ sup.want = NoRequest /\ cur # b /\ used.call < MaxCall
    /\ \/ cur # None
       \/ sup.done = [kind |-> IF b \in Sae THEN "confirm" ELSE "open", to |-> b]

\* -EBUSY, -EINVAL, or 0 for the BSS it is on.
AssocReturns(b) ==
    /\ MayAssoc(b)
    /\ \/ sm \in Attempt \cup {"NONE"} /\ UNCHANGED <<sup, odd>>
       \/ /\ sm \in Joined /\ link.bss = b
          /\ sup' = [sup EXCEPT !.want = [kind |-> "assoc", to |-> b]]
          /\ odd' = odd \cup {"noop"}
    /\ Count
    /\ UNCHANGED <<state, link, carrier, clock, call, ev, keyed, air, cur>>

\* Moving to another BSS fails at the unjoin or at the join; cfg80211 gets the
\* error and still thinks it is connected to the old one.
AssocJoinFails(b) ==
    /\ MayAssoc(b) /\ sm \in Joined /\ link.bss # b
    /\ CountRefused /\ used.refuse < MaxRefuse
    /\ \E ok \in BOOLEAN : link' = Unjoin(link, link.bss, ok)
    /\ sm' = "NONE"
    /\ odd' = odd \cup Overlap \cup {"reassoc"}
    /\ UNCHANGED <<sae, retry, buf, cbss, carrier, clock, call, ev, keyed, air, cur, sup>>

AssocStart(b, s) ==
    /\ MayAssoc(b)
    /\ \/ sm = "AUTHED" /\ s = link.slot /\ link' = link
       \/ /\ sm \in Joined /\ link.bss # b
          /\ LET l == Unjoin(link, link.bss, TRUE)
             IN  s # l.fw /\ link' = Join(l, b, s)
    /\ cbss' = b /\ retry' = 0
    /\ sm' = "ASSOCING" /\ timer' = SetStaTimer(timer)
    /\ CmdAssoc(b)
    /\ Count
    /\ odd' = odd \cup Overlap \cup (IF sm \in Joined THEN {"reassoc"} ELSE {})
    /\ UNCHANGED <<sae, carrier, work, age, ev, keyed, air, cur, sup>>

AssocEnd(sent, ok) ==
    /\ Locked /\ call.kind = "assoc"
    /\ call' = NoRequest
    /\ odd' = odd \cup Overlap
    /\ IF sent
       THEN /\ ok /\ Command(TRUE)
            /\ air' = Aired(call)
            /\ sup' = [sup EXCEPT !.want = call]
            /\ UNCHANGED <<sm, cbss, link, timer>>
       ELSE /\ used.refuse < MaxRefuse /\ (ok \/ used.refuse + 1 < MaxRefuse)
            /\ used' = [used EXCEPT !.refuse = @ + IF ok THEN 1 ELSE 2]
            /\ cbss' = None
            /\ timer' = "off" /\ link' = Unjoin(link, call.to, ok) /\ sm' = "NONE"
            /\ UNCHANGED <<air, sup>>
    /\ UNCHANGED <<sae, retry, buf, carrier, work, age, ev, keyed, cur>>
-----------------------------------------------------------------------------
(* skw_cfg80211_deauth, skw_cfg80211_disassoc, skw_change_station *)

\* The supplicant leaves any BSS; cfg80211 lets it disassociate only from the
\* one it is connected to.
LeaveBss(b, ok) ==
    /\ ~Locked
    /\ Leave(b, ok)
    /\ Gone(b)
    /\ odd' = odd \cup Overlap
                  \cup (IF sm # "NONE" /\ b # link.bss THEN {"otherBss"} ELSE {})
    /\ UNCHANGED <<cbss, retry, buf, work, age, call, ev, keyed, air>>

Deauth(b, ok) == LeaveBss(b, ok)
Disassoc(b, ok) == cur = b /\ LeaveBss(b, ok)

\* The port is authorised: the context is looked up ...
Authorize ==
    /\ ~Locked /\ keyed = None /\ cur # None /\ sm = "ASSOCED"
    /\ \E s \in SlotOf(link, cur) : keyed' = s
    /\ UNCHANGED <<state, link, carrier, clock, call, ev, air, cur, sup, odd, used>>

\* ... and then used; the station lock is not taken, nor is the peer, which may
\* be gone by now, looked at before it is written to.
Authorized ==
    /\ keyed # None /\ keyed' = None /\ ~Locked
    /\ sm' = "COMPLETED"
    /\ odd' = odd \cup (IF sm \notin Joined \/ cur = None THEN {"lateKey"} ELSE {})
    /\ UNCHANGED <<sae, retry, buf, cbss, link, carrier, clock, call, ev, air, cur, sup, used>>
-----------------------------------------------------------------------------
(* skw_sta_timer, skw_sta_work *)

\* A timer that is due runs before much more time passes.
Tick ==
    /\ timer # "due"
    /\ timer' = IF timer = "armed" THEN "due" ELSE timer
    /\ age' = [auth |-> IF age.auth < Old THEN age.auth + 1 ELSE Old,
               step |-> IF age.step < 2 THEN age.step + 1 ELSE 2]
    /\ (timer # "off" \/ age' # age)
    /\ UNCHANGED <<state, link, carrier, work, call, ev, keyed, air, cur, sup, odd, used>>

StaTimer ==
    /\ timer = "due" /\ timer' = "off" /\ work' = TRUE
    /\ UNCHANGED <<state, link, carrier, age, call, ev, keyed, air, cur, sup, odd, used>>

\* More than n ticks old, as far as whole ticks can tell.
Past(a, n) == IF a < n THEN {FALSE} ELSE IF a = n THEN BOOLEAN ELSE {TRUE}

WorkRuns == work /\ work' = FALSE /\ ~Locked /\ ev = None

\* Nothing to watch.  In AUTHED, once the confirm was received, the work gives
\* up without telling anybody: the timer is not armed again.
StaWorkIdle ==
    /\ WorkRuns
    /\ sm \in Joined \cup {"NONE"} \/ (sm = "AUTHED" /\ sae)
    /\ UNCHANGED <<state, link, carrier, timer, age, call, ev, keyed, air, cur, sup, odd, used>>

\* mutant: the association is not watched
WatchedAuthOnly ==
    IF sm = "AUTHING" \/ (sm = "AUTHED" /\ ~sae) THEN "auth" ELSE None

\* The states in which it watches, and the command each resends.
Watched == IF sm = "ASSOCING" THEN "assoc"
           ELSE IF sm = "AUTHING" \/ (sm = "AUTHED" /\ ~sae) THEN "auth" ELSE None

\* The request in pending.cmd goes out once more, as the command of the state;
\* the firmware can make nothing of an association request sent as AUTH.
Resend(late) ==
    /\ sm' = IF late /\ Watched = "auth" THEN "AUTHING" ELSE sm
    /\ IF late /\ (buf.kind = "assoc") = (Watched = "assoc")
       THEN air' = Aired(buf)
       ELSE UNCHANGED air

\* mutant: the work arms the timer only when it has resent
StaWorkAgainIfLate(late) ==
    /\ WorkRuns /\ Watched # None
    /\ FALSE \in Past(age.auth, ConnectTicks) /\ late \in Past(age.step, 1)
    /\ retry' = IF late THEN retry + 1 ELSE retry
    /\ late => retry + 1 < MaxRetry
    /\ Resend(late)
    /\ timer' = IF late THEN SetStaTimer(timer) ELSE timer
    /\ UNCHANGED <<sae, buf, cbss, link, carrier, age, call, ev, keyed, cur, sup, odd, used>>

\* mutant: one round more than the retries allow
StaWorkAgainOnceMore(late) ==
    /\ WorkRuns /\ Watched # None
    /\ FALSE \in Past(age.auth, ConnectTicks) /\ late \in Past(age.step, 1)
    /\ retry' = IF late THEN retry + 1 ELSE retry
    /\ Resend(late)
    /\ timer' = SetStaTimer(timer)
    /\ UNCHANGED <<sae, buf, cbss, link, carrier, age, call, ev, keyed, cur, sup, odd, used>>

\* Another round, with a resend after SKW_STEP_TIMEOUT without an answer.
StaWorkAgain(late) ==
    /\ WorkRuns /\ Watched # None
    /\ FALSE \in Past(age.auth, ConnectTicks) /\ late \in Past(age.step, 1)
    /\ retry' = IF late THEN retry + 1 ELSE retry
    /\ late => retry + 1 < MaxRetry
    /\ Resend(late)
    /\ timer' = SetStaTimer(timer)
    /\ UNCHANGED <<sae, buf, cbss, link, carrier, age, call, ev, keyed, cur, sup, odd, used>>

\* It gives up: too long since auth_start (a resend that is due is sent all the
\* same), too many retries, or a resend that is refused.  The connection is
\* left and cfg80211 is told; the address in the notice is read after the leave
\* has wiped it.
StaWorkGivesUp(late, ok) ==
    /\ WorkRuns /\ Watched # None
    /\ late \in Past(age.step, 1)
    /\ retry' = IF late THEN retry + 1 ELSE retry
    /\ LET sends == late /\ retry + 1 < MaxRetry
       IN  \/ /\ IF sends THEN TRUE \in Past(age.auth, ConnectTicks)
                 ELSE late \/ TRUE \in Past(age.auth, ConnectTicks)
              /\ IF sends /\ buf.kind # "assoc"
                 THEN air' = Aired(buf)
                 ELSE UNCHANGED air
              /\ Leave(link.bss, ok)
           \/ /\ sends /\ ok /\ used.refuse < MaxRefuse /\ UNCHANGED air
              /\ used' = [used EXCEPT !.refuse = @ + 1]
              /\ sm' = "NONE" /\ sae' = FALSE /\ carrier' = FALSE /\ timer' = "off"
              /\ link' = Unjoin(link, link.bss, TRUE)
    /\ Told(NoRequest)
    /\ UNCHANGED <<buf, cbss, age, call, ev, keyed, cur, odd>>
-----------------------------------------------------------------------------
(* The event worker: skw_sta_rx_mgmt under the lock, skw_event_disconnect  *)
(* without                                                                 *)

Receive == ~Locked /\ ev = None
\* cfg80211 passes every answer on; a rejection ends whatever was asked of the BSS.
Answers(req, accepted) ==
    req.to = sup.want.to /\ (req.kind = sup.want.kind \/ ~accepted)

\* A request or its answer is lost.
LoseFrame ==
    /\ air # <<>> /\ air' = Tail(air)
    /\ UNCHANGED <<state, link, carrier, clock, call, ev, keyed, cur, sup, odd, used>>

\* skw_sta_rx_auth.  An answer from the BSS it is on makes the state AUTHED,
\* whatever it was.  A rejection is a leave; a confirm sets its flag even then.
\* The access point may send its confirm along with the commit.
RxAuth(accepted, early, ok) ==
    /\ Receive /\ air # <<>> /\ Head(air).kind # "assoc"
    /\ Head(air).to = link.bss
    /\ LET req == Head(air)
       IN  /\ air' = (IF early THEN <<[req EXCEPT !.kind = "confirm"]>> ELSE <<>>) \o Tail(air)
           /\ early => req.kind = "commit" /\ accepted
           /\ age' = [age EXCEPT !.step = 0] /\ retry' = 0
           /\ IF accepted
              THEN /\ sm' = "AUTHED" /\ sae' = (sae \/ req.kind = "confirm")
                   /\ ok /\ UNCHANGED <<link, carrier, timer, used>>
              ELSE /\ Command(ok) /\ (ok \/ SlotOf(link, req.to) # {})
                   /\ sm' = "NONE" /\ sae' = (req.kind = "confirm")
                   /\ carrier' = FALSE /\ timer' = "off"
                   /\ link' = Unjoin(link, req.to, ok)
           /\ IF Answers(req, accepted)
              THEN Told(IF accepted THEN req ELSE NoRequest)
              ELSE UNCHANGED sup
           /\ odd' = odd \cup (IF sm \in Joined \cup {"ASSOCING"} THEN {"lateAuth"} ELSE {})
    /\ UNCHANGED <<buf, cbss, work, call, ev, keyed, cur>>

\* skw_sta_rx_assoc, of the peer bound to core.bss.ctx_idx.  A rejection leaves
\* the peer bound.  The BSS handed to cfg80211 is core.cbss, which the first
\* answer uses up.
RxAssoc(accepted) ==
    /\ Receive /\ air # <<>> /\ Head(air).kind = "assoc"
    /\ LET req == Head(air)
       IN  /\ link.slot # None /\ link.peer[link.slot] = req.to
           /\ air' = Tail(air)
           /\ IF accepted
              THEN /\ sm' = "ASSOCED" /\ carrier' = TRUE
                   /\ link' = [link EXCEPT !.tx = @ \cup {link.slot}]
              ELSE sm' = "NONE" /\ UNCHANGED <<carrier, link>>
           /\ cur' = IF accepted THEN req.to ELSE None
           /\ Told(NoRequest)
           /\ odd' = odd \cup (IF sm # "ASSOCING" THEN {"lateAssoc"} ELSE {})
           /\ cbss' = None
    /\ UNCHANGED <<sae, retry, buf, clock, call, ev, keyed, used>>

\* An answer from a BSS it is no longer on is dropped.
RxStale ==
    /\ Receive /\ air # <<>>
    /\ IF Head(air).kind = "assoc"
       THEN ~(link.slot # None /\ link.peer[link.slot] = Head(air).to)
       ELSE Head(air).to # link.bss
    /\ air' = Tail(air)
    /\ UNCHANGED <<state, link, carrier, clock, call, ev, keyed, cur, sup, odd, used>>

CountDown(ok) ==
    /\ used.down < MaxDown /\ (ok \/ used.refuse < MaxRefuse)
    /\ used' = [used EXCEPT !.down = @ + 1, !.refuse = @ + IF ok THEN 0 ELSE 1]

\* skw_sta_rx_deauth: the access point ends it.
RxDeauth(b, ok) ==
    /\ Receive /\ SlotOf(link, b) # {}
    /\ CountDown(ok)
    /\ sm' = "NONE" /\ sae' = FALSE /\ carrier' = FALSE /\ timer' = "off"
    /\ link' = Unjoin(link, b, ok)
    /\ Gone(b)
    /\ UNCHANGED <<cbss, retry, buf, work, age, call, ev, keyed, air, odd>>

\* skw_event_disconnect: the leave as far as the command.  A cfg80211 call may
\* be waiting for its own command meanwhile.
Disconnect(b) ==
    /\ ev = None /\ SlotOf(link, b) # {}
    /\ used.down < MaxDown /\ used' = [used EXCEPT !.down = @ + 1]
    /\ sm' = "NONE" /\ sae' = FALSE /\ carrier' = FALSE /\ timer' = "off"
    /\ \E s \in SlotOf(link, b) :
           ev' = [to |-> b, slot |-> s] /\ link' = [link EXCEPT !.tx = @ \ {s}]
    /\ odd' = odd \cup (IF Locked THEN {"overlap"} ELSE {})
    /\ UNCHANGED <<cbss, retry, buf, work, age, call, keyed, air, cur, sup>>

\* mutant: cfg80211 is told only when the firmware obeyed
DisconnectedQuietly(ok) ==
    /\ ev # None /\ ev' = None
    /\ Command(ok)
    /\ link' = IF ok THEN Wiped(link, ev.slot) ELSE link
    /\ IF ok THEN Gone(ev.to) ELSE UNCHANGED <<cur, sup>>
    /\ odd' = odd \cup (IF Locked THEN {"overlap"} ELSE {})
    /\ UNCHANGED <<state, carrier, clock, call, keyed, air>>

\* ... and from the answer on.
Disconnected(ok) ==
    /\ ev # None /\ ev' = None
    /\ Command(ok)
    /\ link' = IF ok THEN Wiped(link, ev.slot) ELSE link
    /\ Gone(ev.to)
    /\ odd' = odd \cup (IF Locked THEN {"overlap"} ELSE {})
    /\ UNCHANGED <<state, carrier, clock, call, keyed, air>>
-----------------------------------------------------------------------------
\* The supplicant has timers of its own, longer than the driver's.
SupplicantGivesUp ==
    /\ sup.want # NoRequest /\ ~Locked /\ sm \notin Attempt
    /\ Told(NoRequest)
    /\ UNCHANGED <<state, link, carrier, clock, call, ev, keyed, air, cur, odd, used>>

StaWork == StaWorkIdle \/ (\E late \in BOOLEAN : StaWorkAgain(late))
           \/ (\E late, ok \in BOOLEAN : StaWorkGivesUp(late, ok))
CallEnds == \E sent, ok \in BOOLEAN : AuthEnd(sent, ok) \/ AssocEnd(sent, ok)

Cfg80211 ==
    \/ \E b \in Bss, kind \in Kinds :
           \/ AuthReturns(b, kind) \/ AuthJoinFails(b, kind)
           \/ \E s \in Slots : AuthStart(b, kind, s)
    \/ \E b \in Bss :
           \/ AssocReturns(b) \/ AssocJoinFails(b)
           \/ \E s \in Slots : AssocStart(b, s)
    \/ \E b \in Bss, ok \in BOOLEAN : Deauth(b, ok) \/ Disassoc(b, ok)
    \/ CallEnds
    \/ Authorize \/ Authorized
    \/ SupplicantGivesUp

Events ==
    \/ StaTimer \/ StaWork
    \/ \E accepted, early, ok \in BOOLEAN : RxAuth(accepted, early, ok)
    \/ \E accepted \in BOOLEAN : RxAssoc(accepted)
    \/ RxStale \/ LoseFrame
    \/ \E b \in Bss : Disconnect(b) \/ \E ok \in BOOLEAN : RxDeauth(b, ok)
    \/ \E ok \in BOOLEAN : Disconnected(ok)

Next == Cfg80211 \/ Events \/ Tick
Spec == Init /\ [][Next]_vars

\* Time passes, timers and works run, commands return, the air empties.
FairSpec ==
    /\ Spec
    /\ WF_vars(Tick \/ StaTimer) /\ WF_vars(StaWork) /\ WF_vars(CallEnds)
    /\ WF_vars(\E ok \in BOOLEAN : Disconnected(ok))
    /\ WF_vars(LoseFrame)
-----------------------------------------------------------------------------
Link == [bss : Bss \cup {None}, slot : Slots \cup {None}, peer : [Slots -> Bss \cup {None}],
         tx : SUBSET Slots, fw : Slots \cup {None}]

\* Types: above all, the retries stay within their limit and no more requests are
\* on the air than were sent.
TypeOK ==
    /\ sm \in States /\ sae \in BOOLEAN /\ carrier \in BOOLEAN
    /\ cbss \in Bss \cup {None} /\ cur \in Bss \cup {None}
    /\ retry \in 0..MaxRetry /\ buf \in Request \cup {NoRequest}
    /\ timer \in {"off", "armed", "due"} /\ work \in BOOLEAN
    /\ age \in [auth : 0..Old, step : 0..2]
    /\ call \in Request \cup {NoRequest}
    /\ ev \in [to : Bss, slot : Slots] \cup {None} /\ keyed \in Slots \cup {None}
    /\ air \in Seq(Request) /\ Len(air) <= MaxAir
    /\ link \in Link
    /\ sup \in [want : Request \cup {NoRequest}, done : Request \cup {NoRequest}]
    /\ odd \subseteq {"overlap", "noop", "otherBss", "reassoc", "lateAuth", "lateAssoc", "lateKey"}
    /\ used \in [call : 0..MaxCall, refuse : 0..MaxRefuse, down : 0..MaxDown]

\* An authentication or association under way is watched: the timer is armed
\* or the work is queued, so that a lost answer ends it.
AttemptIsWatched ==
    sm \in Attempt => timer # "off" \/ work

\* As long as skw_event_disconnect, which takes no lock, does not overlap a
\* call, the driver knows what the firmware is joined to: core.bss is the one
\* peer bound to a context, and it is the firmware's.
BssIsThePeer ==
    odd \cap {"overlap"} = {} /\ ev = None =>
        /\ {s \in Slots : link.peer[s] # None}
             = IF link.bss = None THEN {} ELSE {link.slot}
        /\ link.bss # None => link.peer[link.slot] = link.bss
        /\ link.fw = link.slot

\* cfg80211 and the driver agree: while cfg80211 is connected the driver is
\* associated with that BSS and may transmit, unless one of the named things
\* happened: an authentication answered after the association had begun, a
\* second answer, a failed move, a disconnect across a call.  Once it is no
\* longer associated the driver transmits to nobody; and while it associates
\* there is a BSS (core.cbss) to hand to cfg80211 with the answer.
LinkAgrees ==
    odd \cap {"overlap", "otherBss", "lateAuth", "lateAssoc"} = {} =>
        /\ ~Locked /\ ev = None /\ cur # None /\ "reassoc" \notin odd
           => sm \in Joined /\ link.bss = cur /\ link.slot \in link.tx /\ carrier
        /\ link.tx # {} => sm \in Joined \/ call.kind = "assoc"
        /\ sm = "ASSOCING" => cbss # None

\* What the supplicant waits for ends: with an answer, a time-out or a leave.
\* The exceptions: a request the driver takes for a link it has already (noop,
\* otherBss), or an authorization that comes when the link is lost (lateKey); a
\* disconnect across the call, or a second answer of an attempt (overlap,
\* lateAuth); and an SAE exchange whose confirm flag is set.
RequestIsAnswered ==
    []<>(\/ sup.want = NoRequest \/ sae
         \/ odd \cap {"noop", "otherBss", "lateKey", "overlap", "lateAuth"} # {})
=============================================================================
