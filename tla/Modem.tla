------------------------------- MODULE Modem -------------------------------
(***************************************************************************)
(* The firmware's life as the SDIO platform driver sees it: the services   *)
(* WIFI and BT are started and stopped, the firmware asserts, dumps, is    *)
(* reset and comes back (skw_sdio_main.c, skw_sdio_rx.c), and the WIFI and *)
(* the BT driver are told.  One service operation runs at a time           *)
(* (boot_mutex).  The RX thread handles one packet after the other and     *)
(* runs the notifiers itself, service stops included.  Chip SV6160, built  *)
(* with CONFIG_SEEKWAVE_PLD_RELEASE, chip_en wired, as on the tablet.      *)
(***************************************************************************)
EXTENDS Naturals, Sequences, FiniteSets

CONSTANTS
    MaxTrouble,     \* bound: crashes, hangs, asserts by the host, failed resets
    MaxEvent        \* bound: these and the starts and stops by the services' users

ASSUME ModemAssumption == MaxTrouble \in Nat /\ MaxEvent \in Nat

Services == {"wifi", "bt"}

VARIABLES
    cp_state,   \* 0, 1, 2, 3: "run", "assert", "dumpdone", "blocked"
    map,        \* service_state_map
    power_off, host_state,
    done,       \* download_done
    armed,      \* skw_except_work: its timer is pending
    work,       \* ... and the place it is at
    op,         \* the operation that holds boot_mutex: who, what, its place
    rx,         \* the RX thread: its place, the packet, the map it has read
    asserter,   \* the place in send_modem_assert_command
    recovery,   \* recovery_work of the WIFI driver is queued
    fw,         \* firmware: its state, the services it runs, commands it got
    air,        \* packets on the way to the host
    on,         \* services whose users have been told they are started
    odd, events             \* history and bounds

host == <<cp_state, map, power_off, host_state, done>>
threads == <<armed, work, op, rx, asserter, recovery>>
outside == <<fw, air, on>>
vars == <<host, threads, outside, odd, events>>

NoOp == [by |-> "none", do |-> "stop", svc |-> "wifi", pc |-> "idle", old |-> {}]
RxIdle == [pc |-> "idle", svc |-> "wifi", old |-> {}]

\* After the first boot.
Init ==
    /\ cp_state = "run" /\ map = {} /\ power_off = FALSE /\ host_state = 0 /\ done = FALSE
    /\ armed = FALSE /\ work = "idle" /\ op = NoOp /\ rx = RxIdle
    /\ asserter = "idle" /\ recovery = FALSE
    /\ fw = [state |-> "up", serving |-> {}, todo |-> {}] /\ air = <<>> /\ on = {}
    /\ odd = {} /\ events = [call |-> 0, trouble |-> 0]

\* The places where a service operation holds except_mutex.
ExceptMutex ==
    op.pc \in {"locked", "reset2", "reinit2", "wait2", "send", "clear", "stop",
               "reinit3", "wait3", "off"}

Counts(kind) ==
    /\ events.call + events.trouble < MaxEvent
    /\ kind = "trouble" => events.trouble < MaxTrouble
    /\ events' = [events EXCEPT ![kind] = @ + 1]

Trouble(what) ==
    /\ Counts("trouble")
    /\ odd' = odd \cup what

\* What the host had not read yet is lost with the chip; what it has read is
\* handled still, though its sender is gone.
Reset(state, what) ==
    /\ fw' = [state |-> state, serving |-> {}, todo |-> {}]
    /\ \E n \in 0..Len(air) :
           /\ air' = SubSeq(air, 1, n)
           /\ odd' = odd \cup what
                     \cup IF n > 0 \/ rx.pc \in {"ready", "version"} THEN {"stale"} ELSE {}

\* skw_recovery_mode: the chip is reset and the firmware loaded.
RecoveryMode ==
    /\ power_off' = FALSE /\ Reset("boot", {})
    /\ UNCHANGED events
\* ... or skw_sdio_cp_reset fails, which callers ignore.
RecoveryFails ==
    /\ Counts("trouble")
    /\ Reset("dead", {"again"})
    /\ UNCHANGED power_off
-----------------------------------------------------------------------------
\* A service operation (skw_start_wifi_service and its like), by a user of the
\* service, a notifier in the RX thread or in the exception work, or the
\* recovery work of the WIFI driver.
Enter(who, what, s) ==
    /\ op = NoOp
    /\ op' = [by |-> who, do |-> what, svc |-> s, pc |-> "begin", old |-> {}]
    /\ on' = IF what = "stop" THEN on \ {s} ELSE on

Call(what, s) ==
    /\ Counts("call")
    /\ Enter("user", what, s)
    /\ UNCHANGED <<host, armed, work, rx, asserter, recovery, fw, air, odd>>

RecoveryWork ==
    /\ recovery /\ recovery' = FALSE
    /\ Enter("recovery", "start", "wifi")
    /\ UNCHANGED <<host, armed, work, rx, asserter, fw, air, odd, events>>

OpAt(pc) == op.pc = pc
OpTo(pc) == op' = [op EXCEPT !.pc = pc]
\* The caller goes on: a notifier with the next driver, its thread with the rest.
OpEnds(ok) ==
    /\ op' = NoOp
    /\ on' = IF ok /\ op.do = "start" THEN on \cup {op.svc} ELSE on
    /\ rx' = IF op.by # "rx" THEN rx
             ELSE IF op.svc = "wifi" THEN [rx EXCEPT !.pc = "tellbt"] ELSE RxIdle
    /\ work' = IF op.by = "work" THEN "clear" ELSE work
Caller == <<on, rx, work>>
OpOnly == UNCHANGED <<armed, asserter, recovery>>

AfterBoot == IF op.do = "start" THEN "await" ELSE "lock"

\* skw_boot_loader
OpBegin ==
    /\ OpAt("begin")
    /\ OpTo(IF power_off THEN "reset" ELSE AfterBoot)
    /\ UNCHANGED <<host, fw, air, odd, events, Caller>> /\ OpOnly

OpReset ==
    /\ OpAt("reset") \/ OpAt("reset2")
    /\ LET next == IF OpAt("reset") THEN AfterBoot ELSE "send"
           ready == IF OpAt("reset") THEN "reinit" ELSE "reinit2"
       IN  \/ RecoveryMode /\ OpTo(IF cp_state = "run" THEN ready ELSE next)
           \/ RecoveryFails /\ OpTo(next)
    /\ UNCHANGED <<cp_state, map, host_state, done, Caller>> /\ OpOnly

\* skw_check_cp_ready forgets what was completed before, then waits a second.
OpReinit ==
    /\ \E k \in {<<"reinit", "wait">>, <<"reinit2", "wait2">>, <<"reinit3", "wait3">>} :
           OpAt(k[1]) /\ OpTo(k[2])
    /\ done' = FALSE
    /\ UNCHANGED <<cp_state, map, power_off, host_state, fw, air, odd, events, Caller>>
    /\ OpOnly

\* Answers that will come although the one who waited for them has given up.
Coming(kind) == \E i \in DOMAIN air : air[i].kind = kind
GivesUp(outstanding) == odd' = IF outstanding THEN odd \cup {"stale"} ELSE odd

\* What became of the boot is not looked at.
OpBooted ==
    /\ OpAt("wait") \/ OpAt("wait2")
    /\ OpTo(IF OpAt("wait") THEN AfterBoot ELSE "send")
    /\ done' = FALSE
    /\ GivesUp(~done /\ (fw.state = "boot" \/ Coming("version")))
    /\ UNCHANGED <<cp_state, map, power_off, host_state, fw, air, events, Caller>>
    /\ OpOnly

\* A start waits two seconds for a firmware in trouble, and ends when the
\* service is there.
OpAwaited ==
    /\ OpAt("await")
    /\ IF op.svc \in map THEN OpEnds(TRUE) ELSE OpTo("locked") /\ UNCHANGED Caller
    /\ UNCHANGED <<host, fw, air, odd, events>> /\ OpOnly

OpLocked ==
    /\ OpAt("locked")
    /\ OpTo(IF map = {} /\ power_off THEN "reset2" ELSE "send")
    /\ UNCHANGED <<host, fw, air, odd, events, Caller>> /\ OpOnly

\* send_modem_service_command: an interrupt the firmware gets if it lives.
Command(what) ==
    fw' = IF fw.state \in {"boot", "up"}
          THEN [fw EXCEPT !.todo = @ \cup {<<what, op.svc>>}] ELSE fw

\* A start and a stop of one service are bits of one register: which of two
\* that the firmware finds there was meant last it cannot tell ("crossed").
OpSendStart ==
    /\ OpAt("send")
    /\ IF cp_state # "run"
       THEN OpEnds(FALSE) /\ UNCHANGED <<fw, odd>>
       ELSE /\ Command("start") /\ OpTo("reinit3") /\ UNCHANGED Caller
            /\ odd' = odd \cup IF <<"stop", op.svc>> \in fw.todo THEN {"crossed"} ELSE {}
    /\ UNCHANGED <<host, air, events>> /\ OpOnly

\* A BT stop goes on to see whether the chip can be switched off; either way
\* its own result is not looked at.
OpWoken ==
    /\ OpAt("wait3") /\ done /\ done' = FALSE
    /\ IF op.do = "start" THEN OpEnds(TRUE) ELSE OpTo("off") /\ UNCHANGED Caller
    /\ UNCHANGED <<cp_state, map, power_off, host_state, fw, air, odd, events>> /\ OpOnly

OpTimesOut ==
    /\ OpAt("wait3")
    /\ IF op.do = "start" THEN OpEnds(FALSE) ELSE OpTo("off") /\ UNCHANGED Caller
    /\ GivesUp(fw.todo # {} \/ air # <<>> \/ rx.pc = "ready")
    /\ UNCHANGED <<host, fw, air, events>> /\ OpOnly

\* skw_WIFI_service_stop, skw_BT_service_stop: the map is read, ...
OpStop ==
    /\ OpAt("lock")
    /\ IF op.svc \in map /\ (op.svc = "wifi" \/ cp_state = "run")
       THEN op' = [op EXCEPT !.pc = "clear", !.old = map]
       ELSE OpTo("off")
    /\ UNCHANGED <<host, fw, air, odd, events, Caller>> /\ OpOnly

\* ... written without the service, over a map that the handling of an
\* exception has cleared since ("torn"), ...
OpClear ==
    /\ OpAt("clear")
    /\ map' = op.old \ {op.svc} /\ op' = [op EXCEPT !.pc = "stop", !.old = {}]
    /\ odd' = odd \cup IF map = op.old THEN {} ELSE {"torn"}
    /\ UNCHANGED <<cp_state, power_off, host_state, done, fw, air, events, Caller>>
    /\ OpOnly

\* ... and the firmware told.
OpSendStop ==
    /\ OpAt("stop")
    /\ IF cp_state # "run"
       THEN OpEnds(FALSE) /\ UNCHANGED fw
       ELSE Command("stop") /\ UNCHANGED Caller
            /\ OpTo(IF op.svc = "wifi" THEN "off" ELSE "reinit3")
    /\ UNCHANGED <<host, air, odd, events>> /\ OpOnly

\* OpOff that does not ask whether the other service is there.
OpOffAlways ==
    /\ OpAt("off")
    /\ IF cp_state = "run" /\ ~power_off
       THEN power_off' = TRUE /\ Reset("off", {})
       ELSE UNCHANGED <<power_off, fw, air, odd>>
    /\ OpEnds(TRUE)
    /\ UNCHANGED <<cp_state, map, host_state, done, events>> /\ OpOnly

\* With the last service the chip is switched off.
OpOff ==
    /\ OpAt("off")
    /\ IF cp_state = "run" /\ map = {} /\ ~power_off
       THEN power_off' = TRUE /\ Reset("off", {})
       ELSE UNCHANGED <<power_off, fw, air, odd>>
    /\ OpEnds(TRUE)
    /\ UNCHANGED <<cp_state, map, host_state, done, events>> /\ OpOnly
-----------------------------------------------------------------------------
\* The RX thread (skw_sdio_handle_packet).
Packet(kind, s) == [kind |-> kind, svc |-> s]
Take(kind) == rx.pc = "idle" /\ air # <<>> /\ Head(air).kind = kind /\ air' = Tail(air)
RxAt(pc) == rx.pc = pc
RxTo(pc) == rx' = [RxIdle EXCEPT !.pc = pc]
RxOnly == UNCHANGED <<op, asserter>>

\* BTREADY and WIFIREADY: the map is read ...
RxReady ==
    /\ Take("ready")
    /\ rx' = [pc |-> "ready", svc |-> Head(air).svc, old |-> map]
    /\ UNCHANGED <<host, armed, work, recovery, fw, on, odd, events>> /\ RxOnly

\* ... and written, and whoever waits for the firmware is woken.
RxServiceUp ==
    /\ RxAt("ready") /\ rx' = RxIdle
    /\ map' = rx.old \cup {rx.svc} /\ done' = TRUE
    /\ UNCHANGED <<cp_state, power_off, host_state, armed, work, recovery, fw, air, on, odd, events>>
    /\ RxOnly

RxBtExit ==
    /\ Take("exit") /\ done' = TRUE
    /\ UNCHANGED <<cp_state, map, power_off, host_state, armed, work, rx, recovery, fw, on, odd, events>>
    /\ RxOnly

\* RxAssert that leaves the watch to send_modem_assert_command.
RxAssertUnwatched ==
    /\ Take("assert") /\ RxTo("assert")
    /\ UNCHANGED <<host, armed, work, recovery, fw, on, odd, events>> /\ RxOnly

\* BSPASSERT: only the first starts the watch.
RxAssert ==
    /\ Take("assert") /\ RxTo("assert")
    /\ armed' = (armed \/ cp_state = "run")
    /\ UNCHANGED <<host, work, recovery, fw, on, odd, events>> /\ RxOnly

RxAssertSet ==
    /\ RxAt("assert") /\ ~ExceptMutex
    /\ IF cp_state = "blocked"
       THEN rx' = RxIdle /\ UNCHANGED cp_state
       ELSE RxTo("clear") /\ cp_state' = "assert"
    /\ odd' = IF cp_state = "dumpdone" THEN odd \cup {"again"} ELSE odd
    /\ UNCHANGED <<map, power_off, host_state, done, armed, work, recovery, fw, air, on, events>>
    /\ RxOnly

\* RxClear that trusts the drivers to clear the map.
RxClearNot ==
    /\ RxAt("clear") /\ RxTo("tellwifi") /\ on' = {}
    /\ UNCHANGED <<host, armed, work, recovery, fw, air, odd, events>>
    /\ RxOnly

\* The drivers learn of it (DEVICE_ASSERT_EVENT) ...
RxClear ==
    /\ RxAt("clear") /\ RxTo("tellwifi")
    /\ map' = {} /\ on' = {}
    /\ UNCHANGED <<cp_state, power_off, host_state, done, armed, work, recovery, fw, air, odd, events>>
    /\ RxOnly

\* ... and stop their services: skw_bsp_notifier, which takes back the recovery
\* work and waits for one that runs, and btseekwave_plt_event_notifier, which is
\* registered while BT is open.
RxTellWifi ==
    /\ RxAt("tellwifi") /\ RxTo("telling")
    /\ recovery' = FALSE
    /\ Enter("rx", "stop", "wifi")
    /\ UNCHANGED <<host, armed, work, asserter, fw, air, odd, events>>

RxTellBt ==
    /\ RxAt("tellbt")
    /\ \/ RxTo("telling") /\ Enter("rx", "stop", "bt")
       \/ rx' = RxIdle /\ UNCHANGED <<op, on>>
    /\ UNCHANGED <<host, armed, work, asserter, recovery, fw, air, odd, events>>

\* DUMPDONE: the watch ends and the firmware is loaded again.
RxDumpDone ==
    /\ Take("dumpdone") /\ ~ExceptMutex
    /\ IF cp_state = "blocked"
       THEN UNCHANGED <<cp_state, rx>>
       ELSE cp_state' = "dumpdone" /\ RxTo("unwatch")
    /\ UNCHANGED <<map, power_off, host_state, done, armed, work, recovery, fw, on, odd, events>>
    /\ RxOnly

RxUnwatch ==
    /\ RxAt("unwatch") /\ RxTo("reset")
    /\ work = "idle" /\ armed' = FALSE
    /\ UNCHANGED <<host, work, recovery, fw, air, on, odd, events>> /\ RxOnly

RxReset ==
    /\ RxAt("reset") /\ rx' = RxIdle
    /\ RecoveryMode \/ RecoveryFails
    /\ UNCHANGED <<cp_state, map, host_state, done, armed, work, recovery, on>> /\ RxOnly

\* The firmware names its version: it is up.  After an exception the WIFI
\* driver is told (DEVICE_BSPREADY_EVENT) and starts over; BT only when it saw
\* the assert.
RxVersion ==
    /\ Take("version") /\ RxTo("version")
    /\ IF cp_state = "run"
       THEN done' = TRUE /\ UNCHANGED <<recovery, on>>
       ELSE recovery' = TRUE /\ on' = on \ {"wifi"} /\ UNCHANGED done
    /\ UNCHANGED <<cp_state, map, power_off, host_state, armed, work, fw, odd, events>>
    /\ RxOnly

\* The exception work that has begun is not stopped: it resets this firmware.
RxRunning ==
    /\ RxAt("version") /\ rx' = RxIdle
    /\ cp_state' = "run" /\ host_state' = 0
    /\ odd' = IF work \in {"tellwifi", "telling", "clear", "reset"}
              THEN odd \cup {"stale"} ELSE odd
    /\ UNCHANGED <<map, power_off, done, armed, work, recovery, fw, air, on, events>>
    /\ RxOnly
-----------------------------------------------------------------------------
\* skw_sdio_exception_work.  Its delay is longer than the RX thread waits for
\* except_mutex, which a service operation holds for about a second.
WorkOnly == UNCHANGED <<rx, asserter>>

WorkFires ==
    /\ armed /\ armed' = FALSE /\ ~RxAt("assert")
    /\ work = "idle" /\ work' = "look"
    /\ UNCHANGED <<host, op, recovery, fw, air, on, odd, events>> /\ WorkOnly

\* WorkLooks that gives up when the bus has failed.
WorkLooksIfBus ==
    /\ work = "look" /\ ~ExceptMutex
    /\ IF cp_state # "assert" \/ host_state = 1
       THEN work' = "idle" /\ UNCHANGED cp_state
       ELSE work' = "tellwifi" /\ cp_state' = "blocked"
    /\ UNCHANGED <<map, power_off, host_state, done, armed, op, recovery, fw, air, on, odd, events>>
    /\ WorkOnly

WorkLooks ==
    /\ work = "look" /\ ~ExceptMutex
    /\ IF cp_state # "assert"
       THEN work' = "idle" /\ UNCHANGED cp_state
       ELSE work' = (IF host_state = 0 THEN "tellwifi" ELSE "clear") /\ cp_state' = "blocked"
    /\ UNCHANGED <<map, power_off, host_state, done, armed, op, recovery, fw, air, on, odd, events>>
    /\ WorkOnly

\* DEVICE_BLOCKED_EVENT; the BT driver has nothing to do on it.
WorkTellsWifi ==
    /\ work = "tellwifi" /\ work' = "telling"
    /\ recovery' = FALSE
    /\ Enter("work", "stop", "wifi")
    /\ UNCHANGED <<host, armed, fw, air, odd, events>> /\ WorkOnly

WorkClears ==
    /\ work = "clear" /\ work' = "reset"
    /\ map' = {}
    /\ odd' = IF on = {} THEN odd ELSE odd \cup {"untold"}
    /\ UNCHANGED <<cp_state, power_off, host_state, done, armed, op, recovery, fw, air, on, events>>
    /\ WorkOnly

WorkResets ==
    /\ work = "reset"
    /\ \/ RecoveryMode /\ work' = IF cp_state = "run" THEN "reinit" ELSE "idle"
       \/ RecoveryFails /\ work' = "idle"
    /\ UNCHANGED <<cp_state, map, host_state, done, armed, op, recovery, on>> /\ WorkOnly

WorkWaits ==
    /\ \/ work = "reinit" /\ work' = "wait"
       \/ work = "wait" /\ work' = "idle"
    /\ done' = FALSE
    /\ UNCHANGED <<cp_state, map, power_off, host_state, armed, op, recovery, fw, air, on, odd, events>>
    /\ WorkOnly
-----------------------------------------------------------------------------
\* send_modem_assert_command, without a lock
AssertOnly == UNCHANGED <<map, power_off, done, work, op, rx, recovery, on>>

AssertTest ==
    /\ asserter = "idle" /\ cp_state = "run" /\ asserter' = "set"
    /\ Trouble({})
    /\ UNCHANGED <<cp_state, host_state, armed, fw, air>> /\ AssertOnly

AssertSet ==
    /\ asserter = "set" /\ asserter' = "irq"
    /\ cp_state' = "assert"
    /\ odd' = IF cp_state = "run" THEN odd ELSE odd \cup {"again"}
    /\ UNCHANGED <<host_state, armed, fw, air, events>> /\ AssertOnly

\* A firmware that is being brought up again fails.
Again == IF cp_state \in {"dumpdone", "blocked"} THEN {"again"} ELSE {}

\* What the firmware does when it asserts.
Asserts ==
    /\ fw' = [state |-> "dump", serving |-> {}, todo |-> {}]
    /\ air' = Append(air, Packet("assert", "wifi"))

AssertIrq ==
    /\ asserter = "irq" /\ asserter' = "watch"
    /\ \/ /\ fw.state \in {"boot", "up"} /\ Asserts
          /\ odd' = odd \cup Again /\ UNCHANGED host_state
       \/ /\ fw.state \notin {"boot", "up"} /\ UNCHANGED <<host_state, fw, air, odd>>
       \/ host_state' = 1 /\ UNCHANGED <<fw, air, odd>>
    /\ UNCHANGED <<cp_state, armed, events>> /\ AssertOnly

AssertWatch ==
    /\ asserter = "watch" /\ asserter' = "idle"
    /\ armed' = TRUE
    /\ UNCHANGED <<cp_state, host_state, fw, air, odd, events>> /\ AssertOnly
-----------------------------------------------------------------------------
\* The firmware.
FwOnly == UNCHANGED <<host, threads, on>>

FwBoots ==
    /\ fw.state = "boot" /\ fw' = [fw EXCEPT !.state = "up"]
    /\ air' = Append(air, Packet("version", "wifi"))
    /\ UNCHANGED <<odd, events>> /\ FwOnly

FwServes ==
    /\ fw.state = "up"
    /\ \E c \in fw.todo :
           LET s == c[2] IN
           IF c[1] = "start"
           THEN /\ fw' = [fw EXCEPT !.todo = @ \ {c}, !.serving = @ \cup {s}]
                /\ air' = Append(air, Packet("ready", s))
           ELSE /\ fw' = [fw EXCEPT !.todo = @ \ {c}, !.serving = @ \ {s}]
                /\ air' = IF s = "bt" THEN Append(air, Packet("exit", s)) ELSE air
    /\ UNCHANGED <<odd, events>> /\ FwOnly

FwCrashes ==
    /\ fw.state \in {"boot", "up"} /\ Asserts
    /\ Trouble(Again) /\ FwOnly

FwDumps ==
    /\ fw.state = "dump" /\ fw' = [fw EXCEPT !.state = "dumped"]
    /\ air' = Append(air, Packet("dumpdone", "wifi"))
    /\ UNCHANGED <<odd, events>> /\ FwOnly

FwHangs ==
    /\ fw.state \in {"boot", "up", "dump"}
    /\ fw' = [state |-> "dead", serving |-> {}, todo |-> {}]
    /\ Trouble(Again)
    /\ UNCHANGED air /\ FwOnly
-----------------------------------------------------------------------------
Op ==
    \/ OpBegin \/ OpReset \/ OpReinit \/ OpBooted \/ OpAwaited \/ OpLocked \/ OpSendStart
    \/ OpWoken \/ OpTimesOut \/ OpStop \/ OpClear \/ OpSendStop \/ OpOff
Rx ==
    \/ RxReady \/ RxServiceUp \/ RxBtExit \/ RxAssert \/ RxAssertSet \/ RxClear
    \/ RxTellWifi \/ RxTellBt \/ RxDumpDone \/ RxUnwatch \/ RxReset \/ RxVersion \/ RxRunning
Work ==
    \/ WorkFires \/ WorkLooks \/ WorkTellsWifi \/ WorkClears \/ WorkResets \/ WorkWaits
Asserter == AssertSet \/ AssertIrq \/ AssertWatch
Firmware == FwBoots \/ FwServes \/ FwDumps

Next ==
    \/ \E s \in Services : Call("start", s) \/ Call("stop", s)
    \/ RecoveryWork \/ Op \/ Rx \/ Work \/ AssertTest \/ Asserter
    \/ Firmware \/ FwCrashes \/ FwHangs

Spec == Init /\ [][Next]_vars

FairSpec ==
    /\ Spec
    /\ WF_vars(Op) /\ WF_vars(Rx) /\ WF_vars(Work) /\ WF_vars(Asserter) /\ WF_vars(Firmware)
    /\ WF_vars(RecoveryWork)
-----------------------------------------------------------------------------
OpPlaces == {"idle", "begin", "reset", "reinit", "wait", "await", "locked", "reset2", "reinit2",
             "wait2", "send", "lock", "clear", "stop", "reinit3", "wait3", "off"}

TypeOK ==
    /\ cp_state \in {"run", "assert", "dumpdone", "blocked"} /\ map \subseteq Services
    /\ power_off \in BOOLEAN /\ host_state \in {0, 1} /\ done \in BOOLEAN
    /\ armed \in BOOLEAN
    /\ work \in {"idle", "look", "tellwifi", "telling", "clear", "reset", "reinit", "wait"}
    /\ op \in [by : {"none", "user", "recovery", "rx", "work"}, do : {"start", "stop"},
               svc : Services, pc : OpPlaces, old : SUBSET Services]
    /\ rx \in [pc : {"idle", "ready", "assert", "clear", "tellwifi", "telling", "tellbt",
                     "unwatch", "reset", "version"},
               svc : Services, old : SUBSET Services]
    /\ (op.by = "rx") = RxAt("telling") /\ (op.by = "work") = (work = "telling")
    /\ asserter \in {"idle", "set", "irq", "watch"} /\ recovery \in BOOLEAN
    /\ fw \in [state : {"boot", "up", "dump", "dumped", "dead", "off"},
               serving : SUBSET Services, todo : SUBSET ({"start", "stop"} \X Services)]
    /\ air \in Seq([kind : {"ready", "exit", "assert", "dumpdone", "version"}, svc : Services])
    /\ on \subseteq Services
    /\ odd \subseteq {"again", "stale", "untold", "crossed", "torn"}
    /\ events \in [call : 0..MaxEvent, trouble : 0..MaxTrouble]

\* Whatever the firmware does after it asserted, or the host told it to, ends
\* in its recovery: the exception is watched.
CrashIsWatched ==
    cp_state = "assert" /\ "again" \notin odd => armed \/ work = "look" \/ asserter # "idle"

\* A service whose user was told that it is started has a chip with power, and
\* a firmware that is up serves it.
OnIsServed ==
    odd \cap {"stale", "untold", "crossed", "torn"} = {} =>
        \A s \in on : ~power_off /\ (fw.state = "up" => s \in fw.serving)

\* The platform comes back, and nobody waits for ever for boot_mutex.
ComesBack == []<>(op = NoOp /\ (cp_state = "run" \/ "again" \in odd))
=============================================================================
