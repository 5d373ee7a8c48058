----------------------------- MODULE CmdChannel -----------------------------
(***************************************************************************)
(* The command channel of the skwifi driver (skw_msg.c, skw_msg.h, the     *)
(* command part of skw_tx.c, skw_rx.c, skw_core.c and skw_recovery.c).     *)
(*                                                                         *)
(* One command at a time is outstanding: the mutex cmd.lock is taken by a  *)
(* caller, the command is left in cmd.data, the TX worker sends it and the *)
(* firmware answers with the sequence number of the command.  Two kinds of *)
(* callers use the channel:                                                *)
(*   - threads in skw_msg_xmit_timeout, which sleep until the answer, a    *)
(*     signal or SKW_CMD_TIMEOUT, and unlock the mutex themselves;         *)
(*   - the softirq of ndo_start_xmit in skw_msg_try_send (here Net), which *)
(*     returns at once: the mutex is unlocked by the answer's callback or  *)
(*     by the driver timer, whichever comes.                               *)
(* The firmware may crash; the platform driver then notifies the driver,   *)
(* which aborts the command, and the recovery work restarts the channel.   *)
(***************************************************************************)
EXTENDS Naturals, FiniteSets

CONSTANTS
    Callers,      \* threads that call skw_msg_xmit_timeout
    Quiet,        \* those that pass SKW_CMD_FLAG_IGNORE_BLOCK_TX (suspend)
    Net,          \* the softirq that calls skw_msg_try_send
    None,         \* no owner, no buffer, no message
    Lossy,        \* TRUE: the firmware may leave a command unanswered
    MaxCmd,       \* bound: commands issued
    MaxCrash,     \* bound: crashes of the firmware on its own account
    MaxSignal     \* bound: signals that interrupt a sleeping caller

ASSUME ChannelAssumption ==
    /\ Quiet \subseteq Callers
    /\ Net \notin Callers /\ None \notin Callers /\ Net # None
    /\ Lossy \in BOOLEAN
    /\ MaxCmd \in Nat /\ MaxCrash \in Nat /\ MaxSignal \in Nat

VARIABLES
    owner,    \* cmd.lock: a caller, Net or None
    cmd,      \* skw->cmd
    pc,       \* where each caller is
    mine,     \* the number of the command a caller issued last
    result,   \* what its last call returned: a kind and an answer
    net,      \* where ndo_start_xmit is in skw_msg_try_send
    timer,    \* 1: the timer of the asynchronous command is queued
    firing,   \* 1: skw_timer_work took it off the list to call it back
    worker,   \* 1: skw_tx_worker cleared XMIT and is about to send
    acks,     \* answers on their way to the host
    rx,       \* the answer skw_cmd_ack_handler has accepted, or None
    fw,       \* the firmware: up, crashed, down (notified), ready, prepared
    fwAssert, blockTx,  \* SKW_FLAG_FW_ASSERT, SKW_FLAG_BLOCK_TX
    assertWork,         \* SKW_WORK_FLAG_ASSERT
    issued, crashes, signals,
    odd       \* what has happened that the channel is not proof against:
              \* "async" commands, "signal"s, answers after the timeout ("late")

vars == <<owner, cmd, pc, mine, result, net, timer, firing, worker, acks, rx,
          fw, fwAssert, blockTx, assertWork, issued, crashes, signals, odd>>
thread == <<pc, mine, result>>
clock == <<timer, firing>>
platform == <<fw, fwAssert, blockTx, assertWork>>
bounds == <<issued, crashes, signals, odd>>

\* wire is the seq in cmd.data, no tells commands apart for the properties;
\* status is the number of the command whose answer was stored
Command == [seq: 0..MaxCmd, wire: 0..MaxCmd, no: 0..MaxCmd, arg: Callers \cup {None},
            quiet: 0..1, status: 0..MaxCmd, xmit: 0..1, acked: 0..1, done: 0..1,
            callback: {"wake", "unlock"}]
Message == [seq: 0..MaxCmd, no: 0..MaxCmd]

\* the state after the version handshake of the probe
Init ==
    /\ owner = None
    /\ cmd = [seq |-> 0, wire |-> 0, no |-> 0, arg |-> None, quiet |-> 0, status |-> 0,
              xmit |-> 0, acked |-> 1, done |-> 1, callback |-> "wake"]
    /\ pc = [c \in Callers |-> "idle"] /\ mine = [c \in Callers |-> 0]
    /\ result = [c \in Callers |-> <<"none", 0>>]
    /\ net = "idle" /\ timer = 0 /\ firing = 0
    /\ worker = 0 /\ acks = {} /\ rx = None
    /\ fw = "up" /\ fwAssert = 0 /\ blockTx = 0 /\ assertWork = 0
    /\ issued = 0 /\ crashes = 0 /\ signals = 0 /\ odd = {}

\* skw_tx_allowed, with the mask of the callers that ignore BLOCK_TX
TxAllowed(quiet) == fwAssert = 0 /\ (blockTx = 0 \/ quiet = 1)

QuietOf(c) == IF c \in Quiet THEN 1 ELSE 0

\* mutant: the number is advanced by the caller and here
SetCmdSkipping(arg, quiet) ==
    /\ issued' = issued + 1
    /\ cmd' = [cmd EXCEPT !.seq = @ + 2, !.wire = cmd.seq + 2, !.no = issued + 1, !.arg = arg,
                          !.quiet = quiet, !.status = 0, !.xmit = 0, !.acked = 0, !.done = 0]

\* skw_set_cmd: the callback of the command before it stays in place
SetCmd(arg, quiet) ==
    /\ issued' = issued + 1
    /\ cmd' = [cmd EXCEPT !.seq = @ + 1, !.wire = cmd.seq + 1, !.no = issued + 1, !.arg = arg,
                          !.quiet = quiet, !.status = 0, !.xmit = 0,
                          !.acked = 0, !.done = 0]

\* mutant: the timeout does not stop later commands
HwAssertUnmarked ==
    /\ fwAssert' = fwAssert
    /\ fw' = IF fwAssert = 0 /\ fw = "up" THEN "crashed" ELSE fw

\* skw_hw_assert: the first caller makes the firmware dump and restart
HwAssert ==
    /\ fwAssert' = 1
    /\ fw' = IF fwAssert = 0 /\ fw = "up" THEN "crashed" ELSE fw

\* bound: another command may be begun
Room == issued + Cardinality({c \in Callers: pc[c] = "locked"})
               + Cardinality({n \in {net}: n = "locked"}) < MaxCmd

(*************************** skw_msg_xmit_timeout **************************)

Lock(c) ==
    /\ pc[c] = "idle" /\ owner = None /\ Room
    /\ owner' = c /\ pc' = [pc EXCEPT ![c] = "locked"]
    /\ UNCHANGED <<cmd, mine, result, net, clock, worker, acks, rx, platform, bounds>>

Refused(c) ==
    /\ pc[c] = "locked" /\ ~TxAllowed(QuietOf(c))
    /\ owner' = None /\ pc' = [pc EXCEPT ![c] = "idle"]
    /\ result' = [result EXCEPT ![c] = <<"eio", 0>>]
    /\ UNCHANGED <<cmd, mine, net, clock, worker, acks, rx, platform, bounds>>

Prepare(c) ==
    /\ pc[c] = "locked" /\ TxAllowed(QuietOf(c))
    /\ SetCmd(c, QuietOf(c))
    /\ mine' = [mine EXCEPT ![c] = issued + 1]
    /\ pc' = [pc EXCEPT ![c] = "set"]
    /\ UNCHANGED <<owner, result, net, clock, worker, acks, rx, platform, crashes, signals, odd>>

\* mutant: the lock is given up once the command is handed to the TX worker
SubmitUnlocking(c) ==
    /\ pc[c] = "set"
    /\ cmd' = [cmd EXCEPT !.callback = "wake", !.xmit = 1]
    /\ pc' = [pc EXCEPT ![c] = "wait"] /\ owner' = None
    /\ UNCHANGED <<mine, result, net, clock, worker, acks, rx, platform, bounds>>

Submit(c) ==
    /\ pc[c] = "set"
    /\ cmd' = [cmd EXCEPT !.callback = "wake", !.xmit = 1]
    /\ pc' = [pc EXCEPT ![c] = "wait"]
    /\ UNCHANGED <<owner, mine, result, net, clock, worker, acks, rx, platform, bounds>>

Leave(c, outcome) ==
    /\ owner' = None /\ pc' = [pc EXCEPT ![c] = "idle"]
    /\ result' = [result EXCEPT ![c] = outcome]
    /\ UNCHANGED <<cmd, mine, net, clock, worker, acks, rx>>

Answered(c) ==
    /\ pc[c] = "wait" /\ cmd.done = 1
    /\ Leave(c, <<"ok", cmd.status>>)
    /\ UNCHANGED <<platform, bounds>>

\* The TX worker takes a command long before SKW_CMD_TIMEOUT.
InTime == cmd.xmit = 0 /\ worker = 0 /\ net # "set"

\* The answer comes after all.
Late == IF acks = {} /\ rx = None THEN {} ELSE {"late"}

\* mutant: a command that was aborted, so marked ACKED, is not timed out
TimedOutUnlessAcked(c) ==
    /\ pc[c] = "wait" /\ cmd.acked = 0 /\ InTime
    /\ Leave(c, <<"timeout", 0>>)
    /\ HwAssert /\ odd' = odd \cup Late
    /\ UNCHANGED <<blockTx, assertWork, issued, crashes, signals>>

TimedOut(c) ==
    /\ pc[c] = "wait" /\ cmd.done = 0 /\ InTime
    /\ Leave(c, <<"timeout", 0>>)
    /\ HwAssert /\ odd' = odd \cup Late
    /\ UNCHANGED <<blockTx, assertWork, issued, crashes, signals>>

Interrupted(c) ==
    /\ pc[c] = "wait" /\ cmd.done = 0 /\ signals < MaxSignal
    /\ signals' = signals + 1 /\ odd' = odd \cup {"signal"}
    /\ Leave(c, <<"signal", 0>>)
    /\ UNCHANGED <<platform, issued, crashes>>

(***************************** skw_msg_try_send ****************************)

TryLock ==
    /\ net = "idle" /\ owner = None /\ Room
    /\ owner' = Net /\ net' = "locked" /\ odd' = odd \cup {"async"}
    /\ UNCHANGED <<cmd, thread, clock, worker, acks, rx, platform, issued, crashes, signals>>

TryRefused ==
    /\ net = "locked" /\ ~TxAllowed(0)
    /\ owner' = None /\ net' = "idle"
    /\ UNCHANGED <<cmd, thread, clock, worker, acks, rx, platform, bounds>>

\* mutant: no timer stands behind the asynchronous command
TryPrepareUntimed ==
    /\ net = "locked" /\ TxAllowed(0)
    /\ SetCmd(None, 0)
    /\ net' = "set"
    /\ UNCHANGED <<owner, thread, clock, worker, acks, rx, platform, crashes, signals, odd>>

TryPrepare ==
    /\ net = "locked" /\ TxAllowed(0)
    /\ SetCmd(None, 0)
    /\ timer' = 1 /\ net' = "set"
    /\ UNCHANGED <<owner, thread, firing, worker, acks, rx, platform, crashes, signals, odd>>

TrySubmit ==
    /\ net = "set" /\ net' = "idle"
    /\ cmd' = [cmd EXCEPT !.callback = "unlock", !.xmit = 1]
    /\ UNCHANGED <<owner, thread, clock, worker, acks, rx, platform, bounds>>

\* skw_timer_work moves the expired timer to a list of its own ...
Expire ==
    /\ timer = 1 /\ firing = 0
    /\ InTime
    /\ timer' = 0 /\ firing' = 1
    /\ UNCHANGED <<owner, cmd, thread, net, worker, acks, rx, platform, bounds>>

\* ... and calls skw_cmd_timeout_fn outside its lock
CmdTimeout ==
    /\ firing = 1 /\ firing' = 0
    /\ blockTx' = 1 /\ assertWork' = 1 /\ owner' = None
    /\ UNCHANGED <<cmd, thread, net, timer, worker, acks, rx, fw, fwAssert, bounds>>

AssertWork ==
    /\ assertWork = 1 /\ assertWork' = 0
    /\ HwAssert
    /\ UNCHANGED <<owner, cmd, thread, net, clock, worker, acks, rx, blockTx, bounds>>

(************************* the TX worker and the RX ************************)

TakeCmd ==
    /\ worker = 0 /\ cmd.xmit = 1
    /\ worker' = 1 /\ cmd' = [cmd EXCEPT !.xmit = 0]
    /\ UNCHANGED <<owner, thread, net, clock, acks, rx, platform, bounds>>

\* skw_bus_cmd_xmit: a command that is not allowed any more is dropped
SendCmd ==
    /\ worker = 1 /\ worker' = 0
    /\ \/ /\ TxAllowed(cmd.quiet) /\ fw = "up"
          /\ acks' = acks \cup {[seq |-> cmd.wire, no |-> cmd.no]}
       \/ /\ Lossy \/ ~TxAllowed(cmd.quiet) \/ fw # "up"
          /\ acks' = acks
    /\ UNCHANGED <<owner, cmd, thread, net, clock, rx, platform, bounds>>

\* skw_cmd_ack_handler: the answer belongs to the command in the buffer
Match(m) == m.seq = cmd.seq /\ cmd.acked = 0

AcceptAck(m) ==
    /\ rx = None /\ m \in acks /\ Match(m)
    /\ acks' = acks \ {m} /\ rx' = m
    /\ cmd' = [cmd EXCEPT !.acked = 1]
    /\ UNCHANGED <<owner, thread, net, clock, worker, platform, bounds>>

RejectAck(m) ==
    /\ rx = None /\ m \in acks /\ ~Match(m)
    /\ acks' = acks \ {m}
    /\ UNCHANGED <<owner, cmd, thread, net, clock, worker, rx, platform, bounds>>

\* cmd.callback: skw_msg_xmit_timeout_cb or skw_msg_try_send_cb
Callback ==
    IF cmd.callback = "unlock" THEN timer' = 0 /\ owner' = None
                               ELSE UNCHANGED <<timer, owner>>

\* status and data are copied outside the lock, then the callback is called
StoreAck ==
    /\ rx # None /\ rx' = None
    /\ cmd' = [cmd EXCEPT !.status = rx.no, !.done = 1]
    /\ Callback
    /\ UNCHANGED <<thread, net, firing, worker, acks, platform, bounds>>

(************************* crash and recovery ******************************)

FwCrash ==
    /\ fw = "up" /\ crashes < MaxCrash
    /\ crashes' = crashes + 1 /\ fw' = "crashed"
    /\ UNCHANGED <<owner, cmd, thread, net, clock, worker, acks, rx,
                   fwAssert, blockTx, assertWork, issued, signals, odd>>

\* skw_bsp_notifier(SKW_BSP_NF_ASSERT) with skw_abort_cmd
NotifyAssert ==
    /\ fw = "crashed" /\ fw' = "down" /\ fwAssert' = 1
    /\ IF owner # None /\ cmd.acked = 0
       THEN Callback /\ cmd' = [cmd EXCEPT !.acked = 1]
       ELSE UNCHANGED <<timer, owner, cmd>>
    /\ UNCHANGED <<thread, net, firing, worker, acks, rx, blockTx, assertWork, bounds>>

\* SKW_BSP_NF_READY: the firmware has booted, its old answers are gone
NotifyReady ==
    /\ fw = "down" /\ rx = None /\ worker = 0
    /\ fw' = "ready" /\ acks' = {}
    /\ UNCHANGED <<owner, cmd, thread, net, clock, worker, rx,
                   fwAssert, blockTx, assertWork, bounds>>

\* skw_recovery_prepare
RecoveryPrepare ==
    /\ fw = "ready" /\ fw' = "prepared"
    /\ cmd' = [cmd EXCEPT !.seq = 0]
    /\ UNCHANGED <<owner, thread, net, clock, worker, acks, rx,
                   fwAssert, blockTx, assertWork, bounds>>

RecoveryResume ==
    /\ fw = "prepared" /\ fw' = "up"
    /\ fwAssert' = 0 /\ blockTx' = 0
    /\ UNCHANGED <<owner, cmd, thread, net, clock, worker, acks, rx, assertWork, bounds>>

-----------------------------------------------------------------------------
Idle ==
    /\ \A c \in Callers: pc[c] = "idle"
    /\ net = "idle" /\ owner = None
    /\ UNCHANGED vars

CallerStep(c) ==
    \/ Lock(c) \/ Refused(c) \/ Prepare(c) \/ Submit(c)
    \/ Answered(c) \/ TimedOut(c) \/ Interrupted(c)

NetStep == TryLock \/ TryRefused \/ TryPrepare \/ TrySubmit
TimerStep == Expire \/ CmdTimeout \/ AssertWork
BusStep == TakeCmd \/ SendCmd \/ (\E m \in acks: AcceptAck(m) \/ RejectAck(m)) \/ StoreAck
PlatformStep == FwCrash \/ NotifyAssert \/ NotifyReady \/ RecoveryPrepare \/ RecoveryResume

Next ==
    \/ \E c \in Callers: CallerStep(c)
    \/ NetStep \/ TimerStep \/ BusStep \/ PlatformStep
    \/ Idle

Spec == Init /\ [][Next]_vars

\* The work queues, the softirqs, the timers and a caller that holds the lock
\* run; nothing makes a caller call, the firmware crash or a signal come.
Fairness ==
    /\ \A c \in Callers:
         WF_vars(Refused(c) \/ Prepare(c) \/ Submit(c) \/ Answered(c) \/ TimedOut(c))
    /\ WF_vars(TryRefused \/ TryPrepare \/ TrySubmit)
    /\ WF_vars(Expire) /\ WF_vars(CmdTimeout) /\ WF_vars(AssertWork)
    /\ WF_vars(BusStep)

FairSpec == Spec /\ Fairness

-----------------------------------------------------------------------------
(* Properties *)

\* Every variable has its type.
TypeOK ==
    /\ owner \in Callers \cup {Net, None} /\ cmd \in Command
    /\ pc \in [Callers -> {"idle", "locked", "set", "wait"}]
    /\ mine \in [Callers -> 0..MaxCmd]
    /\ result \in [Callers -> {"none", "eio", "ok", "timeout", "signal"} \X (0..MaxCmd)]
    /\ net \in {"idle", "locked", "set"}
    /\ timer \in 0..1 /\ firing \in 0..1 /\ worker \in 0..1
    /\ acks \subseteq Message /\ rx \in Message \cup {None}
    /\ fw \in {"up", "crashed", "down", "ready", "prepared"}
    /\ fwAssert \in 0..1 /\ blockTx \in 0..1 /\ assertWork \in 0..1
    /\ issued \in 0..MaxCmd /\ crashes \in 0..MaxCrash /\ signals \in 0..MaxSignal
    /\ odd \subseteq {"async", "signal", "late"}

\* A command that returns the firmware's status returns the status of its own
\* answer, never one that was meant for a command before it: the answers of
\* commands that timed out are still under way when later commands are sent,
\* and skw_cmd_ack_handler takes no lock.  (A signal or an asynchronous
\* command leaves the channel with an answer nobody waits for.)
OwnAnswer == odd \cap {"async", "signal"} = {} =>
    \A c \in Callers:
        pc[c] \in {"idle", "locked"} /\ result[c][1] = "ok" => result[c][2] = mine[c]

\* From the lock to the unlock of a call the mutex is the caller's
\* (skw_set_cmd and the wait in skw_msg_xmit_timeout, skw_msg_try_send): no
\* abort, callback or timer unlocks it meanwhile, before the
\* first asynchronous command.
LockHeld == "async" \notin odd =>
    /\ \A c \in Callers: pc[c] # "idle" => owner = c
    /\ net # "idle" => owner = Net

\* The assertion of skw_set_cmd: whoever is about to write the command holds
\* cmd.lock.
SetCmdUnderLock ==
    /\ \A c \in Callers: pc[c] = "locked" => owner = c
    /\ net = "locked" => owner = Net

\* An answer about to be copied goes to the buffer of a caller that still
\* sleeps on that command, as long as no caller has given up before it; the
\* buffer is on its stack.
ArgAlive ==
    odd = {} /\ rx # None /\ cmd.arg # None => pc[cmd.arg] = "wait" /\ mine[cmd.arg] = cmd.no

\* A caller that sleeps on a command returns, also when the command was
\* aborted, dropped by the TX worker or lost with the firmware.
\* The lock that skw_msg_try_send leaves taken is released in the end.
CommandsEnd ==
    /\ \A c \in Callers: pc[c] = "wait" ~> pc[c] = "idle"
    /\ []<>(owner # Net)
=============================================================================
