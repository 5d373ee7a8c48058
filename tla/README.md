# Formal models of the rk3562deb tablet system

`rk3562deb` builds and ships Debian 13 for the Doogee U10, a tablet with a Rockchip RK3562:
build scripts that run on a host, services and daemons that run on the tablet, and the kernel
drivers the board needs. This directory holds TLA+ modules that model its stateful parts, TLC
configurations that check them on small instances, and theorems that TLAPS proves for every
value of the constants.

Paths below are relative to the repository; `skwifi/` stands for
`overlay/drivers/net/wireless/ea6621q/skwifi/`. `PROJECT.json` maps every definition to the
lines it models and lists the hazards at their lines.

## 1. The system

### 1.1 Components

| Part | Where | State it keeps | Operations | Modelled by |
|---|---|---|---|---|
| Offline update service | `build_rootfs.sh` 4874-5172 | inboxes, archives, stamp file, root and boot file systems | one run of `rk-apply-update.sh` per boot | `UpdateApply` |
| skwifi command channel | `skwifi/skw_msg.c`, `.h`, parts of `skw_tx.c`, `skw_core.c`, `skw_recovery.c` | `skw->cmd`, `cmd.lock`, flags of the firmware state | issue, send, acknowledge, time out, abort, restart | `CmdChannel` |
| skwifi receive reordering | `skwifi/skw_rx.c` | window, timer and todo entry of each peer and TID | store, release, time out, BlockAck request, delete and add a session | `RxReorder` |
| skwifi transmit path | `skwifi/skw_tx.c`, `skw_core.c` | frame queues, caches, firmware credit, netdev queues | queue a frame, merge ACKs, batch, send, credit, flow control | `TxFlow` (in part) |
| skwifi timers | `skwifi/skw_timer.c` | one list for all software timers, one kernel timer | add, delete, expire, call back | `TimerSpec`, `TimerList` |
| skwifi station MLME | `skw_mlme.c`, `skw_cfg80211.c`, `skw_msg.c`, `skw_iface.c` | state of the link, the peer, the retry work | authenticate, associate, roam, retry, give up, leave | `StaMlme` |
| skwifi scan | `skw_cfg80211.c`, `skw_msg.c`, `skw_iface.c` | `scan_req`, its timer, works and events on the way | scan, complete, time out, abort, interface down | `Scan` |
| skwifi work and events | `skwifi/skw_work.c` | work list, event queues | queue, run, flush | the works of `Scan` and `CmdChannel`, the event queues of `Scan` |
| skwifi cfg80211 operations | `skw_cfg80211.c` | per operation | station, scan, access point, keys | those of `StaMlme` and `Scan` |
| skwifi recovery | `skwifi/skw_recovery.c` | copies of interfaces, peers and keys | prepare, rebuild, give up | restart of the channel only, in `CmdChannel` |
| skwifi access point, TDLS, DFS, interfaces and peers | `skw_mlme.c`, `skw_cfg80211.c`, `skw_tdls.c`, `skw_dfs.c`, `skw_iface.c` | tables of interfaces and clients, channel timers | join, leave, radar, create, free | no |
| skwifi regulatory, calibration, vendor, wireless extension, EDMA, logging | `skw_regd.c`, `skw_calib.c`, `skw_vendor.c`, `skw_iw.c`, `skw_edma.c`, `skw_log.c` | tables | translation of requests | no: data, stateless code, a bus this board has not |
| seekwave boot and services | `seekwaveplatform/sdio/skw_sdio_main.c`, `skw_sdio_rx.c` | state of the firmware, services started, the exception watch | start, stop, assert, dump, reset, recover | `Modem` |
| seekwave SDIO ports | `seekwaveplatform/sdio/skw_sdio_rx.c` | a ring buffer per port, the register of stopped channels | open, close, read, receive, stop and resume a channel | `PortStream`, `SdioPort` |
| Bluetooth driver | `swtbt4l/` | HCI device, ports | open, send, receive, close, recover | its notifier, in `Modem` |
| USB display (msdisp) | `overlay/drivers/gpu/drm/msdisp/` | a thread, a fifo of events and a frame buffer per display | enable, disable, update | no |
| PMIC, battery, charger, Type-C, cameras | `overlay/drivers/mfd`, `power/supply`, `usb/typec`, `media/i2c` | registers, gauge, port state | probe, interrupt, suspend | no |
| Power key, session failsafe, rotation daemons | `build_rootfs.sh` 2600-2940, 4797-4868, 1361-1788, 3189-3635 | times of presses; the armed file; orientation | poll loops, one-shot timer | no |
| Other boot and resume scripts | `build_rootfs.sh` | none that lasts | sysfs and mixer writes | no: I/O without lasting state |
| Build pipeline | `build.sh`, `build_rootfs.sh`, `tools/make_update_tar.sh` | mounts, images, packages | build, clean up, package | `make_update_tar.sh` as an assumption of `UpdateApply` |
| Device trees, configuration, blobs, patches, test tools | `overlay/arch`, `prebuilt`, `debs`, `mali`, `wifi`, `tools` | none | none | no |

### 1.2 How they interact

- The build writes the services into the root file system; `build.sh` and
  `tools/make_update_tar.sh` make the packages the update service applies. Their contract is the
  layout of the package (`rootfs/`, `boot/`).
- A frame goes from the network stack through `skw_ndo_xmit` (softirq) to the TX worker, from
  there to the SDIO port and to the firmware, which returns credit through the RX thread.
- A command goes from any thread through `skw_msg_xmit_timeout`, or from the transmit softirq
  through `skw_msg_try_send`, into the single slot `skw->cmd`; the same TX worker sends it and
  the RX thread takes the answer.
- The RX thread puts data frames into the reorder buffers; a kernel timer per buffer and the
  events of the firmware ask it to release frames, through one "todo" list.
- The supplicant asks for a link or a scan through cfg80211; the driver turns the request into
  commands, and events of the firmware, a periodic work or a software timer end it.
- The driver's software timers share one list and one kernel timer: a command sent from the
  softirq, a scan and a signal-quality notice each have one, so that one may hold up the others.
- The SDIO platform starts the firmware for two services, WIFI and BT. When the firmware fails, its
  RX thread tells both drivers, resets the chip and tells the WIFI driver to start over; the
  recovery work then restarts the command channel and rebuilds interfaces and peers.

### 1.3 What is hard, and what makes a part correct

- **Update service.** Power may be cut between any two commands, and each file written since the
  last `sync` then survives or not; every command may fail under `set -e`. Correct: an update
  begun is finished or begun again, its record never precedes its effect on the disk, and no
  package blocks the inbox.
- **Command channel.** Answers come after timeouts, signals or a restart of the firmware; the
  answer handler takes no lock; an asynchronous command is unlocked by whoever comes first, its
  answer or its timer. Correct: an answer reaches the call it belongs to, the lock protects the
  slot, every caller returns.
- **Receive reordering.** 12-bit numbers wrap, frames are lost, late and repeated, the timer runs
  beside the RX thread, a session is deleted by a third thread. Correct: no frame is delivered
  twice, out of order, or never.
- **Transmit path.** A queue filled by one context and drained by another with a wakeup, shared
  credit, flow control with two marks, ACKs dropped on purpose. Correct: no frame is left behind
  by a lost wakeup, credit is conserved, a stopped netdev queue is started again.
- **Station.** The link has a state in the driver, in cfg80211 and in the firmware, and requests,
  events, retries and the end of the time limit change it from four threads. Correct: each request
  is answered, each attempt has its time limit running, and the three agree when nothing is under
  way.
- **Scan and timers.** A scan is ended by its event, its timer, an abort or its interface, and each
  may come when the next scan has begun; `skw_scan_done` does so in several steps under `skw->lock`,
  `skw_scan` and `skw_abort_scan` use the same `scan_req` without it. Correct: a scan is reported once,
  while cfg80211 still waits for it, and no timer of one scan ends another.
- **Platform.** Service operations under one mutex, the RX thread that runs the drivers' callbacks
  itself, a delayed exception work and a command that asserts the firmware without a lock; the
  firmware crashes, hangs or fails to come back at any time. Correct: every crash is watched until
  the firmware is back, and who was told that its service runs is served.
- **Ports.** A ring buffer between the RX thread and a reader, and one register with a bit for each
  stopped channel that the ports change under different mutexes. Correct: the reader sees a stream of
  whole packets and does not sleep beside data; a stopped channel goes on.

## 2. Modules

| Module | What it is | Kind |
|---|---|---|
| `UpdateApply` | state machine of the update service | component |
| `MCUpdateApply` | packages for TLC | model |
| `UpdateApplyProofs` | type correctness, recorded reboots, retried updates, applied means installed, no leaked files | proofs |
| `CmdChannel`, `MCCmdChannel` | the command channel | component, model |
| `RxReorder`, `MCRxReorder` | the reorder buffer of one peer and TID | component, model |
| `RxReorderProofs` | types, counted slots, no stored frame forgotten, frames handed up in order; what each release loop keeps of a window | proofs |
| `TxFlow`, `MCTxFlow` | the transmit path; its frames for TLC | component, model |
| `TxFlowProofs` | all safety invariants: types, credits, wakeups, flow control, merged ACKs, order; lemmas on recursion over numbers and finite sets | proofs |
| `TimerSpec` | what a software timer promises | abstract specification |
| `TimerList`, `MCTimerList` | the list of `skw_timer.c`, which implements it | component, model |
| `CmdTimerProofs` | of `CmdChannel`: the lock stays held, answers are own, buffers are alive, numbers keep their bounds; of `TimerList`: types, the armed kernel timer, lateness, the refinement | proofs |
| `StaMlme`, `MCStaMlme` | the link of a station | component, model |
| `StaMlmeProofs` | types, attempts watched, one peer, three sides that agree | proofs |
| `Scan`, `MCScan` | scans on two interfaces, over `TimerSpec` | component, model |
| `ScanProofs` | types, scans asked for, own timers, no scan of an interface that is down | proofs |
| `Modem`, `MCModem` | services, crashes and recovery of the firmware | component, model |
| `ModemProofs` | types, the watch over every crash, services that are served | proofs |
| `PortStream` | what a port promises its reader | abstract specification |
| `SdioPort`, `MCSdioPort` | the ports read through a ring buffer, which implement it | component, model |
| `SdioPortProofs` | types, packet numbers in step, the refinement | proofs |

`TimerSpec` is used twice: `TimerList` implements it, and `Scan` runs its timers on it
(`T == INSTANCE TimerSpec`), so what is checked of a scan holds over the real list. `CmdChannel`,
`StaMlme` and `Modem` meet in assumptions, stated in section 3: a command that times out asserts
the firmware, and a firmware that restarts is what `Modem` brings back.

In the driver modules much is true only until something happens that no lock excludes. Such
happenings are recorded in a history variable `odd` (a set of names, or a count of faults), and a
property holds until one of those it names has happened. So a run contains both the behaviours
the property is about and those that break it, and the exceptions are listed where they are used
(section 3).

### 2.1 `UpdateApply`

`pc` walks through the steps of `rk-apply-update.sh`: `FindPackage` (`find_update_package` with the
compatibility file), `CheckStamp`, `Extract`, `CheckLayout`, `ApplyRootfs`, `MountBoot`,
`InstallBoot` (one `install` per file), `SyncBoot`, `WriteStamp`, `ArchiveApplied`, `SyncAll`,
`RequestReboot`. `GiveUp` is `archive_package` and `exit 1`; `Exit` is the EXIT trap with its
temporary directory and its unmount. `CommandFails` ends any step half done.

The disk is modelled by two copies: `loc`, `stamp`, `root` and `boot` are what the running system
sees, `disk` is what a power cut would leave. A `sync` copies one to the other, so does
`WriteBack` at any time; `PowerLoss` picks, for every file apart, the old value, the new one or,
for contents, `Torn`. A package is a file with a content; contents are told apart by checksum,
and three sets say which unpack, which have a `rootfs/` and which a `boot/`. `Drop` is the user,
who copies complete files, to a running tablet or to its card in another machine.

Abstracted: the file tree inside a package (a payload is one value, plus one per boot file), the
log, the progress on the console.

### 2.2 `CmdChannel`

`owner` is `cmd.lock`, `cmd` the slot `skw->cmd`. A thread goes `idle`, `locked`, `set`, `wait`
through `Lock`, `Prepare` (`skw_set_cmd`), `Submit` and one of `Answered`, `TimedOut` or
`Interrupted`; the softirq `Net` does the same without sleeping (`TryLock` to `TrySubmit`) and
leaves the lock taken. `TakeCmd` and `SendCmd` are the command part of `skw_tx_worker`;
`AcceptAck` and `StoreAck` are the two halves of `skw_cmd_ack_handler`, apart because nothing
locks them together; `Expire` and `CmdTimeout` are the driver timer, taken off its list before
it is called. `FwCrash` to `RecoveryResume` are the firmware, the notifier and the recovery work.
The number `no` of a command is a history variable; the code has only the 16-bit `seq`, which
`RecoveryPrepare` sets back to 0.

### 2.3 `RxReorder`

A buffer (`rx.tid`) has the window start, the count `num` and a slot per number modulo `WinSize`.
`Arrive` and `ArriveAgain` are `skw_ampdu_reorder` (`Reorder`, `Place`, `Settle`) with the loops
`skw_reorder_release` and `skw_reorder_force_release`. Both are a `Loop` over turns, and one turn is
an operator of its own: `FreeTurn`, and `ReleaseTurn` with `InOrder` for the frame the window starts
with and `GapBefore` for one behind a gap, which calls the other loop. `ReportDropped` is a frame the
MAC dropped, which takes its slot without being delivered. `Tick`, `LongTick`, `Expire` and
`ReorderTimeout` are the timer: expiry and callback are separate, because `skw_reorder_timeout`
runs beside the RX thread and only asks it, through `rx.todo`, to release (`WorkTodo`).
`DelTid` and `FreeTid` are `skw_del_tid_rx` and the RCU callback. Frames have absolute numbers, the
code sees them modulo `SnMod`, with the arithmetic of `ieee80211_sn_less`. Three history variables
note what a property speaks of: `gap` (a frame left in the place of an earlier one), `skew` (the
window moved on for a frame it does not start with) and `slip` of a buffer (slots emptied that
`stored_num` still counts).

### 2.4 `TxFlow`

`XmitQueue`, `XmitWake` and `XmitStop` are the three steps of `skw_ndo_xmit` between which the
worker can run. The worker's places are `top` (command, thermal, credit), `gather` (queues into
caches, ACK merge), `check` (restart of netdev queues), `send` (batch), `bus` (transfer and
charge), `scan` (its last look) and `leave`; `pending` is the bit of the work item, which
`queue_work` sets and the start of the worker clears. `MergePureAck` is the double loop of
`skw_merge_pure_ack`: one `AckTurn` per turn of the outer loop, which says in closed form where the
inner loop ends when its bound is read again after every ACK it took out (it was compared with the two
loops written out, for all queues of up to 6 ACKs and 3 streams). What the
quotas decide (how many frames of each interface go into a batch) is a free choice `Share` of at
least one frame within credit and packet limit. `thawed` is a history variable: the thermal stop
was lifted and nothing has woken the worker yet (`skw_msg.c:916` starts the netdev queues and
does not wake TX).

### 2.5 `TimerSpec` and `TimerList`

`TimerSpec` is the contract of the software timers: ticks left for each id, and the set of those
that are picked. `TimerList` is `skw_timer.c`: `list`, the kernel timer `armed`, and `picked`, the
list that `skw_timer_work` splits off before it drops the lock. `Add` puts the timer in front of all
when every entry is due before it, else behind the first entry that is not due before it, so the
list is not sorted, and `PickDue` stops at the first entry that can wait. The `Del` of a timer already
picked finds nothing; `Deinit` empties the list and does not wait for a timer function under way.
The refinement mapping takes the list to what each id has left. Names of this module such as
`TimersNext` say whose they are, since `CmdTimerProofs` extends `CmdChannel` beside it.

### 2.6 `StaMlme`

`sm`, `sae`, `cbss`, `retry`, `buf`, `timer` and `work` are `core.sm`, `core.cbss`, `core.pending`,
`core.timer` and `sta.work`; `link` is `core.bss` with the peers bound to contexts and what the
firmware is joined to; `cur` and `sup` are cfg80211's and the supplicant's side. A call of cfg80211
that waits for its command (`call`) and `skw_event_disconnect`, which takes no lock (`ev`), take two
steps each; all else happens in one step under the station lock. The firmware may refuse any command
(`Command`). A tick is 500 ms, the step of the retry timer.

### 2.7 `Scan`

`req` is `skw->scan_req`, `asked` the request cfg80211 waits for, and frees when the scan is reported
or refused; `call` is the call of cfg80211 under way (they follow one another, under the RTNL and the
wiphy lock). `skw_scan`, which takes no lock, is the steps `BeginScan` (the CQM flag is used up),
`NoMemory` or `StartScan` (`scan_req` is written), `ArmScan`, the command, and `StartSucceeds`, or
`StartRefused` (`scan_req` is cleared) and `StartFails` (the timer is deleted and the error returned).

`busy` is the `skw_scan_done` that holds `skw->lock`: who called it, for which interface, the request it
has read, and how far it has come. `Look` finds a scan, `Compare` asks for its interface, `Take` keeps
the request, clears `scan_req` and deletes the timer, `Tell` sends the STOP command of an aborted scan
and tells cfg80211. Each reads `scan_req` anew, as the code does; for the comparison the build may as
well keep what the check before it has read (a race on a plain variable), so `Compare` has both
outcomes. `"oops"` is a NULL dereference: the thread is gone and the lock with it. The four callers are
`Work`, `EventScanComplete`, `DownLooks` and `AbortLooks`. There is one work, one call of cfg80211, and
one event of any interface at a time (`event_wq` has one active work); whatever else does not wait for
`skw->lock` may come between two steps.

`works` and `events` are what waits between the timer or the firmware and `skw_scan_done`, `events` for
each interface, which has a queue and a work of its own on `event_wq`. Addresses of requests are used
again, as the allocator does. `cqm` is the set of interfaces whose flag of a weak link is set; the timer
that clears it has one id for all, and `cqmFor` says for which interface the entry in the list, and the
callback that runs, were set. An event of a second interface meets the id of the first (`SKW_BUG_ON`,
`skw_timer.c:140`), is refused and leaves its flag set until its next background scan; a scan of one
interface deletes the timer of another. CQM events do not wait in `events`: the firmware may send one at
any time, so it makes no difference what is before it in the queue.

### 2.8 `Modem`

`op` is the one service operation under `boot_mutex`: its caller (user, recovery work, a notifier in
the RX thread or the exception work) and its place in `skw_boot_loader` and the service functions.
`rx` is the RX thread in `skw_sdio_handle_packet`, which runs the notifiers itself (`RxTellWifi`,
`RxTellBt`); `work` is `skw_sdio_exception_work` with its delay `armed`; `asserter` is
`send_modem_assert_command`, which no lock protects. `map` is read and written in two steps, as the
code does. The firmware (`fw`, `air`) boots, serves, crashes, dumps or hangs; a command is a bit it
finds in its interrupt register, so that of a start and a stop of one service it takes either first.

### 2.9 `PortStream` and `SdioPort`

`PortStream` is a bounded stream of packets, each whole or absent. `SdioPort` is the ring buffer
with its two copies at the wrap and its reset to 0 when empty, `rx_done`, `rx_mutex` across the two
accesses of the channel register (`ftl`), and the notices of a crash. A byte is known by the number
of its packet and its place in it, which is what the refinement mapping reads out of the ring. The
RX thread's register access and the reader's are two steps each, and any access may fail.

## 3. Checks

One run asks one component all its questions where the state space allows it. Every property has a
mutant, a plausible bug in one mapped definition, under which the run reports exactly that property.

| Run | Asks | Bounds |
|---|---|---|
| `update` | is an interrupted update retried, is a reboot always recorded, does *applied* mean installed, does only a power cut leave files in `/var/tmp`, is every package taken | 3 packages, one of which does not unpack, 2 boot files, 2 power cuts, 1 failing command |
| `cmd` | does a call take only its own answer, is the lock held, is the buffer alive, do all commands end | 2 callers (one of them the suspend path) and the softirq, 3 commands, 1 crash, 1 signal, answers lost or late |
| `cmd_lockdep` | the assertion of `skw_set_cmd`, **violated** | the same, no signal |
| `rx` | are the slots counted and timed, does the stack get each frame once and in order | 5 frames across the wrap of a 4-bit number, one of them an A-MSDU and one an A-MSDU that is taken for a SNAP header, window 4, one of: lost, repeated, jump, BlockAck request, deleted session |
| `rx_live` | is every stored frame delivered | 3 frames, any 2 of these but a jump |
| `rx_gap` | "release until a gap", **violated** | 8 frames, any 2 of these |
| `tx` | wakeups, credit, order, ACKs, flow control, does all traffic leave | 4 ACKs of 2 streams and 2 data frames for 2 peers, credit 2, marks 3 and 2, any 2 of: a command, a thermal stop, a leaving link or peer, a refused transfer |
| `timer_list` | is a timer late only behind a later one, does the list implement `TimerSpec` with its liveness | 3 ids with limits 1, 3 and 0, 5 additions |
| `sta_link` | is an attempt watched, do driver, firmware and cfg80211 agree, is each request answered | 2 access points (one SAE), 1 context, 3 requests, 2 retries, 1 refused command, 1 disconnect, 2 frames on the air |
| `scan` | is each scan reported once, by its own timer at the latest, and not after its interface | 2 requests on 2 interfaces, 3 scans and CQM events of which at most 2 scans, 2 waiting events of each interface |
| `modem` | is a crash watched, is a service that is said to run served, does the platform come back | 3 events, of them 2 crashes, hangs, asserts or failed resets |
| `sdio_port` | is the reader's view a stream, does the AT port stay in step, do readers and stopped channels go on | ring of 5, packets of 2 and 4 bytes, reads of 2, 3 events |

Why the bounds are enough. In `UpdateApply` an update takes two versions to be interrupted between and a
third file to be a duplicate or to be preferred; two cuts let the second fall into the recovery of the
first, two boot files let one be new and one old. In `CmdChannel` two callers and a command of each
before and after a crash give the answer of one call every chance to reach another; `seq` is never larger
than the bound, so its wrap at 16 bits is outside the model. In `RxReorder` the window of 4 has two
halves as the real one of 128, the number space is four windows, as small as the comparison of numbers
allows, and starts two before its wrap; with a sound and a tainted A-MSDU every branch of the loops is
taken. The tainted one comes second, so that `skew` occurs; without that condition TLC finds
`OnceInOrder` violated. `rx` allows one disturbance, because two with these A-MSDUs take millions of
states more; with A-MSDUs 0 and 4 (the second tainted) and with 2 alone TLC finds no violation for two
either, and the proofs cover any number. In `TxFlow` the packet limit 1 and the marks 3 and 2 keep the
order `PktLimit < Low < High` of the code and let each of them bite; four ACKs are the fewest for which
merging goes wrong; one interface is enough for what TLC checks, since the proofs cover any number. In
`TimerList` three ids give a timer on either side of another, and five additions bring one back after it
ran; the proofs cover all others. In `StaMlme` two access points make every move from one to another, 3
requests an attempt, a second one and an association; `ConnectTicks` 1 keeps the order of the real limits
(a step before a connect timeout). In `Scan` the second scan is the one the leftovers of the first may
reach, on its interface or the other; with it goes one CQM event, or two with one scan: a timer that is
set while its callback runs, one that meets the entry of another interface, and one that a scan of
another interface deletes all need no more. TLC reaches each exception named below, and finds no
violation for 3 scans and 4 of both (over 3 million states) either. In `Modem` three events are a start,
a crash and a second crash, hang, stop or failed reset in any place of the recovery from the first. In
`SdioPort` a packet of 2 and one of 4 bytes in a ring of 5 fill it, cross its end and cross both marks.

Fairness. Weak fairness only, except where named. `UpdateApply`: systemd starts the unit at each boot,
the script runs on, the tablet is turned off and on again; nobody must drop a package. `CmdChannel`: work
queues, softirqs, timers and a caller that holds the lock run; the lock itself is not assumed fair.
`RxReorder`: time passes, timers expire, the RX thread serves its todo list, grace periods end; no frame
has to arrive. `TxFlow`: the work queue runs what is queued, a softirq in `skw_ndo_xmit` goes on, the
firmware returns the credit of each frame it got. `TimerList`: the clock and the softirq go on;
`TimerSpec` asks for strong fairness of each timer's expiry, which the list is shown to give, and `Scan`
uses it for the timer of a scan. `Scan`: time passes, callbacks that are due run, a call of cfg80211 and
a `skw_scan_done` that holds the lock go on; strong fairness of the work, because a kernel mutex hands
itself over to its first waiter; no event has to come or to be handled. `StaMlme`: time passes or the
timer runs, the work and a call whose command has ended go on; no answer has to come from the air, and a
frame does not stay there. `Modem`: the threads go on, and a firmware that has neither crashed nor hung.
`SdioPort`: the RX thread goes on, and a reader that has a port open goes on reading.

Most liveness properties say that a component comes to rest again and again (`[]<>`): the inbox is
empty, no frame or command waits, no request is open, the platform runs. What is asked for while
bounds allow it is thereby served, and TLC checks one such formula much faster than one `~>` for
each request.

Deadlock is not checked where the system may stop (a tablet without packages that does not boot; a
driver with nothing left to send; a model whose bounds are used up); `CmdChannel` and `RxReorder`
have an `Idle` step for the states in which they rest, and `TimerList` always has its clock, so that
any other stop is reported.

### What the two violations show

- `cmd_lockdep`: `skw_cmd_timeout_fn` abandons an asynchronous command and unlocks `cmd.lock`; a
  late answer or an abort of the same command unlocks it once more while another caller holds it.
  `skw_set_cmd` asserts the contrary (`skw_msg.c:1593`). For the same reason `LockHeld` is checked
  until the first asynchronous command only.
- `rx_gap`: with an empty buffer `skw_reorder_force_release` leaves the window start one too low
  (`skw_rx.c:799`), so the frame that moved the window is released at once, across the gap in
  front of it, against the comment at `skw_rx.c:835`. For the same reason `OnceInOrder` holds
  without jumps only.

### What a property excepts

Some properties hold only until something happens that the code does not prevent. The model lets it
happen, remembers it, and the property names it; drop the name and TLC shows the behaviour.

| Property | Holds until | Why |
|---|---|---|
| `LockHeld`, `OwnAnswer`, `ArgAlive` | an asynchronous command; then also a signal; then also an answer after the timeout | whoever comes first unlocks; a signal ends the wait without asserting the firmware; `skw_cmd_ack_handler` copies without a lock to the stack of a caller that has gone |
| `OnceInOrder` | a jump of the sender past the window, a deleted session, more than half a window lost, a tainted A-MSDU completed behind the window start (`skew`) | the window moves on by force; frames after `skw_del_tid_rx` pass the stored ones (`skw_rx.c:1350`); an A-MSDU whose first subframe looks like a SNAP header is dropped with `win_start++`, whether the window starts with it or not (`skw_rx.c:1057`), so what is stored for the old window start comes out one window later (TLC shows it with A-MSDUs 0 and 3, the second tainted) |
| `FramesAreKept` | (exact: `stored_num` exceeds the slots in use by `slip`) | an A-MSDU whose first subframe looks like a SNAP header leaves its slot without `stored_num--` when the release loop finds it (`skw_rx.c:896`) |
| `InterruptedUpdateIsRetried`, `AppliedMeansInstalled` | a failing command | when the boot partition does not mount, the script skips the boot payload and records the update all the same (`build_rootfs.sh:5078`) |
| `MergedAckIsCovered` | two ACKs of another stream at the same interface: then the ACK that is kept may be the older one | the inner loop of `skw_merge_pure_ack` compares its count with a queue length that shrinks (`skw_tx.c:426`); when it ends early the queue is left rotated, and the next turn takes an older ACK for the newest. Four ACKs of the streams a b b a are enough |
| `OnlyWipeStrandsQueue` | (says what the code does, not what one would wish) | a disconnect that throws away the frames of a stopped queue leaves it stopped with nobody to start it |
| `TrafficLeaves` | all credit eaten by refused transfers; a lifted thermal stop that nothing has followed | `skw_msg.c:916` starts the netdev queues and does not wake TX |
| `BssIsThePeer` | a disconnect event across a call (`overlap`) | `skw_event_disconnect` takes no lock |
| `LinkAgrees` | moreover, a request for another BSS than the one left (`otherBss`); a second or late answer (`lateAuth`, `lateAssoc`); for its first part also a move to another BSS (`reassoc`) | the handlers of frames look at the state and not at which attempt they answer |
| `RequestIsAnswered` | `overlap`, `lateAuth` and `otherBss` as above; a request for the BSS the driver is on (`noop`); an authorization when the link is lost (`lateKey`); an SAE confirm flag that is set | such a request is swallowed, and the flag keeps the work from arming the timer |
| `ScanReqIsAsked` | `skw_scan` failing while `skw_scan_done` is ending the same scan (`crossed`), until all is quiet again | `skw_scan` clears `scan_req` without `skw->lock` (`skw_cfg80211.c:2051`): between the check and the uses (2067-2076) `skw_scan_done` reads NULL, or takes NULL and reports it; before the report (2086) cfg80211 frees the request that is reported. TLC reaches each |
| `TimersAreOwn`: the limit and the timer of a scan | `crossed`; a timeout of an earlier scan left when the next begins, or a scan ended before its timer was added (`late`), until all is quiet again | the work names the interface and not the scan (`skw_cfg80211.c:1911`); `scan_req` is visible before its timer is (2042-2045) |
| `TimersAreOwn`: the CQM timer | set again while the callback of the same interface runs (`again`); and it says only that an interface does not meet its *own* timer | the callback clears the flag of a timer set meanwhile; the flag belongs to an interface (`skw_msg.c:1007`), the id to all, so the event of another interface does meet it, with no race at all |
| `ScanIsReported` | the thread that was to end the scan died of a NULL `scan_req` | as for `ScanReqIsAsked` |
| `CrashIsWatched` | a failure or an assert by the host during the recovery from another, up to the end of a dump and a reset that fails; an assert command that sets `cp_state` after it has left 0 since the test; an assert notice that waited for `except_mutex` and is handled after the dump (all `again`) | an assert in state "dumpdone" starts no watch (`skw_sdio_rx.c:398`), and `send_modem_assert_command` tests and sets without a lock (`skw_sdio_rx.c:754`): the crossing of an assert with the end of a dump is excepted too |
| `OnIsServed` | an answer after who waited for it gave up, or from before a reset (`stale`); BT not told of a firmware given up (`untold`); a WIFI start that finds the stop before it not carried out yet (`crossed`); a stop that writes the map back after an exception has cleared it (`torn`) | `download_done` belongs to all services and is reset after the command went out (`skw_sdio_main.c:687`); the BT driver ignores `DEVICE_BLOCKED_EVENT`; nobody waits for a WIFI stop, and start and stop are two bits of one register (`skw_sdio_main.c:391`); the stop changes the map under `except_mutex` (`skw_sdio_main.c:389`), the exception not (`skw_sdio_rx.c:245`, `:411`) |
| `InStep` | the firmware starts over under an open AT port (`deaf`) | only the log port's number is reset (`skw_sdio_rx.c:502`) |
| `Flows` | two ports change the channel register at once (`race`), an access fails (`bus`), a port is opened while stopped (`stopped`), a crash between a reader's check and its wait (`missed`) | `rx_mutex` is per port; the open forgets `rx_flow_ctrl` and not the bit; the completion is cleared after the check |

Other differences between code and documents, met while modelling and not runs: a package applied
before and dropped again after another one is applied again, though `README.md:377` promises to
skip it (the stamp keeps the last checksum only), and the compatibility file
`/update/update.tar.gz` is taken before a newer package in an inbox (`build_rootfs.sh:4953`), though
`README.md:372` speaks of the newest one.

### What the models assume of each other

- `StaMlme`, `Scan`: a command of the firmware is executed, refused or times out; one that times out
  asserts the firmware (`CmdChannel`) and everything starts over (`Modem`). `START_SCAN` is answered or
  times out (2 s) before the scan's own limit (8 s).
- `StaMlme`: `sme_external` is TRUE; the supplicant waits for an answer before it asks for more.
- `StaMlme`, `Scan`: `event_wq` runs one work at a time (`WQ_UNBOUND` with one active work,
  `skw_core.c:1504`).
- `Scan`: `skw_add_timer_work` gets its memory (its -ENOMEM is ignored by the code), and looks for the
  id and adds the entry in one step (in the code the lock is given up in between, so that two interfaces
  may both miss the CQM id and both add it). A freed request is known by `asked`; what a read of its
  memory returns is not modelled.
- `Modem`: the chip is an SV6160 with chip_en wired, the driver is built with
  `CONFIG_SEEKWAVE_PLD_RELEASE`; the delay of the exception work (2 s and more) is longer than the RX
  thread waits for `except_mutex`; only the assert command meets bus errors; the notices between
  BSPREADY and the version are one.
- `SdioPort`: SV6160 (V10) with ADMA; one reader per port; a port is not opened in the middle of two
  register accesses of its own.

## 4. Proofs

TLAPS proves, for every value of the constants allowed by the named assumptions (`UpdateAssumption`,
`ChannelAssumption`, `ReorderAssumption`, `TxAssumption`, `ListAssumption`, `StaAssumption`,
`ScanAssumption`, `ModemAssumption`, `SdioPortAssumption`: bounds are numbers, names differ from "none",
time limits and sizes are not zero, all scans have the same time limit; `OrderKept` also assumes `Short`,
which the `rx` run meets):

| Theorem | Says |
|---|---|
| `UpdateApplyProofs!TypeCorrect` | `Spec => []TypeOK`, inductive once the bookkeeping of the EXIT trap is added (`TypeInv`): a directory counted in `tmp` exists, a mount counted in `weMounted` is mounted, and neither outlives the script |
| `UpdateApplyProofs!RebootsAreRecorded` | `RebootsOnlyWhenRecorded` with any faults and power cuts |
| `UpdateApplyProofs!InterruptedUpdatesAreRetried` | `InterruptedUpdateIsRetried`, if every package has both payloads or neither, as `make_update_tar.sh` builds them, until a command fails (`Ordinary`) |
| `UpdateApplyProofs!AppliedIsInstalled` | the action property `AppliedMeansInstalled`, same conditions |
| `UpdateApplyProofs!TmpLeaksAreCuts` | `OnlyPowerLossLeaksTmp` with any faults |
| `CmdTimerProofs!LockStaysHeld` | `LockHeld`: until the first asynchronous command, with any callers, commands and crashes |
| `CmdTimerProofs!AnswersAreOwn` | `OwnAnswer`: until moreover a signal comes |
| `CmdTimerProofs!ArgStaysAlive` | `ArgAlive`: until moreover an answer comes after the timeout |
| `RxReorderProofs!TypeCorrect` | `TypeOK`, with any window, number space, frames and disturbances: `stored_num` never leaves its range |
| `RxReorderProofs!FramesKept` | `FramesAreKept`, likewise: used slots are counted, and a stored frame has a timer or a request on its way |
| `RxReorderProofs!OrderKept` | `OnceInOrder`, in runs of fewer frames than half the number space (`Short`), wherever in it they start: in order and once, with any repeats, timers and BlockAck requests |
| `TxFlowProofs!CreditsAreAccounted` | `CreditsAccounted`, with any frames, interfaces, marks |
| `TxFlowProofs!NoFrameIsForgotten` | `NoFrameForgotten`, likewise |
| `TxFlowProofs!TypeCorrect` | `TypeOK`, likewise: no counter goes negative |
| `TxFlowProofs!OnlyWipesStrandQueues` | `OnlyWipeStrandsQueue`, for any marks in the order of the code's |
| `TxFlowProofs!MergedAcksAreCovered` | `MergedAckIsCovered`, for any number of ACKs and streams |
| `TxFlowProofs!FramesLeaveInOrder` | `InOrder`, for any interfaces, categories, shares |
| `CmdTimerProofs!TimersTypeCorrect` | the list holds each id once |
| `CmdTimerProofs!NeverStandsStill` | `ArmedForFirst`: a list with entries has its kernel timer set, for no later than the first entry asks |
| `CmdTimerProofs!LateBehindLater` | `LateOnlyBehindLater`, with any ids and time limits |
| `CmdTimerProofs!Implements` | `TimersSpec => Abstract!Spec`: every behaviour of the list is one of `TimerSpec` |
| `ModemProofs!TypeCorrect` | `Spec => []TypeOK` |
| `ModemProofs!EveryCrashIsWatched` | `CrashIsWatched`, with any number of calls, crashes, hangs and asserts |
| `ModemProofs!StartedIsServed` | `OnIsServed`, likewise |
| `CmdTimerProofs!TypesHold` | `TypeOK` with its bounds |
| `StaMlmeProofs!TypesHold` | `TypeOK`, with any access points, contexts and limits |
| `StaMlmeProofs!AttemptWatched` | `AttemptIsWatched`, likewise |
| `StaMlmeProofs!BssHolds`, `LinkHolds` | `BssIsThePeer` and `LinkAgrees`, until the races they name |
| `ScanProofs!TypeCorrect` | `TypeOK`, with any requests, interfaces and time limit |
| `ScanProofs!RequestIsAsked`, `OwnTimers` | `ScanReqIsAsked`, until `skw_scan` fails in the middle of `skw_scan_done`; `TimersAreOwn`, until that, a time-out left over, or a CQM timer set while its callback runs |
| `ScanProofs!DownEnded` | `DownEndsScan`, without any exception |
| `SdioPortProofs!StepKept` | `InStep`, with any ring, sizes and events |
| `SdioPortProofs!Implements` | `Spec => IsStream`: every behaviour of the ring buffers is one of `PortStream` |

The arguments:

- *Recorded reboots.* `RecordInv` follows the stamp and the archived package from `WriteStamp` to the
  `sync` before the reboot: in between the disk may lag, but the running system sees both, and
  `SyncAll` makes the disk equal to what it sees.
- *Retried updates.* `ScriptInv` says what the steps so far have checked and done: up to the stamp
  the records on the disk are those the system sees, each step keeps what the one before it
  installed, and after `SyncBoot` the package is whole on the disk too (`HoldsOnDisk`). `RetryInv`
  then says: either one version is whole, seen and on the disk, or some package is `Pending`, in an
  inbox and not the one in the stamp, both seen and on the disk. A power cut chooses between what
  is seen and what is on the disk, file by file, and either half of the invariant survives every
  choice. The `sync` between the boot files and the stamp is what makes it inductive; the mutant
  without it is the one TLC refutes. `InboxInv` (a package seen in an inbox is there on the disk)
  adds that a power cut never makes a package *applied*.
- *The command channel.* `LockInv`: without asynchronous commands no callback and no timer ever
  unlocks, so only the caller does. `AnswerInv` says why `cmd.seq`, which starts again at 0 with
  the firmware, is enough all the same: a command is in one place at a time (`OnePlace`), whatever
  is on its way belongs to the last command, and when no caller waits while something is still on
  its way, `SKW_FLAG_FW_ASSERT` is set. `skw_tx_allowed` then refuses every new command until the
  restart has thrown the old answer away. So the timeout has to assert the firmware (the mutant
  `HwAssertUnmarked` does not), and a signal, which ends the wait without asserting it, is outside
  the theorem. `ArgInv` adds, for answers in time, that a caller leaves nothing behind.
- *The reorder buffer.* A loop is taken apart once (`Looped`: what each turn keeps, the loop keeps) and
  the step of the RX thread is then composed of lemmas that each say what one function does to any
  buffer: `ForceReleaseIs` (it counts what it takes and may leave frames without a timer, if the timer
  was not set for one of them), `ReleaseIs`, `SettleIs`, `PlaceIs`, `ReorderIs`, `RunTodoIs`. The loop
  of `skw_reorder_release` is what `StoredIsTimed` rests on. While it releases, the slots it has passed
  are empty and the window starts at the slot it is at; so it can end with frames stored only where it
  has set the timer, found it pending or asked for a release, or where every slot has been looked at and
  so none is in use. The induction is over `Inv`, which adds to the two properties who owns what: a
  buffer in use has the reference of the timer, one that waits for its grace period an older one, so
  that emptying it (`FreeTid`) leaves the timer alone; frames whose age is known are stored.
- *The order.* The driver knows a frame by its number modulo `SnMod`, the property by its place in the
  run. `Is(x, n)` ties the two, and `IsLess` says when `ieee80211_sn_less` of two numbers is "less" of
  the frames: while they are less than half the number space apart. `InWindow` places the window: it
  starts at a frame `at`, each slot holds parts of the one frame that belongs there, each once and each
  arrived, and, unless a slot was purged, everything that has arrived from `at` on is stored. `Ordered`
  adds that what is on its way up lies before `at` in order, and that the timer, the softirq under way
  and the todo entry name a frame of the run. The three functions keep it (`ForceReleaseOrder`,
  `ReleaseOrder`, `ReorderOrder`), with `at` only growing, so between two steps of the RX thread there
  is a frame that all that went up is before and all that is stored is not (`Kept`). The weak spot is a
  forced move for a frame beyond the window when the buffer is empty: `skw_reorder_force_release` then
  sets `win_start` one short of where its loop would have taken it (`skw_rx.c:799`), and the frame that
  caused the move would not fit. `RoomIs` shows that it cannot come to that: everything from `at` on
  would have to be missing, more frames than the sender gives up in a steady run (`SenderInv` counts
  them). That is what `lost <= WinSize \div 2` in `Steady` is for.
- *Credits.* The sum is not inductive alone: a batch charged without being covered would take the
  counter below zero. `CreditInv` adds that a batch waiting for the bus is no longer than the
  credit, which `WorkerSend` establishes and only the worker could disturb.
- *Wakeups.* The worker's last look does not see the ACK queue, so "asleep implies nothing waits"
  needs a reason why no ACK can be left. `WakeInv` has three parts: where the worker has looked
  (`idle`, `leave`) something waits only if a wakeup is on its way (`Covered`) or a named excuse
  holds; an ACK that waits uncovered is still ahead of the worker in this pass (`AckAhead`: it
  stands before the best-effort category, or leaves the pass with no credit left); and the pass is
  only left early with the credit used up, unless credit has come back, which is itself a wakeup.
  The third part needs that a batch is never longer than the credit, so the theorem builds on
  `CreditInv`.
- *Recursion.* What a recursive definition computes is proved in two steps: `RecursionExists` and
  `FoldExists` show that a recursion over numbers, or over the subsets of a finite set, has a solution
  (so that `OnlyDef`, `MergeDef`, `QueueLenDef` and `BatchDef` can take a definition apart), and `Climb`
  and `Shrink` carry a fact from the empty case to the last. Both come from the least element of a set
  of numbers, since the library's induction theorems take an operator.
- *Types of the transmit path.* `pending_qlen` is only charged for frames it has counted: while the
  worker is at `send`, what is in the caches of its category is within the count (`TypeInv`), and a
  batch is no longer than the caches together (`BatchLen`).
- *Stopped queues.* `FlowInv`: something is `Behind` each stopped queue, and while the worker sends
  from its cache that cache is above the low mark. A batch is at most `PktLimit < Low` frames, so it
  cannot empty the cache unless it throws frames of a peer that left away, which `emptied` records.
- *Merged ACKs.* `TurnKeeps` is the invariant of a turn (`MergeInv`): ACKs of one stream stand in the
  queue in their order unless a pair of another stream is there, because a turn that meets no second ACK
  of its stream looks at the whole queue and so turns it around completely. `AckInv` adds that what
  stands for a merged ACK has left the queues, so that no later merge frees it too.
- *Order.* `QueueInv` says that each queue is a run of the frames of its lane; `OrderInv` that in each
  lane what was sent comes before what is in the batch, the cache and the queue. A batch mixes the
  heads of several caches, which do not share a lane (`BatchOrdered`), and merged ACKs, the only frames
  a cache holds of another lane, are no data frames (`TakenOrdered`).
- *Leaked files.* `TmpInv` counts: a temporary directory that the running script does not own was
  left by a power cut, since the EXIT trap removes the script's own.
- *The timers.* `TimersInv` is the types, with every id in the list once, and `ArmedForFirst`; the lemmas
  `Inserted` and `Removed` say what the insertion and the removal do to the set of entries, from which
  both follow. A timer late with nothing in front of it would be first, and the kernel timer is set for
  no later than the first. For the refinement, what `LeftOf` says of an id depends on the set of
  entries alone (`SameLeft`), so each step need only be followed on that set; `PickInv` adds that
  the picked timers are different ones and that none is left when the softirq ends.
- *The watch.* That an assert is watched is not inductive: it is set by the RX thread in one step and
  told in `cp_state` in the next, after a wait for `except_mutex`. `WatchInv` adds the place in between
  (the watch is set before the firmware counts as failed), and that the watch is taken off only in
  "dumpdone". The types are needed for the callers: the exception work that waits for a notifier is
  not the one that has just fired.
- *Served services.* `on`, the map, the commands, the packets on the way and the firmware are changed
  by five threads, and `Sound` is what keeps them together. `AirInv`: a firmware says its version, its
  services, its assert and the end of its dump in this order, and a new one finds nothing on the way.
  `DueInv`: it owes an answer only to the operation that waits for it, and only one. `LifeInv`: what is
  in the map, or about to get there, is served, and a service being stopped is in neither.
  `VersionInv`: until the version is heard the map is empty, and an operation waits. `MutexInv`:
  `except_mutex` keeps the handling of an exception apart from an operation that waits. `AssertInv`: a
  firmware that has failed is reset only when the map has been cleared. `MapInv`: what users were told
  is in the map, and the map is empty without power. All seven hold until one of the four named races
  (`Clean`), and a race once seen is remembered (`OddKept`).
- *Numbers of commands.* No number in a slot, a message, a caller or a result is newer than the last
  command issued (`Numbers`). That the commands issued keep their bound needs those that have begun
  and are not issued yet to be counted too (`Begun`).
- *The station.* An attempt is watched because every way into its states arms the timer or queues the
  work, and every way out of a watched state but a resend leaves them; a resend needs a retry left
  (`RetryLeft`) and the frame to send (`BufKept`). `Sound(link)`, one peer, that of the BSS and of the
  firmware, is kept by `Unjoin` and `Join` (lemmas `UnjoinSound`, `JoinSound`), whatever the firmware
  refuses; `AgreeInv` adds what a call under way, or a disconnect between its two halves, will make
  of it.
- *Scans.* `AskInv` follows `scan_req` through the steps of `skw_scan` and `skw_scan_done`: unless the
  former failed during the latter, what was found at the first look is still there when it is compared
  and taken, cfg80211 waits for it, and a new scan cannot begin before it is told. It needs nothing about
  timers, so no late time-out can break it. `WorkInv` says that, while no time-out of an earlier scan was
  left when this one began, a timer in the list is that of the request held and has no less time left
  than the scan, and who ends a scan early deletes its timer first. `CqmInv`: an interface the CQM timer
  is set for has its flag, and its callback is not running. `CallInv` says what the call of cfg80211 and
  the request have to do with each other, and gives `DownEndsScan` without any exception: while an
  interface goes down no `skw_scan` runs.
- *Numbers of packets.* `Numbered` counts the packets of the AT port on the way, notices between them,
  and says that they carry the numbers from the one expected to the one the firmware gives next.
- *The stream.* A byte in the ring is known by packet and place, so the contents of a port are the bytes
  from `rp` to `wp` (`Content`). The lemmas on places (`PlaceOnce`, `PlacesBehind`, `PlacesLeft`) say
  how many there are between two positions modulo the length; `AcceptedIs` and `TakenIs` say what a
  write and a read, each in up to two copies, do to the contents. Each step of the ring is then an
  accept, a take, a clear, a turn or a stutter of the stream.

What the proofs changed. That the newest ACK of a stream is always kept, which an earlier run had checked
with three ACKs, could not be proved, and is false with four; the run now has four and the property is
the exact one. `ScanReqIsAsked` once excepted late time-outs, in a model that ended a scan in one step:
with the steps of `skw_scan_done` apart the proof needs no exception for them, and another one instead,
the failure of `skw_scan` between two of these steps. `OnIsServed` was false beyond the bounds of its
run: the step of `OpSendStart` could not be proved, and with four and five events TLC shows `crossed` and
`torn`; in turn it now holds in every state of `cp_state`. With these names TLC finds it true for 4
events of which 2 are failures, and for 5 with 1. The types of `StaMlme` and `Scan` had to be stated more
closely (the states a link and a call can be in).

`RxReorder` said that the window starts at a 12-bit number, and no invariant could carry it: a
BlockAck request or a timer may leave a number that a later release, half the number space on, takes
for the new start uncut (`skw_rx.c:799`); `TypeOK` now asks for a number. The run had left tainted
A-MSDUs out; the invariant with `slip` holds with them, the run has one now, and TLC found `skew`.

Only model-checked:

- `OnceInOrder` of `RxReorder` in runs longer than half the number space. A softirq that is late by
  that much would ask for a number that means another frame by then, and the model's clock does not
  rule it out. Whether the order can be lost that way is open: with a window of 2, numbers 0 to 7 and
  10 frames TLC finds no case;
- all liveness, the fairness half of `Promise` included (fairness and `ENABLED` are outside the prover).

## 5. Not modelled, and why

- Code without lasting state: boot and resume scripts that write registers or mixers, the
  translation of cfg80211 requests into commands, logging, debug files.
- Data: regulatory tables, sensor register tables, device trees, configurations, blobs.
- Code this board does not run: the USB and PCIe transports of the WiFi chip, `skw_call_rcu`
  (`skw_work.c:226`, built with `CONFIG_SKW_GKI_DRV` only).
- Inside the modelled parts: the filters of `skw_ndo_xmit` that turn a frame into a command, the
  arithmetic of the quotas, the teardown of an interface while the worker runs
  (`skw_iface.c:744`), the replay check and the defragmentation of `skw_rx.c`, wake locks; the SME
  inside the firmware; sending on the SDIO ports, ports with a callback, chip wakeup and suspend; the
  download of the firmware image; HCI packets.
- Vendor drivers whose state is mostly that of their hardware (the fuel gauge and the charger, the
  PMIC, the Type-C controller, the cameras, the USB display): what they do depends on registers whose
  behaviour the repository does not tell.
- Scripts with state that are left for later: the power key daemon and the session failsafe.

Hazards in modelled parts that no property covers: a BlockAck request steps over `ssn` itself, so that
this frame is dropped when it comes (`skw_rx.c:1391`), the reuse of `todo.list` of a deleted session
(`skw_rx.c:1460`), a command aborted by a crash that times out after the recovery has cleared the
assert flag (`skw_msg.c:1767`), the queue index of a pure ACK past the four netdev queues
(`skw_core.c:736`), the purge of a cache under the TX worker (`skw_iface.c:744`), the recovery's loops
over `peer_map` and its lock held across `cancel_work_sync` (`skw_recovery.c:85`, `:424`).

`PROJECT.json` lists each component with its reason and the hazards the properties cover.

## 6. Plan

Done so far, in this order: the update service, the command channel, reordering, transmission; then
the timers, the station, scans, the platform and its ports. Next:

1. `Recovery` (`skw_recovery.c`) over `CmdChannel` and `Modem`: two crashes in a row, the loops over
   `peer_map`, the lock held across `cancel_work_sync`.
2. `PowerKey` and `SessionFailsafe` (`build_rootfs.sh`): one press suspends at most once, never while a
   resume guard runs; a rollback is done once or not at all.
3. Abstract specifications still worth stating: an update as one atomic step from a version to a
   version, which `UpdateApply` implements under the conditions of `InterruptedUpdatesAreRetried`; a
   call as a request with one answer or an error, which `CmdChannel` implements for synchronous
   callers; the receiver as a queue that delivers in order, which `RxReorder` implements without
   jumps.
