----------------------------- MODULE RxReorder ------------------------------
(***************************************************************************)
(* The receive reorder buffer of the skwifi driver (skw_rx.c) for one peer *)
(* and one traffic identifier.                                             *)
(*                                                                         *)
(* The RX thread puts every frame into a window of slots and releases      *)
(* frames in sequence order.  A gap is waited for until the reorder timer, *)
(* a softirq of its own, asks the RX thread through the "todo" list to     *)
(* release the frames up to the one that waited longest; a BlockAck        *)
(* request of the peer asks the same way.  A BlockAck session is deleted   *)
(* by another thread and its buffer is emptied after an RCU grace period.  *)
(*                                                                         *)
(* Frames have absolute numbers; the driver sees them modulo SnMod (4096   *)
(* in the code).  Subframes of an A-MSDU share one number.  Replay check,  *)
(* defragmentation and statistics are left out.                            *)
(***************************************************************************)
EXTENDS Integers, Sequences, FiniteSets

CONSTANTS
    SnMod,      \* sequence numbers: 4096
    FirstSn,    \* the number of frame 0
    WinSize,    \* slots: twice the size the peer negotiated
    MaxFrame,   \* bound: frames 0..MaxFrame are sent
    Amsdu,      \* the frames that are A-MSDUs of two subframes
    Tainted,    \* those of them whose first subframe looks like a SNAP header
    MaxTrouble  \* bound: lost and repeated frames, windows the sender skips,
                \* BlockAck requests and deleted sessions, in total

ASSUME ReorderAssumption ==
    /\ WinSize \in Nat \ {0} /\ SnMod \in Nat /\ SnMod % WinSize = 0
    /\ 4 * WinSize <= SnMod /\ FirstSn \in 0..SnMod - 1
    /\ MaxFrame \in Nat /\ Amsdu \subseteq 0..MaxFrame /\ Tainted \subseteq Amsdu
    /\ MaxTrouble \in Nat

None == [start |-> -1]    \* no reorder buffer

VARIABLES
    rx,       \* tid: the buffer or None; timer; todo; out: frames of this step;
              \* gap: 1 once a frame left its slot in the place of an earlier one;
              \* skew: 1 once the window moved on for a frame behind its start
    old,      \* a buffer that waits for its RCU grace period, or None
    firing,   \* 1: the timer has expired, skw_reorder_timeout is about to run
    aged,     \* stored frames older than the timeout in milliseconds (the timer)
    stale,    \* those older than it in jiffies (skw_is_msdu_timeout)
    given,    \* frames handed to the stack
    late,     \* 1: one of them after a frame that was sent after it
    twice,    \* 1: one of them for the second time
    base,     \* the oldest frame the sender still works on
    got,      \* what has arrived of the frames from base on
    lost, dups, jumps, bars, sessions

vars == <<rx, old, firing, aged, stale, given, late, twice, base, got, lost, dups, jumps, bars, sessions>>
stack == <<given, late, twice>>
sender == <<base, got, lost, dups, jumps, bars, sessions>>

Slots == 0..WinSize - 1
\* part 0: an MSDU of its own; made: a stand-in for a frame the MAC dropped
Frame == [n: 0..MaxFrame, part: 0..2, made: BOOLEAN]
\* skw_tid_rx; slip, history: slots emptied that stored_num still counts
Buffer == [start: Nat, num: Int, ref: Nat, slip: Nat, buf: [Slots -> Seq(Frame)]]
Timer == [pending: 0..1, sn: Nat, ref: Nat, due: 0..1]
Todo == [active: 0..1, seq: Nat]
\* skw_reorder_rx
Reorderer == [tid: Buffer \cup {None}, ref: Nat,
              timer: Timer, todo: Todo, out: Seq(Frame), gap: 0..1, skew: 0..1]

SnOf(n) == (n + FirstSn) % SnMod
Sn(f) == SnOf(f.n)

Next12(sn) == (sn + 1) % SnMod                      \* ieee80211_sn_inc

\* mutant: sequence numbers are compared as numbers
LessUnwrapped(a, b) == a < b

Less(a, b) == (a - b) % SnMod > SnMod \div 2        \* ieee80211_sn_less
Slot(sn) == sn % WinSize

NoTimer == [pending |-> 0, sn |-> 0, ref |-> 0, due |-> 0]
NewTid(ssn, ref) == [start |-> ssn, num |-> 0, ref |-> ref, slip |-> 0, buf |-> [i \in Slots |-> <<>>]]

Init ==
    /\ rx = [tid |-> NewTid(FirstSn, 0), ref |-> 0, timer |-> NoTimer,
             todo |-> [active |-> 0, seq |-> 0], out |-> <<>>, gap |-> 0, skew |-> 0]
    /\ old = None /\ firing = 0 /\ aged = {} /\ stale = {}
    /\ given = {} /\ late = 0 /\ twice = 0
    /\ base = 0 /\ got = {}
    /\ lost = 0 /\ dups = 0 /\ jumps = 0 /\ bars = 0 /\ sessions = 0

-----------------------------------------------------------------------------
(* Slots: amsdu_bitmap, amsdu_mask and the flags of the first frame in them. *)

Parts(list) == {list[i].part : i \in DOMAIN list} \ {0}
ReleaseReady(list) == Parts(list) = {} \/ Parts(list) = {1, 2}
IsTainted(list) == \E i \in DOMAIN list: list[i].part = 1 /\ list[i].n \in Tainted
Overdue(list) == Head(list).n \in aged
TimedOut(list) == Head(list).n \in stale    \* skw_is_msdu_timeout

At(s, sn) == s.tid.buf[Slot(sn)]
Emptied(s, sn) == [s EXCEPT !.tid.buf[Slot(sn)] = <<>>]
Delivered(s, list) == [s EXCEPT !.out = @ \o list]
DelTimer(s) == [s EXCEPT !.timer.pending = 0, !.timer.due = 0]
DelTimerIf(s, cond) == IF s.timer.pending = 1 /\ cond THEN DelTimer(s) ELSE s
Advance(s) == [s EXCEPT !.tid.start = Next12(@)]
Count(s, d) == [s EXCEPT !.tid.num = @ + d]

\* A loop over slots: go is "release" of the code, stop its break.
Turn == [s: Reorderer, go: BOOLEAN, stop: BOOLEAN]

\* n turns from q; turn[i] is the one with index i
Loop(turn, q, n) ==
    LET after[i \in 0..n] == IF i = 0 THEN q ELSE turn[i - 1][after[i - 1]]
    IN  after[n]

\* mutant: nobody is asked to release a frame that is overdue already
SetReorderTimerOnly(s, sn) ==
    IF s.timer.pending = 1 \/ s.ref # s.tid.ref \/ At(s, sn) = <<>> THEN s
    ELSE IF ~Overdue(At(s, sn))
    THEN [s EXCEPT !.timer = [pending |-> 1, sn |-> sn, ref |-> s.tid.ref, due |-> 0]]
    ELSE s

SetReorderTimer(s, sn) ==
    IF s.timer.pending = 1 \/ s.ref # s.tid.ref \/ At(s, sn) = <<>> THEN s
    ELSE IF ~Overdue(At(s, sn))
    THEN [s EXCEPT !.timer = [pending |-> 1, sn |-> sn, ref |-> s.tid.ref, due |-> 0]]
    ELSE IF s.todo.active = 1 THEN s
    ELSE [s EXCEPT !.todo = [active |-> 1, seq |-> sn]]

\* mutant: stored_num goes down for an empty slot as well
FreeSlotAlways(s) ==
    LET list == At(s, s.tid.start)
    IN  Advance(Count(Emptied(Delivered(s, IF IsTainted(list) THEN <<>> ELSE list), s.tid.start), -1))

\* one turn of skw_reorder_force_release
FreeSlot(s) ==
    LET list == At(s, s.tid.start)
    IN  Advance(IF list = <<>> THEN s
                ELSE Count(Emptied(Delivered(s, IF IsTainted(list) THEN <<>> ELSE list),
                                   s.tid.start), -1))

FreeTurn(to) == [i \in Nat |-> [q \in Turn |->
    IF q.stop \/ ~Less(q.s.tid.start, Next12(to)) THEN q
    ELSE IF q.s.tid.num = 0 THEN [q EXCEPT !.s.tid.start = to, !.stop = TRUE]
    ELSE [q EXCEPT !.s = FreeSlot(@)]]]

\* skw_reorder_force_release: every frame up to and including to
ForceRelease(s, to) ==
    LET untimed == DelTimerIf(s, s.ref = s.tid.ref
                                 /\ (Less(s.timer.sn, to) \/ Less(to, s.tid.start)))
    IN  Loop(FreeTurn(to), [s |-> untimed, go |-> TRUE, stop |-> FALSE], SnMod \div 2).s

\* A frame behind a gap: the gap is skipped when the frame has waited too long.
GapBefore(q, sn) ==
    IF TimedOut(At(q.s, sn))
    THEN [q EXCEPT !.s = ForceRelease(@, sn), !.go = TRUE]
    ELSE [q EXCEPT !.s = SetReorderTimer(@, sn), !.stop = TRUE]

\* The frame of the window start.
InOrder(q, sn) ==
    LET list == At(q.s, sn)
        t == DelTimerIf(q.s, q.s.timer.sn = q.s.tid.start)
    IN  IF IsTainted(list)
        THEN [q EXCEPT !.s = [Emptied(t, sn) EXCEPT !.tid.slip = @ + 1], !.go = FALSE]
        ELSE IF ReleaseReady(list) \/ TimedOut(list)
        THEN [q EXCEPT !.s = [Count(Advance(Emptied(Delivered(t, list), sn)), -1)
                                 EXCEPT !.gap = IF Sn(Head(list)) = t.tid.start THEN @ ELSE 1]]
        ELSE [q EXCEPT !.s = SetReorderTimer(t, sn), !.stop = TRUE]

ReleaseTurn(first) == [i \in Nat |-> [q \in Turn |->
    IF q.stop THEN q
    ELSE IF q.s.tid.num = 0 THEN [q EXCEPT !.s = DelTimer(@), !.stop = TRUE]
    ELSE IF At(q.s, first + i) = <<>>
    THEN IF q.s.timer.pending = 1 THEN [q EXCEPT !.stop = TRUE] ELSE [q EXCEPT !.go = FALSE]
    ELSE IF q.go THEN InOrder(q, first + i) ELSE GapBefore(q, first + i)]]

\* skw_reorder_release: every frame that is ready, until a gap
Release(s) ==
    IF s.tid = None THEN s
    ELSE Loop(ReleaseTurn(s.tid.start), [s |-> s, go |-> TRUE, stop |-> FALSE], WinSize).s

\* the end of skw_ampdu_reorder
Settle(s, sn, release) ==
    IF s.tid.num = 0 THEN DelTimer(s)
    ELSE IF release THEN Release(s) ELSE SetReorderTimer(s, sn)

\* mutant: the stored frame is not counted
PlaceUncounted(s, sn, release) ==
    IF sn = s.tid.start
    THEN LET t == Emptied(Delivered(s, At(s, sn)), sn)
         IN  Settle(Advance(DelTimerIf(t, t.timer.sn = sn)), sn, TRUE)
    ELSE Settle(s, sn, release)

\* mutant: the frames that waited are released before the one they waited for
PlaceLast(s, sn, release) ==
    IF sn = s.tid.start
    THEN LET t == Emptied(s, sn)
         IN  Delivered(Settle(Advance(DelTimerIf(t, t.timer.sn = sn)), sn, TRUE), At(s, sn))
    ELSE Settle(Count(s, 1), sn, release)

\* skw_ampdu_reorder, once the slot holds an MSDU or a whole A-MSDU
Place(s, sn, release) ==
    IF sn = s.tid.start
    THEN LET t == Emptied(Delivered(s, At(s, sn)), sn)
         IN  Settle(Advance(DelTimerIf(t, t.timer.sn = sn)), sn, TRUE)
    ELSE Settle(Count(s, 1), sn, release)

\* mutant: frames before the window are not dropped
NeverTooOld(s, sn) == FALSE

TooOld(s, sn) == Less(sn, s.tid.start)

\* skw_ampdu_reorder
Reorder(s, f) ==
    LET sn == Sn(f)
        beyond == ~Less(sn, s.tid.start + WinSize)
        t == IF beyond THEN ForceRelease(s, (sn - WinSize) % SnMod) ELSE s
        list == At(t, sn)
        u == [t EXCEPT !.tid.buf[Slot(sn)] = Append(@, f)]
    IN  IF s.tid = None THEN Delivered(s, <<f>>)
        ELSE IF TooOld(s, sn) THEN Settle(s, sn, FALSE)
        ELSE IF f.part = 0
        THEN IF list # <<>> THEN Settle(t, sn, beyond) ELSE Place(u, sn, beyond)
        ELSE IF f.part \in Parts(list) THEN Settle(t, sn, beyond)
        ELSE IF ~ReleaseReady(Append(list, f))
        THEN Settle(Count(u, IF list = <<>> THEN 1 ELSE 0), sn, beyond)
        ELSE LET v == Count(u, IF list = <<>> THEN 0 ELSE -1)
             IN  IF IsTainted(Append(list, f))
                 THEN Settle([Advance(Emptied(v, sn)) EXCEPT
                                     !.skew = IF sn = t.tid.start THEN @ ELSE 1], sn, beyond)
                 ELSE Place(v, sn, beyond)

\* skw_rx_todo
RunTodo(s) ==
    IF s.todo.active = 0 THEN s
    ELSE LET t == IF s.tid = None THEN s ELSE ForceRelease(s, s.todo.seq)
         IN  Release([t EXCEPT !.todo.active = 0])
-----------------------------------------------------------------------------
(* The RX thread *)

Frames(tid) == IF tid = None THEN {}
               ELSE UNION {{tid.buf[i][k] : k \in DOMAIN tid.buf[i]} : i \in Slots}
Stored(tid) == {f.n : f \in Frames(tid)}

\* What the thread has done with the buffer; only stored frames have an age.
Becomes(after) == \E s \in {after} :
    /\ rx' = [s EXCEPT !.out = <<>>]
    /\ LET Up == {i \in DOMAIN s.out : ~s.out[i].made}    \* skw_rx_handler
           before(i) == given \cup {s.out[j] : j \in {k \in Up : k < i}}
       IN  /\ given' = given \cup {s.out[j] : j \in Up}
           /\ late' = IF \E i \in Up: \E f \in before(i): f.n > s.out[i].n THEN 1 ELSE late
           /\ twice' = IF \E i \in Up: s.out[i] \in before(i) THEN 1 ELSE twice
    /\ aged' = aged \cap Stored(s.tid) /\ stale' = stale \cap Stored(s.tid)

\* skw_rx_data_handler for one frame: reorder it, then look at the todo list
Handle(f) == Becomes(RunTodo(Reorder(rx, f)))

PartsOf(n) == IF n \in Amsdu THEN {1, 2} ELSE {0}
Whole(n) == \A p \in PartsOf(n): <<n, p>> \in got

\* bound: there is room for another disturbance
Calm == lost + dups + jumps + bars + sessions < MaxTrouble

\* A frame of the sender's window arrives, late and out of order as it may.
Arrive(n, p) ==
    /\ <<n, p>> \notin got /\ got' = got \cup {<<n, p>>}
    /\ Handle([n |-> n, part |-> p, made |-> FALSE])
    /\ UNCHANGED <<old, firing, base, lost, dups, jumps, bars, sessions>>

ArriveAgain(n, p) ==
    /\ <<n, p>> \in got /\ Calm /\ dups' = dups + 1
    /\ Handle([n |-> n, part |-> p, made |-> FALSE])
    /\ UNCHANGED <<old, firing, base, got, lost, jumps, bars, sessions>>

\* skw_rx_handler_drop_info: the firmware tells of a frame it has dropped
ReportDropped(n, p) ==
    /\ <<n, p>> \notin got /\ Calm /\ lost' = lost + 1
    /\ got' = got \cup {<<n, p>>}
    /\ Handle([n |-> n, part |-> p, made |-> TRUE])
    /\ UNCHANGED <<old, firing, base, dups, jumps, bars, sessions>>

\* skw_rx_thread looks at the todo list every millisecond
WorkTodo ==
    /\ rx.todo.active = 1
    /\ Becomes(RunTodo(rx))
    /\ UNCHANGED <<old, firing, sender>>

(************************* time and the reorder timer **********************)

\* stored frames pass the timeout of the timer ...
Tick ==
    /\ Stored(rx.tid) # aged \/ rx.timer.due # rx.timer.pending
    /\ aged' = Stored(rx.tid)
    /\ rx' = [rx EXCEPT !.timer.due = rx.timer.pending]
    /\ UNCHANGED <<stack, old, firing, stale, sender>>

\* ... and that of skw_is_msdu_timeout, the longer one unless HZ is 1000
LongTick ==
    /\ stale # aged /\ stale' = aged
    /\ UNCHANGED <<stack, rx, old, firing, aged, sender>>

Expire ==
    /\ rx.timer.due = 1 /\ firing = 0
    /\ rx' = DelTimer(rx) /\ firing' = 1
    /\ UNCHANGED <<stack, old, aged, stale, sender>>

AskFor(sn) == [rx EXCEPT !.todo = IF @.active = 1 THEN @ ELSE [active |-> 1, seq |-> sn]]

\* skw_reorder_timeout
ReorderTimeout ==
    /\ firing = 1 /\ firing' = 0
    /\ rx' = IF rx.ref = rx.timer.ref THEN AskFor(rx.timer.sn) ELSE rx
    /\ UNCHANGED <<stack, old, aged, stale, sender>>

(***************************** BlockAck actions ****************************)

\* skw_update_tid_rx: the sender moves on and asks for what is before base
UpdateTid ==
    /\ Calm /\ bars' = bars + 1 /\ rx.tid # None
    /\ rx' = [rx EXCEPT !.todo = [active |-> 1, seq |-> SnOf(base)]]
    /\ UNCHANGED <<stack, old, firing, aged, stale, base, got, lost, dups, jumps, sessions>>

\* skw_del_tid_rx: del_timer_sync waits for skw_reorder_timeout
DelTid ==
    /\ Calm /\ sessions' = sessions + 1
    /\ old = None /\ rx.tid # None /\ firing = 0
    /\ old' = rx.tid
    /\ rx' = DelTimer([rx EXCEPT !.tid = None, !.ref = @ + 1])
    /\ aged' = {} /\ stale' = {}
    /\ UNCHANGED <<stack, firing, base, got, lost, dups, jumps, bars>>

\* mutant: the buffer is freed with the frames in it
FreeTidPurging ==
    /\ old # None /\ old' = None
    /\ Becomes(rx)
    /\ UNCHANGED <<firing, sender>>

\* skw_free_tid_rx, after the grace period
FreeTid ==
    /\ old # None /\ old' = None
    /\ LET last == (old.start + WinSize - 1) % SnMod
       IN  Becomes([ForceRelease([rx EXCEPT !.tid = old], last) EXCEPT !.tid = rx.tid])
    /\ UNCHANGED <<firing, sender>>

\* skw_add_tid_rx; the RX thread has emptied the todo list long before the
\* frames of a new session have been exchanged
AddTid ==
    /\ rx.tid = None /\ rx.todo.active = 0
    /\ rx' = [rx EXCEPT !.tid = NewTid(SnOf(base), rx.ref), !.todo.seq = 0]
    /\ UNCHANGED <<stack, old, firing, aged, stale, sender>>

(******************************* the sender ********************************)

\* The oldest frame is acknowledged, or given up ...
SlideOn ==
    /\ base <= MaxFrame
    /\ \/ Whole(base) /\ UNCHANGED lost
       \/ ~Whole(base) /\ Calm /\ lost' = lost + 1
    /\ base' = base + 1
    /\ UNCHANGED <<stack, rx, old, firing, aged, stale, got, dups, jumps, bars, sessions>>

\* ... or more frames are given up than the window has slots.
Jump ==
    /\ Calm /\ jumps' = jumps + 1
    /\ base + WinSize <= MaxFrame /\ base' = base + WinSize
    /\ UNCHANGED <<stack, rx, old, firing, aged, stale, got, lost, dups, bars, sessions>>

-----------------------------------------------------------------------------
\* the sender's window is the negotiated size, half of the slots
Window == {n \in base..base + WinSize \div 2 - 1 : n <= MaxFrame}

Receive ==
    \E n \in Window: \E p \in PartsOf(n):
        Arrive(n, p) \/ ArriveAgain(n, p) \/ ReportDropped(n, p)

Idle == base > MaxFrame /\ rx.todo.active = 0 /\ Stored(rx.tid) = {} /\ UNCHANGED vars

Next ==
    \/ Receive \/ WorkTodo
    \/ Tick \/ LongTick \/ Expire \/ ReorderTimeout
    \/ UpdateTid \/ DelTid \/ FreeTid \/ AddTid
    \/ SlideOn \/ Jump
    \/ Idle

Spec == Init /\ [][Next]_vars

\* Time passes, expired timers run, the RX thread looks at its lists and the
\* grace periods end; nothing makes frames arrive.
FairSpec ==
    /\ Spec
    /\ WF_vars(Tick) /\ WF_vars(LongTick) /\ WF_vars(Expire) /\ WF_vars(ReorderTimeout)
    /\ WF_vars(WorkTodo) /\ WF_vars(FreeTid)

-----------------------------------------------------------------------------
(* Properties *)

\* Every variable has its type, and stored_num stays in its range.
TypeOK ==
    /\ rx \in Reorderer /\ rx.ref = sessions /\ rx.timer.due <= rx.timer.pending
    /\ old \in Buffer \cup {None}
    /\ \A t \in {rx.tid, old} \ {None}: t.num \in t.slip..t.slip + WinSize /\ t.ref <= sessions
    /\ firing \in 0..1 /\ aged \subseteq Stored(rx.tid) /\ stale \subseteq aged
    /\ base \in 0..MaxFrame + 1 /\ lost + dups + jumps + bars + sessions \in 0..MaxTrouble

\* stored_num is the number of slots in use: the release loops stop at zero,
\* so a count that drifts would strand frames or skip the window.  It drifts by
\* the slots that skw_reorder_release purges (tainted A-MSDUs), and only by these.
StoredCounted ==
    \A t \in {rx.tid, old} \ {None}:
        t.num = Cardinality({i \in Slots: t.buf[i] # <<>>}) + t.slip

\* A stored frame is never forgotten: while a slot is in use the reorder timer
\* is pending or about to run, or the RX thread has been asked to release.
StoredIsTimed ==
    Stored(rx.tid) # {} => rx.timer.pending = 1 \/ firing = 1 \/ rx.todo.active = 1

\* What is stored is counted and its release is on the way, whatever the timer, a
\* BlockAck request or the end of the session does meanwhile.
FramesAreKept == StoredCounted /\ StoredIsTimed

\* As long as the sender gives up no window of frames and the session lasts,
\* frames are handed to the stack in the order they were sent, and none twice,
\* also when it arrives again after the timeout released it.
Steady == jumps = 0 /\ sessions = 0 /\ rx.skew = 0 /\ lost <= WinSize \div 2
OnceInOrder == Steady => late = 0 /\ twice = 0

\* What skw_reorder_release says of itself: it releases "until a gap"; a frame
\* that is not overdue leaves only as the next one of the window.
ReleaseStopsAtGap == rx.gap = 0

\* Every frame that was stored is handed to the stack in the end: by the frame
\* that closes the gap, by the timer, or when its session is deleted.
StoredIsDelivered ==
    \A f \in {g \in Frame : ~g.made /\ g.part \in PartsOf(g.n)}:
        f \in Frames(rx.tid) \cup Frames(old) ~> f \in given
=============================================================================
