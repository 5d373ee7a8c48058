------------------------------ MODULE TimerList ------------------------------
(***************************************************************************)
(* The software timers of the skwifi driver (skw_timer.c): one kernel      *)
(* timer, armed for the first entry of a list.  The functions hold         *)
(* timer_data.lock; the timer function gives it up while the callbacks     *)
(* run, so timers come and go between two of them.  Callers with the same  *)
(* id exclude each other (the scan and the command by their locks, the CQM *)
(* timer by roam_data.lock), so the search for the id and the insertion    *)
(* are one step.  timer_data.count only shows in debugfs.                  *)
(***************************************************************************)
EXTENDS Naturals, Sequences, FiniteSets, SequencesExt

CONSTANTS Ids, Timeout, Off, MaxAdd

ASSUME ListAssumption ==
    /\ Timeout \in [Ids -> Nat] /\ Off \notin Nat /\ MaxAdd \in Nat

VARIABLES
    list,      \* timer_data.list: id and ticks left
    armed,     \* the kernel timer: ticks left, or Off
    picked,    \* timeout_list: ids, the next to run first
    softirq,   \* skw_timer_work is running
    adds       \* bound

timerVars == <<list, armed, picked, softirq, adds>>

TimersInit == list = <<>> /\ armed = Off /\ picked = <<>> /\ softirq = FALSE /\ adds = 0

\* time_before(jiffies, timeout) fails
IsDue(t) == t = 0
InList(l, id) == \E i \in DOMAIN l : l[i].id = id
\* skw_del_timer_work takes the one entry with the id out.
Place(l, id) == CHOOSE i \in DOMAIN l : l[i].id = id
Without(id) == IF InList(list, id) THEN RemoveAt(list, Place(list, id)) ELSE list
\* mod_timer for the first entry; with no entry the timer is left as it is.
ArmFor(l) == IF l = <<>> THEN armed ELSE Head(l).left
-----------------------------------------------------------------------------
\* The entry a new timer stands behind: the first that is not due before it, or
\* none, in front of all.
IsBehind(k, t) ==
    IF \E i \in DOMAIN list : t <= list[i].left
    THEN /\ k \in DOMAIN list /\ t <= list[k].left
         /\ \A j \in 1..(k - 1) : list[j].left < t
    ELSE k = 0

\* skw_add_timer_work
Add(id) ==
    /\ adds < MaxAdd /\ ~InList(list, id)
    /\ LET t == Timeout[id] + 1
       IN  \E k \in 0..Len(list) :
               IsBehind(k, t) /\ list' = InsertAt(list, k + 1, [id |-> id, left |-> t])
    /\ armed' = ArmFor(list')
    /\ adds' = adds + 1
    /\ UNCHANGED <<picked, softirq>>

\* mutant: the timer is not set for the new first entry
DelUnarmed(id) ==
    /\ list' = Without(id)
    /\ UNCHANGED <<armed, picked, softirq, adds>>

\* skw_del_timer_work: a timer that is picked already is not found.
Del(id) ==
    /\ list' = Without(id)
    /\ armed' = ArmFor(list')
    /\ UNCHANGED <<picked, softirq, adds>>

\* skw_timer_deinit; a timer function that is running is not waited for.
Deinit ==
    /\ list' = <<>> /\ armed' = Off
    /\ UNCHANGED <<picked, softirq, adds>>
-----------------------------------------------------------------------------
\* mutant: the whole list is taken when its first entry is due
PickAll ==
    /\ ~softirq /\ softirq' = TRUE
    /\ armed = 0 /\ armed' = Off
    /\ picked' = Reverse([i \in DOMAIN list |-> list[i].id])
    /\ list' = <<>>
    /\ UNCHANGED adds

\* skw_timer_work takes the entries up to the first that is not due; list_move
\* turns their order round.
PickDue ==
    /\ ~softirq /\ softirq' = TRUE
    /\ armed = 0 /\ armed' = Off
    /\ \E n \in 0..Len(list) :
           /\ \A i \in 1..n : IsDue(list[i].left)
           /\ n < Len(list) => ~IsDue(list[n + 1].left)
           /\ picked' = Reverse([i \in 1..n |-> list[i].id])
           /\ list' = SubSeq(list, n + 1, Len(list))
    /\ UNCHANGED adds

CallBack ==
    /\ softirq /\ picked # <<>> /\ picked' = Tail(picked)
    /\ UNCHANGED <<list, armed, softirq, adds>>

\* ... and sets the timer for what is first now.
Rearm ==
    /\ softirq /\ picked = <<>> /\ softirq' = FALSE
    /\ armed' = ArmFor(list)
    /\ UNCHANGED <<list, picked, adds>>

\* The softirq takes no time.
Tick ==
    /\ ~softirq /\ armed # 0
    /\ list' = [i \in DOMAIN list |->
                   [id |-> list[i].id,
                    left |-> IF list[i].left = 0 THEN 0 ELSE list[i].left - 1]]
    /\ armed' = IF armed = Off THEN Off ELSE armed - 1
    /\ UNCHANGED <<picked, softirq, adds>>

TimersNext ==
    \/ \E id \in Ids : Add(id) \/ Del(id)
    \/ Deinit \/ PickDue \/ CallBack \/ Rearm \/ Tick

TimersSpec == TimersInit /\ [][TimersNext]_timerVars

\* The clock goes on and the softirq runs.
FairTimersSpec == TimersSpec /\ WF_timerVars(Tick) /\ WF_timerVars(PickDue) /\ WF_timerVars(CallBack) /\ WF_timerVars(Rearm)
-----------------------------------------------------------------------------
TimersTypeOK ==
    /\ list \in Seq([id : Ids, left : Nat])
    /\ \A i, j \in DOMAIN list : list[i].id = list[j].id => i = j
    /\ armed \in Nat \cup {Off} /\ picked \in Seq(Ids) /\ softirq \in BOOLEAN
    /\ adds \in 0..MaxAdd

\* A timer that is due waits for the softirq, or stands behind one that is not
\* due: skw_add_timer_work puts the latest timer first, so the list is not
\* sorted, and skw_timer_work stops at the first that can wait.  Nothing else
\* makes a timer late.
LateOnlyBehindLater ==
    \A i \in DOMAIN list :
        IsDue(list[i].left) /\ ~softirq /\ armed # 0
            => \E j \in 1..(i - 1) : ~IsDue(list[j].left)

\* The kernel timer is never set for a time after the first entry's, so the
\* list never stands still with entries in it.
ArmedForFirst ==
    list # <<>> /\ ~softirq => armed # Off /\ armed <= Head(list).left

LeftOf(l, id) == IF InList(l, id) THEN l[Place(l, id)].left ELSE Off

Abstract ==
    INSTANCE TimerSpec WITH
        pending <- [id \in Ids |-> LeftOf(list, id)],
        running <- {picked[i] : i \in DOMAIN picked}

\* Timers that are added, deleted, picked and run behave as their users expect:
\* once, never early, never after they were deleted before they were picked,
\* and each in the end, though the list is out of order.
Promise == Abstract!FairSpec
=============================================================================
