------------------------------ MODULE TimerSpec ------------------------------
(***************************************************************************)
(* What the software timers of skw_timer.c promise their users: a timer    *)
(* runs once, never before its time and never after it was deleted, unless *)
(* its callback has been picked already; one that is due runs in the end.  *)
(***************************************************************************)
EXTENDS Naturals

CONSTANTS
    Ids,        \* timer_id: a scan request, a command buffer, a function
    Timeout,    \* in ticks, of each
    Off         \* not armed

VARIABLES
    pending,    \* the ticks each timer has left
    running     \* those picked: their callbacks are about to run

Due == {id \in Ids : pending[id] = 0}
Cleared(S) == [id \in Ids |-> IF id \in S THEN Off ELSE pending[id]]

Init == pending = [id \in Ids |-> Off] /\ running = {}

\* The deadline is a tick past the timeout: the current one has begun.
Add(id) ==
    /\ pending[id] = Off
    /\ pending' = [pending EXCEPT ![id] = Timeout[id] + 1]
    /\ UNCHANGED running

Del(S) == pending' = Cleared(S) /\ UNCHANGED running

Expire(S) ==
    /\ S # {} /\ S \subseteq Due /\ running = {}
    /\ pending' = Cleared(S) /\ running' = S

CallBack(id) ==
    /\ id \in running /\ running' = running \ {id}
    /\ UNCHANGED pending

\* Nothing is promised about how late a timer may be.
Tick ==
    /\ running = {}
    /\ pending' = [id \in Ids |-> IF pending[id] \in Nat \ {0}
                                  THEN pending[id] - 1 ELSE pending[id]]
    /\ UNCHANGED running

Next ==
    \/ \E id \in Ids : Add(id) \/ CallBack(id)
    \/ \E S \in SUBSET Ids : Del(S) \/ Expire(S)
    \/ Tick

Spec == Init /\ [][Next]_<<pending, running>>

Fairness ==
    /\ WF_<<pending, running>>(Tick)
    /\ \A id \in Ids :
           /\ WF_<<pending, running>>(CallBack(id))
           /\ SF_<<pending, running>>(\E S \in SUBSET Ids : id \in S /\ Expire(S))

FairSpec == Spec /\ Fairness
=============================================================================
