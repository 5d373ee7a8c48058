----------------------------- MODULE MCTimerList -----------------------------
(* Three timers for TLC, with their proportions: a command, a scan, CQM.    *)
EXTENDS TimerList, TLC
CONSTANTS cmd, scan, cqm
TimeoutOf == (cmd :> 1) @@ (scan :> 3) @@ (cqm :> 0)
=============================================================================
