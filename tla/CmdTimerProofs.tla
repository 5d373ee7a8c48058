-------------------------- MODULE CmdTimerProofs --------------------------
(***************************************************************************)
(* Proofs about the command channel and about the software timers, one of  *)
(* which ends the wait for an answer of the firmware.                      *)
(*                                                                         *)
(* CmdChannel, for any number of callers, commands, crashes and late       *)
(* answers: until skw_msg_try_send sends a first command the mutex is      *)
(* never lost; until a signal interrupts a call too, a call returns the    *)
(* answer of its own command; and until an answer has come after the       *)
(* timeout, it is copied to a caller that still waits for it.  Every       *)
(* number keeps the bound the model gives it.                              *)
(*                                                                         *)
(* TimerList, for any timers, time limits and number of calls: the kernel  *)
(* timer is set for the first entry, a timer is late only behind a later   *)
(* one, and the list does what TimerSpec promises.                         *)
(***************************************************************************)
EXTENDS CmdChannel, TimerList, FiniteSetTheorems, SequenceTheorems, TLAPS

-----------------------------------------------------------------------------
(* Types *)

Bit == 0..1
AnyMessage == [seq: Nat, no: Nat]
AnyCommand == [seq: Nat, wire: Nat, no: Nat, arg: Callers \cup {None}, quiet: Bit,
               status: Nat, xmit: Bit, acked: Bit, done: Bit,
               callback: {"wake", "unlock"}]
Outcome == {"none", "eio", "ok", "timeout", "signal"} \X Nat

\* TypeOK without its bounds.
ChannelType ==
    /\ cmd \in AnyCommand
    /\ pc \in [Callers -> {"idle", "locked", "set", "wait"}]
    /\ mine \in [Callers -> Nat]
    /\ result \in [Callers -> Outcome]
    /\ worker \in Bit /\ acks \subseteq AnyMessage /\ rx \in AnyMessage \cup {None}
    /\ fwAssert \in Bit
    /\ issued \in Nat /\ signals \in Nat

LEMMA TypeInit == Init => ChannelType
<1> SUFFICES ASSUME Init PROVE ChannelType
  OBVIOUS
<1>1. cmd \in AnyCommand
  BY DEF Init, AnyCommand, Bit
<1>2. <<"none", 0>> \in Outcome
  BY DEF Outcome
<1> QED
  BY <1>1, <1>2 DEF Init, ChannelType, Bit

\* skw_set_cmd writes a command: its number is the next one.
LEMMA SetCmdType ==
  ASSUME cmd \in AnyCommand, issued \in Nat, NEW arg \in Callers \cup {None},
         NEW quiet \in Bit, SetCmd(arg, quiet)
  PROVE  cmd' \in AnyCommand /\ issued' \in Nat
<1>1. cmd.seq \in Nat
  BY DEF AnyCommand
<1>2. cmd.seq + 1 \in Nat /\ issued + 1 \in Nat /\ 0 \in Nat /\ 0 \in Bit
  BY <1>1 DEF Bit
<1>3. cmd' \in AnyCommand
  BY <1>2, Zenon DEF SetCmd, AnyCommand
<1> QED
  BY <1>2, <1>3 DEF SetCmd

\* The other writes to the command change flags and the status only.
LEMMA FlagType ==
  ASSUME NEW c \in AnyCommand
  PROVE  /\ \A b \in Bit : [c EXCEPT !.acked = b] \in AnyCommand
         /\ \A b \in Bit : [c EXCEPT !.xmit = b] \in AnyCommand
         /\ \A b \in Bit, k \in {"wake", "unlock"} :
              [c EXCEPT !.callback = k, !.xmit = b] \in AnyCommand
         /\ \A n \in Nat : [c EXCEPT !.seq = n] \in AnyCommand
         /\ \A n \in Nat, b \in Bit : [c EXCEPT !.status = n, !.done = b] \in AnyCommand
  BY Zenon DEF AnyCommand

LEMMA TypeNext == ChannelType /\ [Next]_vars => ChannelType'
<1> SUFFICES ASSUME ChannelType, [Next]_vars PROVE ChannelType'
  OBVIOUS
<1>0. 0 \in Bit /\ 1 \in Bit /\ 0 \in Nat
  BY DEF Bit
<1>a. [cmd EXCEPT !.acked = 1] \in AnyCommand
  <2>1. cmd \in AnyCommand
    BY DEF ChannelType
  <2> QED
    BY <1>0, <2>1, FlagType, Zenon
<1> USE <1>0
    DEF ChannelType, thread, clock, platform, bounds
<1>1. ASSUME NEW c \in Callers, CallerStep(c) PROVE ChannelType'
  <2>1. CASE Lock(c)
    BY <2>1 DEF Lock
  <2>2. CASE Refused(c)
    <3>1. <<"eio", 0>> \in Outcome
      BY DEF Outcome
    <3> QED
      BY <2>2, <3>1 DEF Refused
  <2>3. CASE Prepare(c)
    <3>1. SetCmd(c, QuietOf(c)) /\ QuietOf(c) \in Bit
      BY <2>3 DEF Prepare, QuietOf
    <3>2. cmd' \in AnyCommand /\ issued' \in Nat
      BY <3>1, SetCmdType
    <3>3. issued + 1 \in Nat
      OBVIOUS
    <3> QED
      BY <2>3, <3>2, <3>3 DEF Prepare
  <2>4. CASE Submit(c)
    BY <2>4, FlagType DEF Submit
  <2>5. CASE Answered(c)
    <3>1. <<"ok", cmd.status>> \in Outcome
      BY DEF Outcome, AnyCommand
    <3> QED
      BY <2>5, <3>1 DEF Answered, Leave
  <2>6. CASE TimedOut(c)
    <3>1. fwAssert' = 1 /\ <<"timeout", 0>> \in Outcome
      BY <2>6 DEF TimedOut, HwAssert, Outcome
    <3> QED
      BY <2>6, <3>1 DEF TimedOut, Leave
  <2>7. CASE Interrupted(c)
    <3>1. <<"signal", 0>> \in Outcome
      BY DEF Outcome
    <3>2. signals + 1 \in Nat
      OBVIOUS
    <3> QED
      BY <2>7, <3>1, <3>2 DEF Interrupted, Leave
  <2> QED
    BY <1>1, <2>1, <2>2, <2>3, <2>4, <2>5, <2>6, <2>7 DEF CallerStep
<1>2. CASE NetStep
  <2>1. cmd' \in AnyCommand /\ issued' \in Nat
    <3>1. CASE TryPrepare
      <4>1. SetCmd(None, 0)
        BY <3>1 DEF TryPrepare
      <4> QED
        BY <4>1, SetCmdType
    <3>2. CASE TrySubmit
      BY <3>2, FlagType DEF TrySubmit
    <3> QED
      BY <1>2, <3>1, <3>2 DEF NetStep, TryLock, TryRefused
  <2> QED
    BY <1>2, <2>1 DEF NetStep, TryLock, TryRefused, TryPrepare, TrySubmit
<1>3. CASE TimerStep
  <2>1. fwAssert' \in Bit
    BY <1>3 DEF TimerStep, Expire, CmdTimeout, AssertWork, HwAssert
  <2> QED
    BY <1>3, <2>1 DEF TimerStep, Expire, CmdTimeout, AssertWork
<1>4. CASE TakeCmd
  BY <1>4, FlagType DEF TakeCmd
<1>5. CASE SendCmd
  <2>1. [seq |-> cmd.wire, no |-> cmd.no] \in AnyMessage
    BY DEF AnyMessage, AnyCommand
  <2> QED
    BY <1>5, <2>1 DEF SendCmd
<1>6. CASE StoreAck
  <2>1. rx.no \in Nat
    BY <1>6 DEF StoreAck, AnyMessage
  <2> QED
    BY <1>6, <2>1, FlagType DEF StoreAck
<1>7. ASSUME NEW m \in acks, AcceptAck(m) \/ RejectAck(m) PROVE ChannelType'
  <2>1. m \in AnyMessage
    OBVIOUS
  <2>2. acks' \subseteq AnyMessage /\ (rx' = rx \/ rx' = m)
    BY <1>7 DEF AcceptAck, RejectAck
  <2>3. cmd' = cmd \/ cmd' = [cmd EXCEPT !.acked = 1]
    BY <1>7 DEF AcceptAck, RejectAck
  <2>4. cmd' \in AnyCommand
    BY <1>a, <2>3
  <2> QED
    BY <1>7, <2>1, <2>2, <2>4 DEF AcceptAck, RejectAck
<1>8. CASE PlatformStep
  <2>1. cmd' \in AnyCommand
    <3>1. CASE NotifyAssert
      <4>1. cmd' = cmd \/ cmd' = [cmd EXCEPT !.acked = 1]
        BY <3>1 DEF NotifyAssert
      <4> QED
        BY <1>a, <4>1
    <3>2. CASE RecoveryPrepare
      BY <3>2, FlagType DEF RecoveryPrepare
    <3> QED
      BY <1>8, <3>1, <3>2 DEF PlatformStep, FwCrash, NotifyReady, RecoveryResume
  <2> QED
    BY <1>8, <2>1 DEF PlatformStep, FwCrash, NotifyAssert, NotifyReady,
                      RecoveryPrepare, RecoveryResume
<1>9. CASE Idle \/ UNCHANGED vars
  BY <1>9 DEF Idle, vars
<1> QED
  BY <1>1, <1>2, <1>3, <1>4, <1>5, <1>6, <1>7, <1>8, <1>9 DEF Next, BusStep

-----------------------------------------------------------------------------
(* The lock *)

\* Nothing but the caller unlocks: no callback and no timer is left behind by
\* an asynchronous command.
Locked == \A c \in Callers: pc[c] # "idle" => owner = c

LockInv == "async" \notin odd =>
    /\ Locked
    /\ net = "idle" /\ timer = 0 /\ firing = 0 /\ assertWork = 0 /\ blockTx = 0
    /\ cmd.callback = "wake"

\* What has happened has happened.
LEMMA OddGrows == [Next]_vars => odd \subseteq odd'
  BY DEF Next, CallerStep, NetStep, TimerStep, BusStep, PlatformStep, Idle, vars, bounds,
         Lock, Refused, Prepare, Submit, Answered, TimedOut, Interrupted, TryLock,
         TryRefused, TryPrepare, TrySubmit, Expire, CmdTimeout, AssertWork, TakeCmd,
         SendCmd, AcceptAck, RejectAck, StoreAck, FwCrash, NotifyAssert, NotifyReady,
         RecoveryPrepare, RecoveryResume

LEMMA LockInit == Init => LockInv
  BY DEF Init, LockInv, Locked

LEMMA LockNext ==
  ASSUME ChannelType, LockInv, [Next]_vars
  PROVE  LockInv'
<1> SUFFICES ASSUME "async" \notin odd' PROVE LockInv'
  BY DEF LockInv
<1>0. "async" \notin odd
  BY OddGrows
<1> USE <1>0, ChannelAssumption
    DEF LockInv, Locked, ChannelType, AnyCommand, thread, clock, platform, bounds
<1>1. ASSUME NEW c \in Callers, CallerStep(c) PROVE LockInv'
  <2>1. CASE Lock(c)
    BY <2>1 DEF Lock
  <2>2. CASE Refused(c)
    BY <2>2 DEF Refused
  <2>3. CASE Prepare(c)
    BY <2>3 DEF Prepare, SetCmd
  <2>4. CASE Submit(c)
    BY <2>4 DEF Submit
  <2>5. CASE Answered(c) \/ TimedOut(c) \/ Interrupted(c)
    BY <2>5 DEF Answered, TimedOut, Interrupted, Leave, HwAssert
  <2> QED
    BY <1>1, <2>1, <2>2, <2>3, <2>4, <2>5 DEF CallerStep
<1>2. ~NetStep /\ ~TimerStep
  BY DEF NetStep, TryLock, TryRefused, TryPrepare, TrySubmit, TimerStep, Expire,
         CmdTimeout, AssertWork
<1>3. CASE BusStep
  <2>1. UNCHANGED <<owner, pc, net, timer, firing, assertWork, blockTx>>
    BY <1>3 DEF BusStep, TakeCmd, SendCmd, AcceptAck, RejectAck, StoreAck, Callback
  <2>2. \/ cmd' = cmd
        \/ cmd' = [cmd EXCEPT !.xmit = 0]
        \/ cmd' = [cmd EXCEPT !.acked = 1]
        \/ cmd' = [cmd EXCEPT !.status = rx.no, !.done = 1]
    BY <1>3 DEF BusStep, TakeCmd, SendCmd, AcceptAck, RejectAck, StoreAck
  <2>3. cmd'.callback = cmd.callback
    <3>1. CASE cmd' = [cmd EXCEPT !.xmit = 0]
      BY <3>1
    <3>2. CASE cmd' = [cmd EXCEPT !.acked = 1]
      BY <3>2
    <3>3. CASE cmd' = [cmd EXCEPT !.status = rx.no, !.done = 1]
      BY <3>3
    <3> QED
      BY <2>2, <3>1, <3>2, <3>3
  <2> QED
    BY <2>1, <2>3
<1>4. CASE PlatformStep
  BY <1>4 DEF PlatformStep, FwCrash, NotifyAssert, NotifyReady, RecoveryPrepare,
              RecoveryResume, Callback
<1>5. CASE Idle \/ UNCHANGED vars
  BY <1>5 DEF Idle, vars
<1> QED
  BY <1>1, <1>2, <1>3, <1>4, <1>5 DEF Next

\* Before the first asynchronous command cmd.lock stays with its caller from
\* lock to unlock, whatever crashes, answers late or is interrupted.
THEOREM LockStaysHeld == Spec => []LockHeld
<1>1. LockInv => LockHeld
  BY DEF LockInv, Locked, LockHeld
<1>2. ChannelType /\ LockInv /\ [Next]_vars => LockInv'
  BY LockNext
<1> QED
  BY TypeInit, TypeNext, LockInit, <1>1, <1>2, PTL DEF Spec

-----------------------------------------------------------------------------
(* The answers *)

\* No command and no answer is on its way.
Quiescent == cmd.xmit = 0 /\ worker = 0 /\ acks = {} /\ rx = None

Busy == \E c \in Callers : pc[c] \in {"set", "wait"}

\* A command is in one place at a time: with the worker, with the firmware,
\* or in the hands of skw_cmd_ack_handler.
OnePlace ==
    /\ cmd.xmit = 1 => worker = 0 /\ acks = {} /\ rx = None
    /\ worker = 1 => acks = {} /\ rx = None
    /\ rx # None => acks = {}
    /\ \A m, n \in acks : m = n

\* Whatever is on its way belongs to the last command; what a caller has left
\* behind keeps SKW_FLAG_FW_ASSERT set, so that nobody issues another command
\* until the restart of the firmware has thrown it away.
Alone == odd \cap {"async", "signal"} = {}

AnswerInv == Alone =>
    /\ OnePlace
    /\ \A m \in acks : m.no = cmd.no
    /\ rx # None => rx.no = cmd.no
    /\ \A c \in Callers :
          /\ pc[c] \in {"set", "wait"} => mine[c] = cmd.no
          /\ pc[c] = "set" => Quiescent /\ cmd.done = 0
          /\ pc[c] = "wait" /\ cmd.done = 1 => Quiescent /\ cmd.status = cmd.no
    /\ ~Busy => cmd.xmit = 0 /\ worker = 0
    /\ ~Busy /\ fwAssert = 0 => Quiescent
    /\ fw = "up" => fwAssert = 0
    /\ fw \in {"down", "ready", "prepared"} => fwAssert = 1
    /\ fw \in {"ready", "prepared"} => acks = {} /\ rx = None
    /\ \A c \in Callers:
          pc[c] \in {"idle", "locked"} /\ result[c][1] = "ok" => result[c][2] = mine[c]

LEMMA AnswerInit == Init => AnswerInv
  BY DEF Init, AnswerInv, OnePlace, Quiescent, Busy, OwnAnswer

LEMMA AnswerNext ==
  ASSUME ChannelType, LockInv, AnswerInv, [Next]_vars
  PROVE  AnswerInv'
<1> SUFFICES ASSUME Alone' PROVE AnswerInv'
  BY DEF AnswerInv
<1>0. Alone /\ "async" \notin odd /\ "async" \notin odd' /\ "signal" \notin odd'
  BY OddGrows DEF Alone
<1>1. \A c, d \in Callers : pc[c] # "idle" /\ pc[d] # "idle" => c = d
  BY <1>0 DEF LockInv, Locked
<1>2. blockTx = 0 /\ assertWork = 0 /\ firing = 0 /\ timer = 0 /\ net = "idle"
      /\ cmd \in AnyCommand /\ pc \in [Callers -> {"idle", "locked", "set", "wait"}]
      /\ mine \in [Callers -> Nat] /\ result \in [Callers -> Outcome]
      /\ worker \in Bit /\ fwAssert \in Bit
  BY <1>0 DEF LockInv, ChannelType
<1> USE <1>0, <1>1, <1>2
    DEF AnswerInv, OnePlace, Quiescent, Busy, thread, clock, platform, bounds
<1>3. ASSUME NEW c \in Callers, CallerStep(c) PROVE AnswerInv'
  <2>1. CASE Lock(c)
    BY <2>1 DEF Lock
  <2>2. CASE Refused(c)
    BY <2>2 DEF Refused
  <2>3. CASE Prepare(c)
    BY <2>3 DEF Prepare, SetCmd, TxAllowed, AnyCommand
  <2>4. CASE Submit(c)
    BY <2>4 DEF Submit, AnyCommand
  <2>5. CASE Answered(c)
    BY <2>5 DEF Answered, Leave
  <2>6. CASE TimedOut(c)
    BY <2>6 DEF TimedOut, Leave, HwAssert, InTime
  <2>7. ~Interrupted(c)
    BY DEF Interrupted, ChannelType
  <2> QED
    BY <1>3, <2>1, <2>2, <2>3, <2>4, <2>5, <2>6, <2>7 DEF CallerStep
<1>4. ~NetStep /\ ~TimerStep
  BY DEF NetStep, TryLock, TryRefused, TryPrepare, TrySubmit, TimerStep, Expire,
         CmdTimeout, AssertWork
<1>5. CASE TakeCmd
  BY <1>5 DEF TakeCmd, AnyCommand
<1>6. CASE SendCmd
  BY <1>6 DEF SendCmd, TxAllowed
<1>7. CASE StoreAck
  <2>1. /\ cmd'.no = cmd.no /\ cmd'.xmit = cmd.xmit
        /\ cmd'.status = cmd.no /\ cmd'.done = 1
    BY <1>7 DEF StoreAck, AnyCommand
  <2>2. Quiescent'
    <3>1. cmd.xmit = 0 /\ worker = 0 /\ acks = {}
      BY <1>7 DEF StoreAck, AnyCommand, Bit
    <3> QED
      BY <1>7, <2>1, <3>1 DEF StoreAck
  <2>3. UNCHANGED <<pc, mine, result, fw, fwAssert>>
    BY <1>7 DEF StoreAck
  <2>4. \A c \in Callers : pc[c] = "set" => rx = None
    OBVIOUS
  <2> QED
    BY <1>7, <2>1, <2>2, <2>3, <2>4 DEF StoreAck
<1>8. ASSUME NEW m \in acks, AcceptAck(m) PROVE AnswerInv'
  BY <1>8 DEF AcceptAck, AnyCommand
<1>9. ASSUME NEW m \in acks, RejectAck(m) PROVE AnswerInv'
  BY <1>9 DEF RejectAck
<1>10. CASE FwCrash
  BY <1>10 DEF FwCrash
<1>11. CASE NotifyAssert
  BY <1>11 DEF NotifyAssert, AnyCommand
<1>12. CASE NotifyReady
  BY <1>12 DEF NotifyReady
<1>13. CASE RecoveryPrepare
  BY <1>13 DEF RecoveryPrepare, AnyCommand
<1>14. CASE RecoveryResume
  BY <1>14 DEF RecoveryResume
<1>15. CASE Idle \/ UNCHANGED vars
  <2>1. UNCHANGED <<cmd, pc, mine, result, worker, acks, rx, fw, fwAssert>>
    BY <1>15 DEF Idle, vars
  <2> QED
    BY <2>1
<1> QED
  BY <1>3, <1>4, <1>5, <1>6, <1>7, <1>8, <1>9, <1>10, <1>11, <1>12, <1>13, <1>14, <1>15
     DEF Next, BusStep, PlatformStep

\* Before the first asynchronous command and the first signal, a call that
\* returns the status of the firmware returns the status of its own command, though answers
\* are lost, come after the timeout, and the firmware restarts in between.
THEOREM AnswersAreOwn == Spec => []OwnAnswer
<1>1. ChannelType /\ LockInv /\ AnswerInv /\ [Next]_vars => LockInv' /\ AnswerInv'
  BY LockNext, AnswerNext
<1>2. AnswerInv => OwnAnswer
  BY DEF AnswerInv, Alone, OwnAnswer
<1> QED
  BY TypeInit, TypeNext, LockInit, AnswerInit, <1>1, <1>2, PTL DEF Spec

-----------------------------------------------------------------------------
(* The buffer of the caller *)

\* When answers come before the timeout or never, no caller leaves anything
\* behind, and the buffer in the command is that of the caller who waits.
ArgInv == odd = {} =>
    /\ \A c \in Callers : pc[c] \in {"set", "wait"} => cmd.arg = c
    /\ ~Busy => Quiescent

LEMMA ArgNext ==
  ASSUME ChannelType, LockInv, AnswerInv, ArgInv, [Next]_vars
  PROVE  ArgInv'
<1> SUFFICES ASSUME odd' = {} PROVE ArgInv'
  BY DEF ArgInv
<1>0. odd = {} /\ Alone
  BY OddGrows DEF Alone
<1>1. \A c, d \in Callers : pc[c] # "idle" /\ pc[d] # "idle" => c = d
  BY <1>0 DEF LockInv, Locked
<1>2. /\ cmd \in AnyCommand /\ pc \in [Callers -> {"idle", "locked", "set", "wait"}]
      /\ worker \in Bit
  BY DEF ChannelType
<1> USE <1>0, <1>1, <1>2
    DEF ArgInv, Quiescent, Busy, thread, clock, platform, bounds
<1>3. ASSUME NEW c \in Callers, CallerStep(c) PROVE ArgInv'
  <2>1. CASE Lock(c) \/ Refused(c)
    BY <2>1 DEF Lock, Refused
  <2>2. CASE Prepare(c)
    BY <2>2 DEF Prepare, SetCmd, AnyCommand
  <2>3. CASE Submit(c)
    BY <2>3 DEF Submit, AnyCommand
  <2>4. CASE Answered(c)
    <3>1. Quiescent
      BY <2>4 DEF Answered, AnswerInv
    <3> QED
      BY <2>4, <3>1 DEF Answered, Leave
  <2>5. CASE TimedOut(c)
    BY <2>5 DEF TimedOut, Leave, InTime, Late
  <2>6. ~Interrupted(c)
    BY DEF Interrupted, ChannelType
  <2> QED
    BY <1>3, <2>1, <2>2, <2>3, <2>4, <2>5, <2>6 DEF CallerStep
<1>4. ~NetStep /\ ~TimerStep
  BY DEF NetStep, TryLock, TryRefused, TryPrepare, TrySubmit, TimerStep, Expire,
         CmdTimeout, AssertWork, LockInv
<1>5. CASE TakeCmd
  BY <1>5 DEF TakeCmd, AnyCommand
<1>6. CASE SendCmd
  BY <1>6 DEF SendCmd
<1>7. CASE StoreAck
  BY <1>7 DEF StoreAck, AnyCommand
<1>8. ASSUME NEW m \in acks, AcceptAck(m) \/ RejectAck(m) PROVE ArgInv'
  BY <1>8 DEF AcceptAck, RejectAck, AnyCommand
<1>9. CASE FwCrash \/ NotifyReady \/ RecoveryResume
  BY <1>9 DEF FwCrash, NotifyReady, RecoveryResume
<1>10. CASE NotifyAssert \/ RecoveryPrepare
  BY <1>10 DEF NotifyAssert, RecoveryPrepare, AnyCommand
<1>11. CASE Idle \/ UNCHANGED vars
  <2>1. UNCHANGED <<cmd, pc, worker, acks, rx>>
    BY <1>11 DEF Idle, vars
  <2> QED
    BY <2>1
<1> QED
  BY <1>3, <1>4, <1>5, <1>6, <1>7, <1>8, <1>9, <1>10, <1>11
     DEF Next, BusStep, PlatformStep

\* Before the first asynchronous command, signal or answer after the timeout,
\* an answer is copied only to the stack of a caller that sleeps on it,
\* whatever is lost and however often the firmware restarts.
THEOREM ArgStaysAlive == Spec => []ArgAlive
<1>1. Init => ArgInv
  BY DEF Init, ArgInv, Quiescent
<1>2. ChannelType /\ LockInv /\ AnswerInv /\ ArgInv /\ [Next]_vars
        => LockInv' /\ AnswerInv' /\ ArgInv'
  BY LockNext, AnswerNext, ArgNext
<1>3. ChannelType /\ AnswerInv /\ ArgInv => ArgAlive
  <2> SUFFICES ASSUME ChannelType, AnswerInv, ArgInv, odd = {}, rx # None
               PROVE  pc[cmd.arg] = "wait" /\ mine[cmd.arg] = cmd.no
    BY DEF ArgAlive
  <2>1. PICK c \in Callers : pc[c] \in {"set", "wait"}
    BY DEF ArgInv, Busy, Quiescent
  <2> QED
    BY <2>1 DEF ArgInv, AnswerInv, Alone, Quiescent
<1> QED
  BY TypeInit, TypeNext, LockInit, AnswerInit, <1>1, <1>2, <1>3, PTL DEF Spec

-----------------------------------------------------------------------------
(* The bounds *)

\* The commands begun and not issued yet count against the bound, and every
\* number there is was given to a command issued before.
Ready == {c \in Callers : pc[c] = "locked"}
ReadyNet == {n \in {net} : n = "locked"}

Places ==
    /\ owner \in Callers \cup {Net, None} /\ net \in {"idle", "locked", "set"}
    /\ timer \in 0..1 /\ firing \in 0..1 /\ blockTx \in 0..1 /\ assertWork \in 0..1
    /\ fw \in {"up", "crashed", "down", "ready", "prepared"}
    /\ crashes \in 0..MaxCrash /\ signals \in 0..MaxSignal
    /\ odd \subseteq {"async", "signal", "late"}

Begun ==
    /\ IsFiniteSet(Ready)
    /\ issued + Cardinality(Ready) + Cardinality(ReadyNet) <= MaxCmd

Numbers ==
    /\ cmd.seq <= issued /\ cmd.wire <= issued /\ cmd.no <= issued /\ cmd.status <= issued
    /\ \A c \in Callers : mine[c] <= issued /\ result[c][2] <= issued
    /\ \A m \in acks : m.seq <= issued /\ m.no <= issued
    /\ rx # None => rx.seq <= issued /\ rx.no <= issued

LEMMA PlacesInit == Init => Places /\ Begun /\ Numbers
<1> SUFFICES ASSUME Init PROVE Places /\ Begun /\ Numbers
  OBVIOUS
<1>1. Ready = {} /\ ReadyNet = {}
  BY DEF Init, Ready, ReadyNet
<1>2. Begun
  BY <1>1, FS_EmptySet, ChannelAssumption DEF Begun, Init
<1> QED
  BY <1>2, ChannelAssumption DEF Init, Places, Numbers

LEMMA PlacesNext == ChannelType /\ Places /\ [Next]_vars => Places'
<1> SUFFICES ASSUME ChannelType, Places, [Next]_vars PROVE Places'
  OBVIOUS
<1> USE ChannelAssumption DEF Places, thread, clock, platform, bounds
<1>1. ASSUME NEW c \in Callers, CallerStep(c) PROVE Places'
  <2>1. CASE Lock(c) \/ Refused(c)
    BY <2>1 DEF Lock, Refused
  <2>2. CASE Prepare(c)
    BY <2>2 DEF Prepare
  <2>3. CASE Submit(c)
    BY <2>3 DEF Submit
  <2>4. CASE Answered(c)
    BY <2>4 DEF Answered, Leave
  <2>5. CASE TimedOut(c)
    BY <2>5 DEF TimedOut, Leave, HwAssert, Late
  <2>6. CASE Interrupted(c)
    BY <2>6 DEF Interrupted, Leave
  <2> QED
    BY <1>1, <2>1, <2>2, <2>3, <2>4, <2>5, <2>6 DEF CallerStep
<1>2. CASE NetStep
  BY <1>2 DEF NetStep, TryLock, TryRefused, TryPrepare, TrySubmit
<1>3. CASE TimerStep
  <2>1. CASE Expire
    BY <2>1 DEF Expire
  <2>2. CASE CmdTimeout
    BY <2>2 DEF CmdTimeout
  <2>3. CASE AssertWork
    BY <2>3 DEF AssertWork, HwAssert
  <2> QED
    BY <1>3, <2>1, <2>2, <2>3 DEF TimerStep
<1>4. CASE BusStep
  BY <1>4 DEF BusStep, TakeCmd, SendCmd, AcceptAck, RejectAck, StoreAck, Callback
<1>5. CASE PlatformStep
  BY <1>5 DEF PlatformStep, FwCrash, NotifyAssert, NotifyReady, RecoveryPrepare,
              RecoveryResume, Callback
<1>6. CASE Idle \/ UNCHANGED vars
  BY <1>6 DEF Idle, vars
<1> QED
  BY <1>1, <1>2, <1>3, <1>4, <1>5, <1>6 DEF Next

\* Whoever writes a command had its place counted when the lock was taken.
LEMMA BegunNext ==
  ASSUME ChannelType, Places, Begun, [Next]_vars
  PROVE  Begun'
<1>0. /\ Cardinality(Ready) \in Nat /\ Cardinality({}) = 0 /\ Cardinality({"locked"}) = 1
      /\ MaxCmd \in Nat /\ issued \in Nat
  BY FS_CardinalityType, FS_EmptySet, FS_Singleton, ChannelAssumption DEF Begun, ChannelType
<1>1. /\ net = "locked" => Cardinality(ReadyNet) = 1
      /\ net # "locked" => Cardinality(ReadyNet) = 0
  <2>1. net = "locked" => ReadyNet = {"locked"}
    BY DEF ReadyNet
  <2>2. net # "locked" => ReadyNet = {}
    BY DEF ReadyNet
  <2> QED
    BY <1>0, <2>1, <2>2
<1>2. /\ net' = "locked" => Cardinality(ReadyNet') = 1
      /\ net' # "locked" => Cardinality(ReadyNet') = 0
  <2>1. net' = "locked" => ReadyNet' = {"locked"}
    BY DEF ReadyNet
  <2>2. net' # "locked" => ReadyNet' = {}
    BY DEF ReadyNet
  <2> QED
    BY <1>0, <2>1, <2>2
<1>3. ASSUME UNCHANGED <<issued, pc>>, net' = net \/ net' # "locked" PROVE Begun'
  <2>1. Ready' = Ready
    BY <1>3 DEF Ready
  <2> QED
    BY <1>0, <1>1, <1>2, <1>3, <2>1 DEF Begun
<1>4. ASSUME NEW c \in Callers, pc[c] # "locked", NEW place, place # "locked",
             pc' = [pc EXCEPT ![c] = place], UNCHANGED <<issued, net>>
      PROVE  Begun'
  <2>1. Ready' = Ready
    BY <1>4 DEF Ready, ChannelType
  <2> QED
    BY <1>0, <1>1, <1>2, <1>4, <2>1 DEF Begun
<1>5. ASSUME NEW c \in Callers, pc[c] = "locked", NEW place, place # "locked",
             pc' = [pc EXCEPT ![c] = place]
      PROVE  IsFiniteSet(Ready') /\ Cardinality(Ready') = Cardinality(Ready) - 1
  <2>1. Ready' = Ready \ {c} /\ c \in Ready
    BY <1>5 DEF Ready, ChannelType
  <2> QED
    BY <2>1, FS_RemoveElement DEF Begun
<1> USE DEF thread, clock, platform, bounds
<1>6. ASSUME NEW c \in Callers, CallerStep(c) PROVE Begun'
  <2>1. CASE Lock(c)
    <3>1. Ready' = Ready \cup {c} /\ c \notin Ready
      BY <2>1 DEF Lock, Ready, ChannelType
    <3>2. IsFiniteSet(Ready') /\ Cardinality(Ready') = Cardinality(Ready) + 1
      BY <3>1, FS_AddElement DEF Begun
    <3>3. issued + Cardinality(Ready) + Cardinality(ReadyNet) < MaxCmd
      BY <2>1 DEF Lock, Room, Ready, ReadyNet
    <3>4. issued' = issued /\ net' = net
      BY <2>1 DEF Lock
    <3> QED
      BY <1>0, <1>1, <1>2, <3>2, <3>3, <3>4 DEF Begun
  <2>2. CASE Refused(c)
    <3>1. IsFiniteSet(Ready') /\ Cardinality(Ready') = Cardinality(Ready) - 1
      BY <1>5, <2>2 DEF Refused
    <3> QED
      BY <1>0, <1>1, <1>2, <2>2, <3>1 DEF Begun, Refused
  <2>3. CASE Prepare(c)
    <3>1. IsFiniteSet(Ready') /\ Cardinality(Ready') = Cardinality(Ready) - 1
      BY <1>5, <2>3 DEF Prepare
    <3>2. issued' = issued + 1 /\ net' = net
      BY <2>3 DEF Prepare, SetCmd
    <3> QED
      BY <1>0, <1>1, <1>2, <3>1, <3>2 DEF Begun
  <2>4. CASE Submit(c)
    BY <1>4, <2>4 DEF Submit
  <2>5. CASE Answered(c)
    BY <1>4, <2>5 DEF Answered, Leave
  <2>6. CASE TimedOut(c)
    BY <1>4, <2>6 DEF TimedOut, Leave
  <2>7. CASE Interrupted(c)
    BY <1>4, <2>7 DEF Interrupted, Leave
  <2> QED
    BY <1>6, <2>1, <2>2, <2>3, <2>4, <2>5, <2>6, <2>7 DEF CallerStep
<1>7. CASE TryLock
  <2>1. Ready' = Ready /\ issued' = issued /\ net = "idle" /\ net' = "locked"
    BY <1>7 DEF TryLock, Ready
  <2>2. issued + Cardinality(Ready) + Cardinality(ReadyNet) < MaxCmd
    BY <1>7 DEF TryLock, Room, Ready, ReadyNet
  <2> QED
    BY <1>0, <1>1, <1>2, <2>1, <2>2 DEF Begun
<1>8. CASE TryPrepare
  <2>1. Ready' = Ready /\ issued' = issued + 1 /\ net = "locked" /\ net' = "set"
    BY <1>8 DEF TryPrepare, SetCmd, Ready
  <2> QED
    BY <1>0, <1>1, <1>2, <2>1 DEF Begun
<1>9. CASE TryRefused \/ TrySubmit \/ TimerStep
  BY <1>3, <1>9 DEF TryRefused, TrySubmit, TimerStep, Expire, CmdTimeout, AssertWork
<1>10. CASE BusStep
  BY <1>3, <1>10 DEF BusStep, TakeCmd, SendCmd, AcceptAck, RejectAck, StoreAck
<1>11. CASE PlatformStep \/ Idle \/ UNCHANGED vars
  BY <1>3, <1>11 DEF PlatformStep, FwCrash, NotifyAssert, NotifyReady, RecoveryPrepare,
                     RecoveryResume, Idle, vars
<1> QED
  BY <1>6, <1>7, <1>8, <1>9, <1>10, <1>11 DEF Next, NetStep

\* A command gets the number after the last one, everybody else a copy.
LEMMA NumbersNext ==
  ASSUME ChannelType, Numbers, [Next]_vars
  PROVE  Numbers'
<1>0. /\ issued \in Nat /\ cmd \in AnyCommand /\ acks \subseteq AnyMessage
      /\ mine \in [Callers -> Nat] /\ result \in [Callers -> Outcome]
      /\ cmd.seq \in Nat /\ cmd.wire \in Nat /\ cmd.no \in Nat /\ cmd.status \in Nat
      /\ \A c \in Callers : mine[c] \in Nat /\ result[c][2] \in Nat
      /\ \A m \in acks : m.seq \in Nat /\ m.no \in Nat
      /\ rx # None => rx.seq \in Nat /\ rx.no \in Nat
  BY DEF ChannelType, AnyCommand, AnyMessage, Outcome
<1> USE <1>0 DEF Numbers, thread, clock, platform, bounds
<1>1. ASSUME NEW arg, NEW quiet, SetCmd(arg, quiet)
      PROVE  /\ issued' = issued + 1 /\ cmd'.seq <= issued' /\ cmd'.wire <= issued'
             /\ cmd'.no <= issued' /\ cmd'.status <= issued'
  BY <1>1 DEF SetCmd, AnyCommand
<1>2. ASSUME NEW c \in Callers, CallerStep(c) PROVE Numbers'
  <2>1. CASE Lock(c)
    BY <2>1 DEF Lock
  <2>2. CASE Refused(c)
    BY <2>2 DEF Refused
  <2>3. CASE Prepare(c)
    <3>1. SetCmd(c, QuietOf(c)) /\ mine' = [mine EXCEPT ![c] = issued + 1]
          /\ UNCHANGED <<result, acks, rx>>
      BY <2>3 DEF Prepare
    <3>2. \A d \in Callers : mine'[d] <= issued + 1
      BY <3>1
    <3> QED
      BY <1>1, <3>1, <3>2
  <2>4. CASE Submit(c)
    BY <2>4 DEF Submit, AnyCommand
  <2>5. CASE Answered(c)
    BY <2>5 DEF Answered, Leave
  <2>6. CASE TimedOut(c)
    BY <2>6 DEF TimedOut, Leave
  <2>7. CASE Interrupted(c)
    BY <2>7 DEF Interrupted, Leave
  <2> QED
    BY <1>2, <2>1, <2>2, <2>3, <2>4, <2>5, <2>6, <2>7 DEF CallerStep
<1>3. CASE TryPrepare
  BY <1>1, <1>3 DEF TryPrepare
<1>4. CASE TryLock \/ TryRefused \/ TimerStep
  BY <1>4 DEF TryLock, TryRefused, TimerStep, Expire, CmdTimeout, AssertWork
<1>5. CASE TrySubmit \/ TakeCmd
  <2>1. /\ cmd'.seq = cmd.seq /\ cmd'.wire = cmd.wire
        /\ cmd'.no = cmd.no /\ cmd'.status = cmd.status
    BY <1>5 DEF TrySubmit, TakeCmd, AnyCommand
  <2>2. UNCHANGED <<mine, result, acks, rx, issued>>
    BY <1>5 DEF TrySubmit, TakeCmd
  <2> QED
    BY <2>1, <2>2
<1>6. CASE SendCmd
  BY <1>6 DEF SendCmd
<1>7. ASSUME NEW m \in acks, AcceptAck(m) \/ RejectAck(m) PROVE Numbers'
  BY <1>7 DEF AcceptAck, RejectAck, AnyCommand
<1>8. CASE StoreAck
  BY <1>8 DEF StoreAck, AnyCommand
<1>9. CASE FwCrash \/ NotifyReady \/ RecoveryResume \/ Idle \/ UNCHANGED vars
  BY <1>9 DEF FwCrash, NotifyReady, RecoveryResume, Idle, vars
<1>10. CASE NotifyAssert \/ RecoveryPrepare
  BY <1>10 DEF NotifyAssert, RecoveryPrepare, AnyCommand
<1> QED
  BY <1>2, <1>3, <1>4, <1>5, <1>6, <1>7, <1>8, <1>9, <1>10
     DEF Next, NetStep, BusStep, PlatformStep

LEMMA TypesFollow ==
  ASSUME ChannelType, Places, Begun, Numbers
  PROVE  TypeOK
<1>1. /\ issued \in Nat /\ MaxCmd \in Nat /\ Cardinality(Ready) \in Nat
      /\ Cardinality(ReadyNet) \in Nat
  <2>1. IsFiniteSet(ReadyNet)
    <3>1. ReadyNet = {} \/ ReadyNet = {net}
      BY DEF ReadyNet
    <3> QED
      BY <3>1, FS_EmptySet, FS_Singleton
  <2> QED
    BY <2>1, FS_CardinalityType, ChannelAssumption DEF Begun, ChannelType
<1>2. issued \in 0..MaxCmd
  BY <1>1 DEF Begun
<1>3. \A n \in Nat : n <= issued => n \in 0..MaxCmd
  BY <1>1, <1>2
<1>4. cmd \in Command
  BY <1>3, Zenon DEF ChannelType, AnyCommand, Command, Numbers, Bit
<1>5. \A m \in AnyMessage : m.seq <= issued /\ m.no <= issued => m \in Message
  BY <1>3, Zenon DEF AnyMessage, Message
<1>6. acks \subseteq Message /\ rx \in Message \cup {None}
  BY <1>5 DEF ChannelType, Numbers
<1>7. mine \in [Callers -> 0..MaxCmd]
  BY <1>3 DEF ChannelType, Numbers
<1>8. result \in [Callers -> {"none", "eio", "ok", "timeout", "signal"} \X (0..MaxCmd)]
  <2>1. \A o \in Outcome : o[2] <= issued
            => o \in {"none", "eio", "ok", "timeout", "signal"} \X (0..MaxCmd)
    BY <1>3 DEF Outcome
  <2> QED
    BY <2>1 DEF ChannelType, Numbers
<1> QED
  BY <1>2, <1>4, <1>6, <1>7, <1>8 DEF TypeOK, ChannelType, Places, Bit

\* Every variable keeps its type and every number its bound: a command is
\* written only by one whose place was counted when it took cmd.lock, and no
\* answer, result or buffer holds a number no command was given.
THEOREM TypesHold == Spec => []TypeOK
<1>1. ChannelType /\ Places /\ Begun /\ Numbers /\ [Next]_vars => Places' /\ Begun' /\ Numbers'
  BY PlacesNext, BegunNext, NumbersNext
<1> QED
  BY TypeInit, TypeNext, PlacesInit, <1>1, TypesFollow, PTL DEF Spec

-----------------------------------------------------------------------------
(********************** the software timers (TimerList) *********************)
Entry == [id : Ids, left : Nat]
Distinct(l) == \A i, j \in DOMAIN l : l[i].id = l[j].id => i = j
Entries(l) == {l[i] : i \in DOMAIN l}

-----------------------------------------------------------------------------
(* What insertion and removal do to a list of timers.                      *)

\* A timer put at any place of the list leaves the others as they are.
LEMMA Inserted ==
  ASSUME NEW l \in Seq(Entry), Distinct(l), NEW k \in 1..(Len(l) + 1), NEW e \in Entry,
         \A i \in DOMAIN l : l[i].id # e.id
  PROVE  /\ InsertAt(l, k, e) \in Seq(Entry) /\ Distinct(InsertAt(l, k, e))
         /\ Entries(InsertAt(l, k, e)) = Entries(l) \cup {e}
<1> DEFINE before == SubSeq(l, 1, k - 1)
           after == SubSeq(l, k, Len(l))
           new == InsertAt(l, k, e)
<1>1. /\ before \in Seq(Entry) /\ Len(before) = k - 1
      /\ \A i \in 1..(k - 1) : before[i] = l[i]
  OBVIOUS
<1>2. /\ after \in Seq(Entry) /\ Len(after) = Len(l) - k + 1
      /\ \A i \in 1..(Len(l) - k + 1) : after[i] = l[i + k - 1]
  OBVIOUS
<1>3. new = before \o <<e>> \o after
  BY DEF InsertAt
<1> HIDE DEF before, after, new
<1>4. /\ before \o <<e>> \in Seq(Entry) /\ Len(before \o <<e>>) = k
      /\ \A i \in 1..k : (before \o <<e>>)[i] = IF i < k THEN l[i] ELSE e
  BY <1>1
<1>5. /\ new \in Seq(Entry) /\ Len(new) = Len(l) + 1
      /\ \A i \in 1..(Len(l) + 1) :
           new[i] = IF i < k THEN l[i] ELSE IF i = k THEN e ELSE l[i - 1]
  <2> DEFINE front == before \o <<e>>
  <2> HIDE DEF front
  <2>1. new = front \o after /\ front \in Seq(Entry) /\ Len(front) = k
    BY <1>3, <1>4 DEF front
  <2>2. /\ new \in Seq(Entry) /\ Len(new) = k + Len(after)
        /\ \A i \in 1..(k + Len(after)) :
             new[i] = IF i <= k THEN front[i] ELSE after[i - k]
    BY <1>2, <2>1, ConcatProperties
  <2>3. \A i \in 1..k : front[i] = IF i < k THEN l[i] ELSE e
    BY <1>4 DEF front
  <2>4. ASSUME NEW i \in 1..(Len(l) + 1)
        PROVE  new[i] = IF i < k THEN l[i] ELSE IF i = k THEN e ELSE l[i - 1]
    <3>1. CASE i <= k
      BY <1>2, <2>2, <2>3, <3>1
    <3>2. CASE i > k
      <4>1. i - k \in 1..(Len(l) - k + 1) /\ (i - k) + k - 1 = i - 1
        BY <3>2
      <4>2. after[i - k] = l[(i - k) + k - 1]
        BY <1>2, <4>1
      <4> QED
        BY <1>2, <2>2, <3>2, <4>1, <4>2
    <3> QED BY <3>1, <3>2
  <2> QED
    BY <1>2, <2>2, <2>4
<1>6. Distinct(new)
  <2> SUFFICES ASSUME NEW i \in 1..(Len(l) + 1), NEW j \in 1..(Len(l) + 1),
                      new[i].id = new[j].id, i < j
               PROVE  FALSE
    BY <1>5 DEF Distinct
  <2>1. CASE i # k /\ j # k
    <3> DEFINE at(x) == IF x < k THEN x ELSE x - 1
    <3>1. at(i) \in 1..Len(l) /\ at(j) \in 1..Len(l) /\ at(i) # at(j)
      BY <2>1
    <3>2. new[i] = l[at(i)] /\ new[j] = l[at(j)]
      BY <1>5, <2>1
    <3> QED
      BY <3>1, <3>2 DEF Distinct
  <2>2. CASE i = k
    <3>1. new[i] = e /\ new[j] = l[j - 1] /\ j - 1 \in 1..Len(l)
      BY <1>5, <2>2
    <3> QED BY <3>1
  <2>3. CASE j = k
    <3>1. new[j] = e /\ new[i] = l[i] /\ i \in 1..Len(l)
      BY <1>5, <2>3
    <3> QED BY <3>1
  <2> QED BY <2>1, <2>2, <2>3
<1>7. Entries(new) = Entries(l) \cup {e}
  <2>1. DOMAIN l = 1..Len(l) /\ DOMAIN new = 1..(Len(l) + 1) /\ Len(l) \in Nat
    BY <1>5
  <2>2. ASSUME NEW i \in DOMAIN new PROVE new[i] \in Entries(l) \cup {e}
    <3>1. i < k \/ i = k \/ (i > k /\ i - 1 \in DOMAIN l)
      BY <2>1
    <3> QED
      BY <1>5, <2>1, <3>1 DEF Entries
  <2>3. ASSUME NEW i \in DOMAIN l PROVE l[i] \in Entries(new)
    <3>1. CASE i < k
      BY <1>5, <2>1, <3>1 DEF Entries
    <3>2. CASE i >= k
      <4>1. i + 1 \in DOMAIN new /\ new[i + 1] = l[i + 1 - 1] /\ i + 1 - 1 = i
        BY <1>5, <2>1, <3>2
      <4> QED BY <4>1 DEF Entries
    <3> QED BY <2>1, <3>1, <3>2
  <2>4. e \in Entries(new)
    <3>1. k \in DOMAIN new /\ new[k] = e
      BY <1>5, <2>1
    <3> QED BY <3>1 DEF Entries
  <2> QED
    BY <2>2, <2>3, <2>4 DEF Entries
<1> QED
  BY <1>5, <1>6, <1>7 DEF new

\* A timer taken out of the list leaves the others as they are.
LEMMA Removed ==
  ASSUME NEW l \in Seq(Entry), Distinct(l), NEW k \in 1..Len(l)
  PROVE  /\ RemoveAt(l, k) \in Seq(Entry) /\ Distinct(RemoveAt(l, k))
         /\ Entries(RemoveAt(l, k)) = Entries(l) \ {l[k]}
<1> DEFINE before == SubSeq(l, 1, k - 1)
           after == SubSeq(l, k + 1, Len(l))
           new == RemoveAt(l, k)
<1>1. /\ before \in Seq(Entry) /\ Len(before) = k - 1
      /\ \A i \in 1..(k - 1) : before[i] = l[i]
  OBVIOUS
<1>2. /\ after \in Seq(Entry) /\ Len(after) = Len(l) - k
      /\ \A i \in 1..(Len(l) - k) : after[i] = l[i + k]
  OBVIOUS
<1>3. new = before \o after
  BY DEF RemoveAt
<1> HIDE DEF before, after, new
<1>4. /\ new \in Seq(Entry) /\ Len(new) = Len(l) - 1
      /\ \A i \in 1..(Len(l) - 1) :
           new[i] = IF i < k THEN before[i] ELSE after[i - (k - 1)]
  <2>1. /\ before \o after \in Seq(Entry)
        /\ Len(before \o after) = Len(before) + Len(after)
        /\ \A i \in 1..(Len(before) + Len(after)) :
             (before \o after)[i] = IF i <= Len(before) THEN before[i] ELSE after[i - Len(before)]
    BY <1>1, <1>2, ConcatProperties
  <2> QED
    BY <1>1, <1>2, <1>3, <2>1
<1>5. ASSUME NEW i \in 1..(Len(l) - 1)
      PROVE  new[i] = IF i < k THEN l[i] ELSE l[i + 1]
  <2>1. CASE i < k
    BY <1>1, <1>4, <2>1
  <2>2. CASE i >= k
    <3>1. i - (k - 1) \in 1..(Len(l) - k) /\ (i - (k - 1)) + k = i + 1
      BY <2>2
    <3>2. after[i - (k - 1)] = l[(i - (k - 1)) + k]
      BY <1>2, <3>1
    <3> QED BY <1>4, <2>2, <3>1, <3>2
  <2> QED BY <2>1, <2>2
<1>6. Distinct(new)
  <2> SUFFICES ASSUME NEW i \in 1..(Len(l) - 1), NEW j \in 1..(Len(l) - 1),
                      new[i].id = new[j].id, i < j
               PROVE  FALSE
    <3>1. DOMAIN new = 1..(Len(l) - 1) /\ \A i, j \in DOMAIN new : i = j \/ i < j \/ j < i
      BY <1>4
    <3> QED BY <3>1 DEF Distinct
  <2> DEFINE at(x) == IF x < k THEN x ELSE x + 1
  <2>1. at(i) \in 1..Len(l) /\ at(j) \in 1..Len(l) /\ at(i) # at(j)
    OBVIOUS
  <2>2. new[i] = l[at(i)] /\ new[j] = l[at(j)]
    BY <1>5
  <2> QED
    BY <2>1, <2>2 DEF Distinct
<1>7. Entries(new) = Entries(l) \ {l[k]}
  <2>1. DOMAIN l = 1..Len(l) /\ DOMAIN new = 1..(Len(l) - 1) /\ Len(l) \in Nat
    BY <1>4
  <2>2. ASSUME NEW i \in DOMAIN new PROVE new[i] \in Entries(l) \ {l[k]}
    <3> DEFINE at == IF i < k THEN i ELSE i + 1
    <3>1. at \in DOMAIN l /\ at # k /\ new[i] = l[at]
      BY <1>5, <2>1
    <3>2. l[at] # l[k]
      BY <2>1, <3>1 DEF Distinct
    <3> QED
      BY <3>1, <3>2 DEF Entries
  <2>3. ASSUME NEW i \in DOMAIN l, i # k PROVE l[i] \in Entries(new)
    <3>1. CASE i < k
      <4>1. i \in DOMAIN new /\ new[i] = l[i]
        BY <1>5, <2>1, <3>1
      <4> QED BY <4>1 DEF Entries
    <3>2. CASE i > k
      <4>1. i - 1 \in DOMAIN new /\ new[i - 1] = l[i - 1 + 1] /\ i - 1 + 1 = i
        BY <1>5, <2>1, <3>2
      <4> QED BY <4>1 DEF Entries
    <3> QED BY <2>1, <2>3, <3>1, <3>2
  <2> QED
    BY <2>2, <2>3 DEF Entries
<1> QED
  BY <1>4, <1>6, <1>7 DEF new

\* The list without its first n timers.
LEMMA Rest ==
  ASSUME NEW l \in Seq(Entry), NEW n \in 0..Len(l)
  PROVE  LET m == SubSeq(l, n + 1, Len(l))
         IN  /\ m \in Seq(Entry) /\ Len(m) = Len(l) - n /\ DOMAIN m = 1..(Len(l) - n)
             /\ \A i \in 1..(Len(l) - n) : m[i] = l[i + n]
<1>1. /\ Len(l) \in Nat /\ n + 1 \in 1..(Len(l) + 1)
      /\ Len(l) \in (n + 1 - 1)..Len(l)
  OBVIOUS
<1>2. /\ SubSeq(l, n + 1, Len(l)) \in Seq(Entry)
      /\ Len(SubSeq(l, n + 1, Len(l))) = Len(l) - n
      /\ \A i \in 1..(Len(l) - n) : SubSeq(l, n + 1, Len(l))[i] = l[i + n]
  BY <1>1
<1>3. DOMAIN SubSeq(l, n + 1, Len(l)) = 1..(Len(l) - n)
  BY <1>2
<1> QED
  BY <1>2, <1>3
-----------------------------------------------------------------------------
(* The types, and the kernel timer.                                        *)

TimersInv == TimersTypeOK /\ ArmedForFirst

USE ListAssumption

\* The first entry of a list names a time.
LEMMA FirstType ==
  ASSUME NEW l \in Seq(Entry), l # <<>>
  PROVE  Len(l) \in Nat \ {0} /\ Head(l) = l[1] /\ Head(l).left \in Nat
<1>1. Head(l) \in Entry
  BY HeadTailProperties
<1>2. Len(l) \in Nat \ {0}
  BY EmptySeq
<1> QED
  BY <1>1, <1>2 DEF Entry

LEMMA ArmForType ==
  ASSUME NEW l \in Seq(Entry), armed \in Nat \cup {Off}
  PROVE  /\ ArmFor(l) \in Nat \cup {Off}
         /\ l # <<>> => ArmFor(l) = Head(l).left /\ Head(l).left \in Nat
  BY FirstType DEF ArmFor

\* A step that changes the list alone and sets the timer for its first entry.
LEMMA Rearmed ==
  ASSUME TimersInv, list' \in Seq(Entry), Distinct(list'), armed' = ArmFor(list'),
         UNCHANGED <<picked, softirq>>, adds' \in 0..MaxAdd
  PROVE  TimersInv'
<1>1. /\ armed' \in Nat \cup {Off}
      /\ list' # <<>> => armed' = Head(list').left /\ Head(list').left \in Nat
  BY ArmForType DEF TimersInv, TimersTypeOK
<1> QED
  BY <1>1 DEF TimersInv, TimersTypeOK, ArmedForFirst, Entry, Distinct

LEMMA TimersInvNext == TimersInv /\ [TimersNext]_timerVars => TimersInv'
<1> SUFFICES ASSUME TimersInv, [TimersNext]_timerVars PROVE TimersInv'
  OBVIOUS
<1>0. list \in Seq(Entry) /\ Distinct(list) /\ armed \in Nat \cup {Off} /\ adds \in 0..MaxAdd
  BY DEF TimersInv, TimersTypeOK, Entry, Distinct
<1>1. ASSUME NEW id \in Ids, Add(id) PROVE TimersInv'
  <2> DEFINE e == [id |-> id, left |-> Timeout[id] + 1]
  <2>2. e \in Entry /\ \A i \in DOMAIN list : list[i].id # e.id
    BY <1>1 DEF Add, InList, Entry
  <2>3. PICK k \in 0..Len(list) : list' = InsertAt(list, k + 1, e)
    BY <1>1 DEF Add
  <2> HIDE DEF e
  <2>4. list' \in Seq(Entry) /\ Distinct(list')
    <3>1. Len(list) \in Nat /\ k + 1 \in 1..(Len(list) + 1)
      BY <1>0
    <3> QED
      BY <1>0, <2>2, <2>3, <3>1, Inserted
  <2> QED
    BY <1>0, <1>1, <2>4, Rearmed DEF Add
<1>2. ASSUME NEW id \in Ids, Del(id) PROVE TimersInv'
  <2>1. list' \in Seq(Entry) /\ Distinct(list')
    <3>1. CASE InList(list, id)
      <4>1. Place(list, id) \in 1..Len(list)
        BY <1>0, <3>1 DEF Place, InList
      <4> QED
        BY <1>0, <1>2, <3>1, <4>1, Removed DEF Del, Without
    <3>2. CASE ~InList(list, id)
      BY <1>0, <1>2, <3>2 DEF Del, Without
    <3> QED BY <3>1, <3>2
  <2> QED
    BY <1>0, <1>2, <2>1, Rearmed DEF Del
<1>3. CASE Deinit
  BY <1>0, <1>3 DEF Deinit, TimersInv, TimersTypeOK, ArmedForFirst
<1>4. CASE PickDue
  <2>1. PICK n \in 0..Len(list) :
          /\ picked' = Reverse([i \in 1..n |-> list[i].id])
          /\ list' = SubSeq(list, n + 1, Len(list))
    BY <1>4 DEF PickDue
  <2>2. /\ list' \in Seq(Entry) /\ Len(list') = Len(list) - n
        /\ \A i \in 1..(Len(list) - n) : list'[i] = list[i + n]
    BY <1>0, <2>1, Rest
  <2>3. Distinct(list')
    <3>1. DOMAIN list = 1..Len(list) /\ DOMAIN list' = 1..(Len(list) - n) /\ Len(list) \in Nat
      BY <1>0, <2>2
    <3>2. ASSUME NEW i \in 1..(Len(list) - n), NEW j \in 1..(Len(list) - n),
                 list'[i].id = list'[j].id
          PROVE  i = j
      <4>1. i + n \in DOMAIN list /\ j + n \in DOMAIN list
        BY <3>1
      <4>2. list[i + n].id = list[j + n].id
        BY <2>2, <3>2
      <4>3. i + n = j + n
        BY <1>0, <4>1, <4>2 DEF Distinct
      <4> QED
        BY <3>1, <4>3
    <3> QED
      BY <3>1, <3>2 DEF Distinct
  <2>4. picked' \in Seq(Ids)
    <3> DEFINE ids == [i \in 1..n |-> list[i].id]
    <3>0. \A i \in 1..n : list[i].id \in Ids
      <4>1. \A i \in 1..Len(list) : list[i] \in Entry
        BY <1>0, ElementOfSeq
      <4> QED
        BY <1>0, <4>1 DEF Entry
    <3>1. ids \in [1..n -> Ids] /\ n \in Nat
      BY <3>0
    <3> HIDE DEF ids
    <3>2. ids \in Seq(Ids) /\ Len(ids) = n
      BY <3>1
    <3>3. \A i \in 1..n : ids[n - i + 1] \in Ids
      BY <3>1
    <3>4. Reverse(ids) \in [1..n -> Ids]
      BY <3>1, <3>2, <3>3 DEF Reverse
    <3> QED
      BY <2>1, <3>1, <3>4 DEF ids
  <2> QED
    BY <1>0, <1>4, <2>2, <2>3, <2>4 DEF PickDue, TimersInv, TimersTypeOK, ArmedForFirst, Entry, Distinct
<1>5. CASE CallBack
  BY <1>5 DEF CallBack, TimersInv, TimersTypeOK, ArmedForFirst
<1>6. CASE Rearm
  <2>1. /\ armed' \in Nat \cup {Off}
        /\ list' # <<>> => armed' = Head(list').left /\ Head(list').left \in Nat
    BY <1>0, <1>6, ArmForType DEF Rearm
  <2>2. ArmedForFirst'
    BY <2>1 DEF ArmedForFirst
  <2> QED
    BY <1>6, <2>1, <2>2 DEF Rearm, TimersInv, TimersTypeOK
<1>7. CASE Tick
  <2>0. \A i \in 1..Len(list) : list[i] \in Entry
    BY <1>0, ElementOfSeq
  <2>1. DOMAIN list = 1..Len(list)
    BY <1>0
  <2>a. list' = [i \in 1..Len(list) |->
                   [id |-> list[i].id,
                    left |-> IF list[i].left = 0 THEN 0 ELSE list[i].left - 1]]
    BY <1>7, <2>1 DEF Tick
  <2>2. ASSUME NEW i \in 1..Len(list)
        PROVE  /\ list'[i].id = list[i].id
               /\ list'[i].left = IF list[i].left = 0 THEN 0 ELSE list[i].left - 1
               /\ list'[i] \in Entry
    <3>1. list[i].id \in Ids /\ list[i].left \in Nat
      BY <2>0 DEF Entry
    <3>2. list'[i] = [id |-> list[i].id,
                      left |-> IF list[i].left = 0 THEN 0 ELSE list[i].left - 1]
      BY <2>a
    <3> QED
      BY <3>1, <3>2 DEF Entry
  <2>3. list' \in [1..Len(list) -> Entry]
    <3>1. list' = [i \in 1..Len(list) |-> list'[i]]
      BY <1>0, <1>7 DEF Tick
    <3> QED
      BY <2>2, <3>1
  <2>4. list' \in Seq(Entry) /\ Len(list') = Len(list) /\ Distinct(list')
    <3>1. list' \in Seq(Entry) /\ Len(list') = Len(list)
      BY <1>0, <2>3
    <3> QED
      BY <1>0, <2>2, <3>1 DEF Distinct
  <2>5. armed' \in Nat \cup {Off}
    BY <1>0, <1>7 DEF Tick
  <2>6. ASSUME list' # <<>>, ~softirq'
        PROVE  armed' # Off /\ armed' <= Head(list').left
    <3>1. Len(list) \in Nat \ {0} /\ list # <<>> /\ Head(list') = list'[1] /\ Head(list) = list[1]
      BY <1>0, <2>4, <2>6, FirstType, EmptySeq
    <3>2. armed \in Nat /\ armed # 0 /\ armed <= list[1].left /\ list[1].left \in Nat
      BY <1>0, <1>7, <3>1, FirstType DEF Tick, TimersInv, ArmedForFirst
    <3>3. list'[1].left = list[1].left - 1 /\ armed' = armed - 1
      BY <1>7, <2>2, <3>1, <3>2 DEF Tick
    <3> QED
      BY <3>1, <3>2, <3>3
  <2> QED
    BY <1>0, <1>7, <2>4, <2>5, <2>6 DEF Tick, TimersInv, TimersTypeOK, ArmedForFirst, Entry, Distinct
<1>8. CASE UNCHANGED timerVars
  BY <1>8 DEF timerVars, TimersInv, TimersTypeOK, ArmedForFirst
<1> QED
  BY <1>1, <1>2, <1>3, <1>4, <1>5, <1>6, <1>7, <1>8 DEF TimersNext

LEMMA TimersInvAlways == TimersSpec => []TimersInv
<1>1. TimersInit => TimersInv
  <2> SUFFICES ASSUME TimersInit PROVE TimersInv
    OBVIOUS
  <2>1. list \in Seq(Entry) /\ Len(list) = 0 /\ picked \in Seq(Ids)
    BY EmptySeq DEF TimersInit
  <2>2. DOMAIN list = {}
    BY <2>1
  <2>3. TimersTypeOK
    <3>1. \A i, j \in DOMAIN list : list[i].id = list[j].id => i = j
      BY <2>2
    <3>2. 0 \in 0..MaxAdd
      OBVIOUS
    <3> QED
      BY <2>1, <3>1, <3>2 DEF TimersInit, TimersTypeOK, Entry
  <2> QED
    BY <2>3 DEF TimersInit, TimersInv, ArmedForFirst
<1> QED
  BY <1>1, TimersInvNext, PTL DEF TimersSpec

\* The list holds each timer once, whatever is added, deleted and picked.
THEOREM TimersTypeCorrect == TimersSpec => []TimersTypeOK
<1>1. TimersInv => TimersTypeOK
  BY DEF TimersInv
<1> QED
  BY <1>1, TimersInvAlways, PTL

\* With any number of timers the kernel timer is set whenever the list has
\* entries, and for no later time than the first entry's.
THEOREM NeverStandsStill == TimersSpec => []ArmedForFirst
<1>1. TimersInv => ArmedForFirst
  BY DEF TimersInv
<1> QED
  BY <1>1, TimersInvAlways, PTL

\* A timer is late only behind a later one: the first entry is never late.
THEOREM LateBehindLater == TimersSpec => []LateOnlyBehindLater
<1>1. TimersInv => LateOnlyBehindLater
  <2> SUFFICES ASSUME TimersInv, NEW i \in DOMAIN list, IsDue(list[i].left), ~softirq, armed # 0
               PROVE  \E j \in 1..(i - 1) : ~IsDue(list[j].left)
    BY DEF LateOnlyBehindLater
  <2>1. list \in Seq(Entry) /\ list # <<>> /\ i \in 1..Len(list)
    BY DEF TimersInv, TimersTypeOK, Entry
  <2>2. Head(list) = list[1] /\ list[1].left \in Nat /\ armed \in Nat
    BY <2>1, FirstType DEF TimersInv, TimersTypeOK, ArmedForFirst
  <2>3. ~IsDue(list[1].left)
    BY <2>1, <2>2 DEF TimersInv, ArmedForFirst, IsDue
  <2>4. i # 1
    BY <2>3
  <2> QED
    BY <2>1, <2>3, <2>4
<1> QED
  BY <1>1, TimersInvAlways, PTL
-----------------------------------------------------------------------------
(* The list implements TimerSpec.                                          *)

\* What LeftOf says of a timer depends on the entry it has in the list alone.
LEMMA LeftIs ==
  ASSUME NEW l \in Seq(Entry), Distinct(l), NEW e \in Entries(l)
  PROVE  LeftOf(l, e.id) = e.left
<1>1. PICK i \in DOMAIN l : e = l[i]
  BY DEF Entries
<1>2. InList(l, e.id) /\ Place(l, e.id) \in DOMAIN l /\ l[Place(l, e.id)].id = e.id
  BY <1>1 DEF InList, Place
<1>3. Place(l, e.id) = i
  BY <1>1, <1>2 DEF Distinct
<1> QED
  BY <1>1, <1>2, <1>3 DEF LeftOf

LEMMA LeftNone ==
  ASSUME NEW l, NEW x, \A e \in Entries(l) : e.id # x
  PROVE  LeftOf(l, x) = Off
  BY DEF LeftOf, InList, Entries

\* Two lists that hold the same entry for a timer, or none, say the same of it.
LEMMA SameLeft ==
  ASSUME NEW l \in Seq(Entry), Distinct(l), NEW m \in Seq(Entry), Distinct(m), NEW x,
         \A e \in Entries(l) : e.id = x => e \in Entries(m),
         \A e \in Entries(m) : e.id = x => e \in Entries(l)
  PROVE  LeftOf(l, x) = LeftOf(m, x)
<1>1. CASE \E e \in Entries(l) : e.id = x
  BY <1>1, LeftIs
<1>2. CASE \A e \in Entries(l) : e.id # x
  <2>1. \A e \in Entries(m) : e.id # x
    BY <1>2
  <2> QED
    BY <1>2, <2>1, LeftNone
<1> QED
  BY <1>1, <1>2

\* The timers that are picked are different ones, and none is left over.
PickInv ==
  /\ ~softirq => picked = <<>>
  /\ \A i, j \in DOMAIN picked : picked[i] = picked[j] => i = j

\* What PickDue takes from the list.
LEMMA Picked ==
  ASSUME TimersInv, NEW n \in 0..Len(list),
         picked' = Reverse([i \in 1..n |-> list[i].id])
  PROVE  /\ \A i, j \in DOMAIN picked' : picked'[i] = picked'[j] => i = j
         /\ {picked'[i] : i \in DOMAIN picked'} = {list[i].id : i \in 1..n}
<1> DEFINE ids == [i \in 1..n |-> list[i].id]
<1>1. Len(list) \in Nat /\ DOMAIN list = 1..Len(list)
  BY DEF TimersInv, TimersTypeOK
<1>2. ids \in Seq({list[i].id : i \in 1..n}) /\ Len(ids) = n
  BY <1>1
<1>3. picked' = [i \in 1..n |-> list[n - i + 1].id]
  <2>1. \A i \in 1..n : n - i + 1 \in 1..n
    BY <1>1
  <2>2. picked' = [i \in 1..n |-> ids[n - i + 1]]
    BY <1>2 DEF Reverse
  <2> QED
    BY <2>1, <2>2
<1>4. ASSUME NEW i \in 1..n, NEW j \in 1..n, picked'[i] = picked'[j] PROVE i = j
  <2>1. n - i + 1 \in DOMAIN list /\ n - j + 1 \in DOMAIN list
    BY <1>1
  <2>2. n - i + 1 = n - j + 1
    BY <1>3, <1>4, <2>1 DEF TimersInv, TimersTypeOK
  <2> QED
    BY <1>1, <2>2
<1>5. ASSUME NEW i \in 1..n PROVE list[i].id \in {picked'[j] : j \in 1..n}
  <2>1. n - i + 1 \in 1..n /\ n - (n - i + 1) + 1 = i
    BY <1>1
  <2> QED
    BY <1>3, <2>1
<1>6. DOMAIN picked' = 1..n
  BY <1>3
<1>7. ASSUME NEW i \in 1..n PROVE picked'[i] \in {list[j].id : j \in 1..n}
  <2>1. n - i + 1 \in 1..n
    BY <1>1
  <2> QED
    BY <1>3, <2>1
<1>8. {picked'[i] : i \in 1..n} = {list[i].id : i \in 1..n}
  BY <1>5, <1>7
<1> QED
  BY <1>4, <1>6, <1>8

LEMMA PickNext == TimersInv /\ PickInv /\ [TimersNext]_timerVars => PickInv'
<1> SUFFICES ASSUME TimersInv, PickInv, [TimersNext]_timerVars PROVE PickInv'
  OBVIOUS
<1>1. CASE PickDue
  <2>1. PICK n \in 0..Len(list) : picked' = Reverse([i \in 1..n |-> list[i].id])
    BY <1>1 DEF PickDue
  <2> QED
    BY <1>1, <2>1, Picked DEF PickDue, PickInv
<1>2. CASE CallBack
  <2>1. picked \in Seq(Ids) /\ picked # <<>>
    BY <1>2 DEF CallBack, TimersInv, TimersTypeOK
  <2>2. /\ DOMAIN picked = 1..Len(picked) /\ Len(picked) \in Nat
        /\ DOMAIN picked' = 1..(Len(picked) - 1)
        /\ \A i \in 1..(Len(picked) - 1) : picked'[i] = picked[i + 1]
    BY <1>2, <2>1, HeadTailProperties DEF CallBack
  <2>3. ASSUME NEW i \in DOMAIN picked', NEW j \in DOMAIN picked', picked'[i] = picked'[j]
        PROVE  i = j
    <3>1. i + 1 \in DOMAIN picked /\ j + 1 \in DOMAIN picked /\ picked[i + 1] = picked[j + 1]
      BY <2>2, <2>3
    <3>2. i + 1 = j + 1
      BY <3>1 DEF PickInv
    <3> QED
      BY <2>2, <3>2
  <2> QED
    BY <1>2, <2>3 DEF CallBack, PickInv
<1>3. CASE \/ \E id \in Ids : Add(id) \/ Del(id)
           \/ Deinit \/ Rearm \/ Tick \/ UNCHANGED timerVars
  BY <1>3 DEF Add, Del, Deinit, Rearm, Tick, timerVars, PickInv
<1> QED
  BY <1>1, <1>2, <1>3 DEF TimersNext

pending == [id \in Ids |-> LeftOf(list, id)]
running == {picked[i] : i \in DOMAIN picked}

\* The timers of S go, the others stay.
LEMMA TakenOut ==
  ASSUME TimersInv, TimersInv', NEW S,
         \A e \in Entries(list) : e.id \notin S => e \in Entries(list'),
         \A e \in Entries(list') : e.id \notin S /\ e \in Entries(list)
  PROVE  pending' = [id \in Ids |-> IF id \in S THEN Off ELSE pending[id]]
<1>0. /\ list \in Seq(Entry) /\ Distinct(list)
      /\ list' \in Seq(Entry) /\ Distinct(list')
  BY DEF TimersInv, TimersTypeOK, Entry, Distinct
<1>1. ASSUME NEW id \in Ids, id \in S PROVE LeftOf(list', id) = Off
  BY <1>1, LeftNone
<1>2. ASSUME NEW id \in Ids, id \notin S PROVE LeftOf(list', id) = LeftOf(list, id)
  BY <1>0, <1>2, SameLeft
<1> QED
  BY <1>1, <1>2 DEF pending

LEMMA AddStep ==
  ASSUME TimersInv, TimersInv', NEW id \in Ids, Add(id)
  PROVE  pending[id] = Off /\ pending' = [pending EXCEPT ![id] = Timeout[id] + 1]
<1> DEFINE e == [id |-> id, left |-> Timeout[id] + 1]
<1>0. /\ list \in Seq(Entry) /\ Distinct(list)
      /\ list' \in Seq(Entry) /\ Distinct(list')
  BY DEF TimersInv, TimersTypeOK, Entry, Distinct
<1>1. e \in Entry /\ \A i \in DOMAIN list : list[i].id # e.id
  BY DEF Add, InList, Entry
<1>2. PICK k \in 0..Len(list) : list' = InsertAt(list, k + 1, e)
  BY DEF Add
<1>3. Entries(list') = Entries(list) \cup {e}
  <2>1. Len(list) \in Nat /\ k + 1 \in 1..(Len(list) + 1)
    BY <1>0
  <2> QED
    BY <1>0, <1>1, <1>2, <2>1, Inserted
<1>4. LeftOf(list, id) = Off
  BY DEF Add, LeftOf
<1>5. LeftOf(list', id) = Timeout[id] + 1
  <2>1. LeftOf(list', e.id) = e.left
    BY <1>0, <1>3, LeftIs
  <2> QED
    BY <2>1
<1>6. ASSUME NEW x \in Ids, x # id PROVE LeftOf(list', x) = LeftOf(list, x)
  <2>1. e.id # x
    BY <1>6
  <2> QED
    BY <1>0, <1>3, <2>1, SameLeft
<1> QED
  BY <1>4, <1>5, <1>6 DEF pending

LEMMA DelStep ==
  ASSUME TimersInv, TimersInv', NEW id \in Ids, Del(id)
  PROVE  pending' = [x \in Ids |-> IF x \in {id} THEN Off ELSE pending[x]]
<1>0. list \in Seq(Entry) /\ Distinct(list)
  BY DEF TimersInv, TimersTypeOK, Entry, Distinct
<1>1. CASE InList(list, id)
  <2>1. /\ Place(list, id) \in 1..Len(list)
        /\ list[Place(list, id)].id = id
    BY <1>0, <1>1 DEF Place, InList
  <2>2. Entries(list') = Entries(list) \ {list[Place(list, id)]}
    BY <1>0, <1>1, <2>1, Removed DEF Del, Without
  <2>3. \A e \in Entries(list) : e.id = id => e = list[Place(list, id)]
    BY <1>0, <2>1 DEF Entries, Distinct
  <2> QED
    BY <2>1, <2>2, <2>3, TakenOut
<1>2. CASE ~InList(list, id)
  <2>1. Entries(list') = Entries(list) /\ \A e \in Entries(list) : e.id # id
    BY <1>2 DEF Del, Without, InList, Entries
  <2> QED
    BY <2>1, TakenOut
<1> QED
  BY <1>1, <1>2

LEMMA PickStep ==
  ASSUME TimersInv, TimersInv', NEW n \in 0..Len(list), \A i \in 1..n : IsDue(list[i].left),
         list' = SubSeq(list, n + 1, Len(list))
  PROVE  LET S == {list[i].id : i \in 1..n}
         IN  /\ \A id \in S : id \in Ids /\ pending[id] = 0
             /\ pending' = [id \in Ids |-> IF id \in S THEN Off ELSE pending[id]]
<1> DEFINE S == {list[i].id : i \in 1..n}
<1>0. /\ list \in Seq(Entry) /\ Distinct(list) /\ Len(list) \in Nat
      /\ DOMAIN list = 1..Len(list)
  BY DEF TimersInv, TimersTypeOK, Entry, Distinct
<1>1. ASSUME NEW i \in 1..n PROVE list[i].id \in Ids /\ pending[list[i].id] = 0
  <2>0. i \in 1..Len(list) /\ list[i] \in Entry
    BY <1>0, ElementOfSeq
  <2>1. list[i] \in Entries(list) /\ list[i].id \in Ids /\ list[i].left = 0
    BY <1>0, <2>0 DEF Entries, Entry, IsDue
  <2>2. LeftOf(list, list[i].id) = list[i].left
    BY <1>0, <2>1, LeftIs
  <2> QED
    BY <2>1, <2>2 DEF pending
<1>2. /\ DOMAIN list' = 1..(Len(list) - n)
      /\ \A i \in 1..(Len(list) - n) : list'[i] = list[i + n]
  BY <1>0, Rest
<1>3. ASSUME NEW e \in Entries(list), e.id \notin S PROVE e \in Entries(list')
  <2>1. PICK i \in DOMAIN list : e = list[i]
    BY DEF Entries
  <2>2. i - n \in DOMAIN list' /\ list'[i - n] = list[i - n + n] /\ i - n + n = i
    BY <1>0, <1>2, <1>3, <2>1
  <2> QED
    BY <2>1, <2>2 DEF Entries
<1>4. ASSUME NEW e \in Entries(list') PROVE e.id \notin S /\ e \in Entries(list)
  <2>1. PICK i \in DOMAIN list' : e = list'[i]
    BY DEF Entries
  <2>2. i + n \in DOMAIN list /\ e = list[i + n] /\ i + n \notin 1..n
    BY <1>0, <1>2, <2>1
  <2>3. ASSUME NEW j \in 1..n PROVE list[j].id # e.id
    <3>1. j \in DOMAIN list /\ i + n # j
      BY <1>0, <2>2
    <3> QED
      BY <1>0, <2>2, <3>1 DEF Distinct
  <2> QED
    BY <2>2, <2>3 DEF Entries
<1>5. pending' = [id \in Ids |-> IF id \in S THEN Off ELSE pending[id]]
  <2> HIDE DEF S
  <2> QED
    BY <1>3, <1>4, TakenOut
<1> QED
  BY <1>1, <1>5

LEMMA TickStep ==
  ASSUME TimersInv, TimersInv', Tick
  PROVE  pending' = [id \in Ids |-> IF pending[id] \in Nat \ {0}
                                    THEN pending[id] - 1 ELSE pending[id]]
<1>0. /\ list \in Seq(Entry) /\ Distinct(list) /\ DOMAIN list = 1..Len(list)
      /\ list' \in Seq(Entry) /\ Distinct(list')
  BY DEF TimersInv, TimersTypeOK, Entry, Distinct
<1>1. /\ DOMAIN list' = DOMAIN list
      /\ \A i \in DOMAIN list :
           /\ list'[i].id = list[i].id
           /\ list'[i].left = IF list[i].left = 0 THEN 0 ELSE list[i].left - 1
  BY DEF Tick
<1>2. ASSUME NEW id \in Ids
      PROVE  LeftOf(list', id) = IF LeftOf(list, id) \in Nat \ {0}
                                 THEN LeftOf(list, id) - 1 ELSE LeftOf(list, id)
  <2>1. CASE InList(list, id)
    <3>1. PICK i \in DOMAIN list : list[i].id = id
      BY <2>1 DEF InList
    <3>2. list[i] \in Entries(list) /\ list'[i] \in Entries(list') /\ list'[i].id = id
      BY <1>1, <3>1 DEF Entries
    <3>3. LeftOf(list, list[i].id) = list[i].left /\ LeftOf(list', list'[i].id) = list'[i].left
      BY <1>0, <3>2, LeftIs
    <3>4. list[i] \in Entry
      BY <1>0, ElementOfSeq
    <3>5. list[i].left \in Nat
      BY <3>4 DEF Entry
    <3> QED
      BY <1>1, <3>1, <3>2, <3>3, <3>5
  <2>2. CASE ~InList(list, id)
    BY <1>1, <2>2 DEF InList, LeftOf
  <2> QED
    BY <2>1, <2>2
<1> QED
  BY <1>2 DEF pending

\* Every step is a step of TimerSpec, or leaves what it sees as it is.
LEMMA StepImplements ==
  TimersInv /\ TimersInv' /\ PickInv /\ [TimersNext]_timerVars => [Abstract!Next]_<<pending, running>>
<1> SUFFICES ASSUME TimersInv, TimersInv', PickInv, [TimersNext]_timerVars
             PROVE  Abstract!Next \/ UNCHANGED <<pending, running>>
  BY DEF Abstract!Next
<1>1. ASSUME NEW id \in Ids, Add(id) PROVE Abstract!Add(id)
  BY <1>1, AddStep DEF Abstract!Add, Add, pending, running
<1>2. ASSUME NEW id \in Ids, Del(id) PROVE Abstract!Del({id})
  <2>1. running' = running
    BY <1>2 DEF Del, running
  <2> QED
    BY <1>2, <2>1, DelStep DEF Abstract!Del, Abstract!Cleared, pending, running
<1>3. CASE Deinit
  <2>1. \A id \in Ids : LeftOf(list', id) = Off
    BY <1>3 DEF Deinit, LeftOf, InList
  <2>2. pending' = [id \in Ids |-> IF id \in Ids THEN Off ELSE pending[id]] /\ running' = running
    BY <1>3, <2>1 DEF Deinit, pending, running
  <2> QED
    BY <2>2 DEF Abstract!Next, Abstract!Del, Abstract!Cleared, pending, running
<1>4. CASE PickDue
  <2>1. PICK n \in 0..Len(list) :
          /\ \A i \in 1..n : IsDue(list[i].left)
          /\ picked' = Reverse([i \in 1..n |-> list[i].id])
          /\ list' = SubSeq(list, n + 1, Len(list))
    BY <1>4 DEF PickDue
  <2> DEFINE S == {list[i].id : i \in 1..n}
  <2>2. /\ \A id \in S : id \in Ids /\ pending[id] = 0
        /\ pending' = [id \in Ids |-> IF id \in S THEN Off ELSE pending[id]]
    BY <2>1, PickStep
  <2>3. running' = S
    BY <2>1, Picked DEF running
  <2>4. running = {}
    BY <1>4 DEF PickDue, PickInv, running
  <2> HIDE DEF S
  <2>5. CASE S = {}
    <3>1. pending' = pending
      BY <2>2, <2>5 DEF pending
    <3> QED
      BY <2>3, <2>4, <2>5, <3>1
  <2>6. CASE S # {}
    <3>1. S \in SUBSET Ids
      BY <2>2
    <3>2. \E T \in SUBSET Ids : Abstract!Expire(T)
      BY <2>2, <2>3, <2>4, <2>6, <3>1
      DEF Abstract!Expire, Abstract!Cleared, Abstract!Due, pending, running
    <3> QED
      BY <3>2 DEF Abstract!Next
  <2> QED
    BY <2>5, <2>6
<1>5. CASE CallBack
  <2>1. picked \in Seq(Ids) /\ picked # <<>>
    BY <1>5 DEF CallBack, TimersInv, TimersTypeOK
  <2>2. /\ Len(picked) \in Nat \ {0} /\ DOMAIN picked = 1..Len(picked)
        /\ DOMAIN picked' = 1..(Len(picked) - 1)
        /\ \A i \in 1..(Len(picked) - 1) : picked'[i] = picked[i + 1]
    BY <1>5, <2>1, HeadTailProperties, EmptySeq DEF CallBack
  <2>3. 1 \in DOMAIN picked /\ picked[1] \in Ids
    BY <2>1, <2>2, ElementOfSeq
  <2>4. ASSUME NEW i \in DOMAIN picked'
        PROVE  picked'[i] \in running /\ picked'[i] # picked[1]
    <3>1. i + 1 \in DOMAIN picked /\ i + 1 # 1 /\ picked'[i] = picked[i + 1]
      BY <2>2
    <3> QED
      BY <2>3, <3>1 DEF running, PickInv
  <2>5. ASSUME NEW i \in DOMAIN picked, picked[i] # picked[1] PROVE picked[i] \in running'
    <3>1. i - 1 \in DOMAIN picked' /\ picked'[i - 1] = picked[i - 1 + 1] /\ i - 1 + 1 = i
      BY <2>2, <2>5
    <3> QED
      BY <3>1 DEF running
  <2>6. running' = running \ {picked[1]} /\ picked[1] \in running
    BY <2>3, <2>4, <2>5 DEF running
  <2>7. pending' = pending
    BY <1>5 DEF CallBack, pending
  <2>8. \E id \in Ids : Abstract!CallBack(id)
    BY <2>3, <2>6, <2>7 DEF Abstract!CallBack, pending, running
  <2> QED
    BY <2>8 DEF Abstract!Next
<1>6. CASE Rearm \/ UNCHANGED timerVars
  BY <1>6 DEF Rearm, timerVars, pending, running
<1>7. CASE Tick
  <2>1. running = {} /\ running' = running
    BY <1>7 DEF Tick, PickInv, running
  <2> QED
    BY <1>7, <2>1, TickStep DEF Abstract!Next, Abstract!Tick, pending, running
<1>8. ASSUME NEW id \in Ids, Del(id) PROVE Abstract!Next
  BY <1>2, <1>8 DEF Abstract!Next
<1> QED
  BY <1>1, <1>3, <1>4, <1>5, <1>6, <1>7, <1>8 DEF TimersNext, Abstract!Next

\* The list of skw_timer.c and its one kernel timer are timers as TimerSpec
\* describes them, whatever the ids and time limits: each runs once, never
\* early and never after it was deleted before it was picked.
THEOREM Implements == TimersSpec => Abstract!Spec
<1>1. TimersInit => Abstract!Init /\ PickInv
  BY DEF TimersInit, Abstract!Init, PickInv, LeftOf, InList
<1>2. TimersInv /\ PickInv /\ [TimersNext]_timerVars => PickInv'
  BY PickNext
<1>3. TimersInv /\ TimersInv' /\ PickInv /\ [TimersNext]_timerVars
      => [Abstract!Next]_<<[id \in Ids |-> LeftOf(list, id)],
                           {picked[i] : i \in DOMAIN picked}>>
  BY StepImplements DEF pending, running
<1> QED
  BY <1>1, <1>2, <1>3, TimersInvAlways, PTL DEF TimersSpec, Abstract!Spec
=============================================================================
