------------------------ MODULE ManagedProcess_proofs ------------------------
(***************************************************************************)
(* Theorems about ManagedProcess for every group of processes, every set   *)
(* of callers and streams and every request.                               *)
(*                                                                         *)
(* The invariants of interest are not inductive: what wait() may conclude  *)
(* once cmd.Wait has returned rests on what the operating system, the      *)
(* copiers and the other goroutine can no longer do then.  Inv adds that.  *)
(***************************************************************************)
EXTENDS ManagedProcess, TLAPS

(* What every signal and every exit does to the group: members end, stop   *)
(* or continue, but none is born and none comes back.                      *)
GroupMoves ==
  /\ os' \in [Members -> MemberStates]
  /\ doomed' \subseteq Members
  /\ status' \in Statuses \cup {"none"}
  /\ \A m \in Members : os[m] \in {"unborn", "gone"} => os'[m] = os[m]
  /\ \A m \in Members : os[m] # "unborn" => os'[m] # "unborn"
  /\ \A m \in doomed' : os'[m] = "stopped"
  /\ os'[Leader] = "gone" => status' \in Statuses

(* Pending signals are those of stopped members; nobody is born before the *)
(* leader; an ended leader has left a status; only members that were born  *)
(* hold a pipe; and once a copier is at the end of its stream nobody holds *)
(* that one, nor can ever again.                                           *)
GroupInv ==
  /\ \A m \in doomed : os[m] = "stopped"
  /\ os[Leader] = "gone" => status \in Statuses
  /\ os[Leader] = "unborn" => \A m \in Members : os[m] = "unborn"
  /\ \A s \in Streams, m \in Members : m \in holders[s] => os[m] # "unborn"
  /\ \A s \in Streams : copier[s] = "eof" =>
       os[Leader] # "unborn" /\ Holding(s) = {} /\ pipe[s] = 0

(* The goroutines exist exactly from the launch on, the leader from Spawn. *)
StartInv ==
  /\ os[Leader] = "unborn" <=> startPc \in {"checking", "checked", "failed"}
  /\ waitPc = "off" <=> startPc # "ready"
  /\ monitorPc = "off" <=> startPc # "ready"

Reaped == waitPc \notin {"off", "reap"}

(* wait() has, at each of its steps, what its earlier steps have done. *)
WaitInv ==
  /\ Reaped => os[Leader] = "gone" /\ \A s \in Streams : copier[s] = "eof"
  /\ waitPc \in {"off", "reap", "load"} => result = NoResult
  /\ waitPc \notin {"off", "reap", "load"} => result \in Outcomes
  /\ waitPc \notin {"off", "reap", "load", "settle"} => ~running /\ ~paused
  /\ waitPc \notin {"off", "reap", "load", "settle", "leave"} => ~inGroup
  /\ waitPc \in {"emit", "finish", "over"} => stdin = "nil"
  /\ \A i \in 1..Len(log) : log[i] = "exited" => waitPc \in {"finish", "over"}

TimeoutInv ==
  /\ timer \in {"armed", "expired"} => req.timeout
  /\ monitorPc \in {"mark", "kill"} => timer = "expired"
  /\ timedOut => timer = "expired"
  /\ monitorPc = "kill" => timedOut
  /\ overran # {} => timedOut
  /\ (result # NoResult /\ overran # {}) => result.timedOut
  /\ verdict = "timeout" => req.timeout

MonitorInv ==
  /\ monitorPc = "asked" => base = "cancelled"
  /\ detachedFirst => detached
  /\ verdict = "base" => base = "cancelled" /\ ~detachedFirst
  /\ \A c \in Callers : callPc[c] = "cancel" => fatal
  /\ (controlled /\ startPc # "failed") => fatal
  /\ verdict = "control" => fatal

CallInv ==
  \A c \in Callers : callPc[c] # "idle" =>
    /\ calls[c] > 0
    /\ call[c] \in Calls
    /\ callPc[c] # "waiting" => call[c] # "wait"

-----------------------------------------------------------------------------
LEMMA InitTypes == Init => TypeOK
<1> SUFFICES ASSUME Init PROVE TypeOK
  OBVIOUS
<1>1. req \in RequestSet
  BY RequestsAssumption DEF Init
<1>2. req.detached \in BOOLEAN /\ req.timeout \in BOOLEAN
  BY <1>1 DEF RequestSet
<1>3. running \in BOOLEAN /\ paused \in BOOLEAN /\ detached \in BOOLEAN
  BY <1>2 DEF Init
<1>4. result \in Outcomes \cup {NoResult}
  BY DEF Init
<1>5. log \in Seq(Kinds)
  BY DEF Init
<1>6. /\ base \in BaseStates
      /\ timer \in TimerStates
      /\ stdin \in StdinStates
  BY DEF Init, BaseStates, TimerStates, StdinStates
<1>7. /\ req \in Requests /\ controlled \in BOOLEAN /\ baseWatched \in BOOLEAN
      /\ timedOut \in BOOLEAN /\ inGroup \in BOOLEAN /\ detachedFirst \in BOOLEAN
  BY DEF Init
<1>8. /\ os \in [Members -> MemberStates]
      /\ deaf \subseteq Members /\ doomed \subseteq Members
      /\ status \in Statuses \cup {"none"} /\ overran \subseteq Members
  BY DEF Init, MemberStates
<1>12. holders \in [Streams -> SUBSET Members] /\ fatal \in BOOLEAN
  BY DEF Init
<1>9. /\ pipe \in [Streams -> Nat] /\ written \in [Streams -> 0..MaxChunks]
      /\ copier \in [Streams -> CopierPcs]
  BY BoundsAssumption DEF Init, CopierPcs
<1>10. /\ callPc \in [Callers -> CallPcs]
       /\ call \in [Callers -> Calls \cup {"none"}]
       /\ calls \in [Callers -> Nat]
  BY BoundsAssumption DEF Init, CallPcs
<1>11. startPc \in StartPcs /\ monitorPc \in MonitorPcs /\ waitPc \in WaitPcs
       /\ verdict \in Verdicts
  BY DEF Init, StartPcs, MonitorPcs, WaitPcs, Verdicts
<1> QED
  BY <1>3, <1>4, <1>5, <1>6, <1>7, <1>8, <1>9, <1>10, <1>11, <1>12 DEF TypeOK

(* Deliver and ExitByItself are moves of the group. *)
LEMMA DeliverMoves ==
  ASSUME TypeOK, GroupInv, NEW signal \in Signals, Deliver(signal)
  PROVE  GroupMoves
<1> USE LeaderAssumption DEF TypeOK, GroupInv, GroupMoves, Statuses, MemberStates
<1>1. CASE Killed
  BY <1>1 DEF Killed, Perish, Alive
<1>2. CASE Stopped
  BY <1>2 DEF Stopped, Alive
<1>3. CASE Continued
  BY <1>3 DEF Continued, Alive
<1>4. CASE Asked
  BY <1>4 DEF Asked, Alive, Obedient
<1> QED BY <1>1, <1>2, <1>3, <1>4 DEF Deliver

LEMMA ExitMoves ==
  ASSUME TypeOK, GroupInv, NEW m \in Members, ExitByItself(m)
  PROVE  GroupMoves
BY LeaderAssumption
   DEF TypeOK, GroupInv, GroupMoves, ExitByItself, Perish, Statuses, MemberStates

(* Every call that reports an event has one. *)
LEMMA EventOfCall ==
  ASSUME NEW op \in Calls \ {"wait"}
  PROVE  EventOf(op) \in ControlEvents
BY DEF EventOf, ControlEvents, Calls, Signals, Polite

LEMMA TypeStep ==
  ASSUME TypeOK, GroupInv, WaitInv, CallInv, [Next]_vars
  PROVE  TypeOK'
<1> USE LeaderAssumption
    DEF TypeOK, contexts, system, callers, monitor, info, record
<1>1. CASE StartStep
  <2>1. CASE StartChecked BY <2>1 DEF StartChecked, StartPcs
  <2>2. CASE StartFails BY <2>2 DEF StartFails, StartPcs, TimerStates
  <2>3. CASE Spawn BY <2>3 DEF Spawn, StartPcs, MemberStates
  <2>4. CASE Register
    <3>1. req.group \in BOOLEAN
      BY RequestsAssumption DEF RequestSet
    <3> QED BY <2>4, <3>1 DEF Register, StartPcs
  <2>5. CASE Announce
    <3>1. Append(log, "started") \in Seq(Kinds)
      BY DEF Kinds
    <3> QED BY <2>5, <3>1 DEF Announce, StartPcs
  <2>6. CASE Launch BY <2>6 DEF Launch, StartPcs, MonitorPcs, WaitPcs
  <2>7. StartChecked \/ StartFails \/ Spawn \/ Register \/ Announce \/ Launch
    BY <1>1 DEF StartStep
  <2> HIDE DEF TypeOK
  <2> QED BY <2>1, <2>2, <2>3, <2>4, <2>5, <2>6, <2>7
<1>2. CASE MonitorStep
  <2>0. /\ {"exited", "terminate", "mark"} \subseteq MonitorPcs
        /\ {"done", "control", "timer released", "timeout"} \subseteq Verdicts
    BY DEF MonitorPcs, Verdicts
  <2>1. CASE MonitorSeesDone
    <3>1. monitorPc' \in MonitorPcs /\ verdict' \in Verdicts
      BY <2>0, <2>1 DEF MonitorSeesDone, MonitorLeaves
    <3> QED BY <2>1, <3>1 DEF MonitorSeesDone, MonitorLeaves
  <2>2. CASE MonitorSeesControl
    <3>1. monitorPc' \in MonitorPcs /\ verdict' \in Verdicts
      BY <2>0, <2>2 DEF MonitorSeesControl
    <3> QED BY <2>2, <3>1 DEF MonitorSeesControl
  <2>3. CASE MonitorSeesTimerReleased
    <3>1. monitorPc' \in MonitorPcs /\ verdict' \in Verdicts
      BY <2>0, <2>3 DEF MonitorSeesTimerReleased, MonitorLeaves
    <3>2. UNCHANGED <<req, contexts, system, callers, baseWatched, timedOut, record,
                      startPc, waitPc, log, detachedFirst>>
      BY <2>3 DEF MonitorSeesTimerReleased, MonitorLeaves
    <3> QED BY <3>1, <3>2
  <2>4. CASE MonitorSeesDeadline
    <3>1. monitorPc' \in MonitorPcs /\ verdict' \in Verdicts
      BY <2>0, <2>4 DEF MonitorSeesDeadline
    <3> QED BY <2>4, <3>1 DEF MonitorSeesDeadline
  <2>5. CASE MonitorMarksTimeout BY <2>5 DEF MonitorMarksTimeout, MonitorPcs
  <2>6. CASE MonitorKills
    <3>1. GroupMoves
      BY <2>6, DeliverMoves DEF MonitorKills, Signals
    <3> QED BY <2>6, <3>1 DEF MonitorKills, GroupMoves, Deliver, Alive, Awaited, MonitorPcs
  <2>7. CASE MonitorSeesBase BY <2>7 DEF MonitorSeesBase, MonitorPcs
  <2>8. CASE MonitorAsksDetached
    <3>1. /\ monitorPc' \in MonitorPcs /\ verdict' \in Verdicts
          /\ baseWatched' \in BOOLEAN
      BY <2>8 DEF MonitorAsksDetached, MonitorPcs, Verdicts
    <3> QED BY <2>8, <3>1 DEF MonitorAsksDetached
  <2>9. CASE MonitorTerminates
    <3>1. GroupMoves
      BY <2>9, DeliverMoves DEF MonitorTerminates, Signals, Polite
    <3> QED BY <2>9, <3>1 DEF MonitorTerminates, GroupMoves, Deliver, MonitorPcs
  <2> QED BY <1>2, <2>1, <2>2, <2>3, <2>4, <2>5, <2>6, <2>7, <2>8, <2>9 DEF MonitorStep
<1>3. CASE WaitStep
  <2>1. CASE Reap BY <2>1 DEF Reap, WaitPcs, StdinStates
  <2>2. CASE LoadResult
    <3>1. status \in Statuses
      BY <2>2 DEF LoadResult, WaitInv, Reaped, GroupInv
    <3>2. result' \in Outcomes
      BY <2>2, <3>1 DEF LoadResult, Outcomes
    <3> QED BY <2>2, <3>2 DEF LoadResult, WaitPcs
  <2>3. CASE SettleInfo BY <2>3 DEF SettleInfo, WaitPcs
  <2>4. CASE LeaveGroup
    <3>1. waitPc' \in WaitPcs /\ inGroup' \in BOOLEAN
      BY <2>4 DEF LeaveGroup, WaitPcs
    <3> QED BY <2>4, <3>1 DEF LeaveGroup
  <2>5. CASE ReleaseTimer
    <3>1. waitPc' \in WaitPcs /\ timer' \in TimerStates
      BY <2>5 DEF ReleaseTimer, WaitPcs, TimerStates
    <3> QED BY <2>5, <3>1 DEF ReleaseTimer
  <2>6. CASE CloseStdin BY <2>6 DEF CloseStdin, WaitPcs, StdinStates
  <2>7. CASE EmitExited
    <3>1. Append(log, "exited") \in Seq(Kinds)
      BY DEF Kinds
    <3> QED BY <2>7, <3>1 DEF EmitExited, WaitPcs
  <2>8. CASE Finish BY <2>8 DEF Finish, WaitPcs
  <2> QED BY <1>3, <2>1, <2>2, <2>3, <2>4, <2>5, <2>6, <2>7, <2>8 DEF WaitStep
<1>4. CASE CancelBase BY <1>4 DEF CancelBase, BaseStates
<1>5. CASE DeadlinePasses BY <1>5 DEF DeadlinePasses, TimerStates
<1>6. ASSUME NEW s \in Streams, CopierStep(s) PROVE TypeOK'
  <2>1. CASE CopyChunk(s) BY <2>1 DEF CopyChunk, CopierPcs
  <2>2. CASE EmitOutput(s)
    <3>1. Append(log, "output") \in Seq(Kinds)
      BY DEF Kinds
    <3> QED BY <2>2, <3>1 DEF EmitOutput, CopierPcs
  <2>3. CASE CopierEnds(s) BY <2>3 DEF CopierEnds, CopierPcs
  <2> QED BY <1>6, <2>1, <2>2, <2>3 DEF CopierStep
<1>7. ASSUME NEW p \in Members, NEW m \in Members, Fork(p, m) PROVE TypeOK'
  <2>1. holders' \in [Streams -> SUBSET Members]
    BY <1>7 DEF Fork
  <2> QED BY <1>7, <2>1 DEF Fork, MemberStates
<1>20. ASSUME NEW m \in Members, NEW s \in Streams, LetGo(m, s) PROVE TypeOK'
  BY <1>20 DEF LetGo
<1>8. ASSUME NEW m \in Members, ExitByItself(m) PROVE TypeOK'
  <2>1. GroupMoves
    BY <1>8, ExitMoves
  <2> QED BY <1>8, <2>1 DEF ExitByItself, GroupMoves
<1>9. ASSUME NEW m \in Members, NEW s \in Streams, WriteChunk(m, s) PROVE TypeOK'
  BY <1>9, BoundsAssumption DEF WriteChunk
<1>10. ASSUME NEW c \in Callers, NEW signal \in Signals, Signal(c, signal) PROVE TypeOK'
  <2>1. GroupMoves
    BY <1>10, DeliverMoves DEF Signal
  <2>2. /\ calls' \in [Callers -> Nat]
        /\ call' \in [Callers -> Calls \cup {"none"}]
        /\ callPc' \in [Callers -> CallPcs]
    BY <1>10 DEF Signal, Calling, MayCall, CallPcs, Calls
  <2>9. fatal' \in BOOLEAN
    BY <1>10 DEF Signal, Calling
  <2> QED BY <1>10, <2>9, <2>1, <2>2 DEF Signal, GroupMoves, Deliver
<1>11. ASSUME NEW c \in Callers, Detach(c) PROVE TypeOK'
  <2>1. /\ calls' \in [Callers -> Nat]
        /\ call' \in [Callers -> Calls \cup {"none"}]
        /\ callPc' \in [Callers -> CallPcs]
    BY <1>11 DEF Detach, Calling, MayCall, CallPcs, Calls
  <2>2. running' \in BOOLEAN /\ paused' \in BOOLEAN /\ detached' \in BOOLEAN
    BY <1>11 DEF Detach
  <2>3. detachedFirst' \in BOOLEAN
    BY <1>11 DEF Detach
  <2>4. fatal' \in BOOLEAN
    BY <1>11 DEF Detach, Calling
  <2> QED BY <1>11, <2>1, <2>2, <2>3, <2>4 DEF Detach
<1>12. ASSUME NEW c \in Callers, CloseInput(c) PROVE TypeOK'
  <2>1. /\ calls' \in [Callers -> Nat]
        /\ call' \in [Callers -> Calls \cup {"none"}]
        /\ callPc' \in [Callers -> CallPcs]
    BY <1>12 DEF CloseInput, Calling, MayCall, CallPcs, Calls
  <2>9. fatal' \in BOOLEAN
    BY <1>12 DEF CloseInput, Calling
  <2> QED BY <1>12, <2>9, <2>1 DEF CloseInput, StdinStates
<1>19. ASSUME NEW c \in Callers, CloseInputFails(c) PROVE TypeOK'
  <2>1. calls' \in [Callers -> Nat]
    BY <1>19 DEF CloseInputFails
  <2> QED BY <1>19, <2>1 DEF CloseInputFails, StdinStates
<1>13. ASSUME NEW c \in Callers, Wait(c) PROVE TypeOK'
  <2>1. /\ calls' \in [Callers -> Nat]
        /\ call' \in [Callers -> Calls \cup {"none"}]
        /\ callPc' \in [Callers -> CallPcs]
    BY <1>13 DEF Wait, Calling, MayCall, CallPcs, Calls
  <2>9. fatal' \in BOOLEAN
    BY <1>13 DEF Wait, Calling
  <2> QED BY <1>13, <2>9, <2>1 DEF Wait
<1>14. ASSUME NEW c \in Callers, LeaveWait(c) PROVE TypeOK'
  BY <1>14 DEF LeaveWait, Returned, CallPcs
<1>15. ASSUME NEW c \in Callers, CancelControl(c) PROVE TypeOK'
  BY <1>15 DEF CancelControl, CallPcs
<1>16. ASSUME NEW c \in Callers, RecordPaused(c) PROVE TypeOK'
  <2>1. (running /\ call[c] = "pause") \in BOOLEAN
    OBVIOUS
  <2>2. running' \in BOOLEAN /\ paused' \in BOOLEAN /\ detached' \in BOOLEAN
    BY <1>16, <2>1 DEF RecordPaused, CallPcs
  <2> QED BY <1>16, <2>2 DEF RecordPaused, CallPcs
<1>17. ASSUME NEW c \in Callers, EmitCall(c) PROVE TypeOK'
  <2>1. call[c] \in Calls \ {"wait"}
    BY <1>17 DEF EmitCall, CallInv
  <2>2. EventOf(call[c]) \in Kinds
    BY <2>1, EventOfCall DEF Kinds
  <2>3. log' \in Seq(Kinds)
    BY <1>17, <2>2 DEF EmitCall
  <2> QED BY <1>17, <2>3 DEF EmitCall, Returned, CallPcs
<1>18. CASE UNCHANGED vars
  BY <1>18 DEF vars
<1> QED
  BY <1>1, <1>2, <1>3, <1>4, <1>5, <1>6, <1>7, <1>8, <1>9, <1>10, <1>11, <1>12,
     <1>13, <1>14, <1>15, <1>16, <1>17, <1>18, <1>19, <1>20
     DEF Next, CallStep, WaitAnswers, WaitGivesUp

-----------------------------------------------------------------------------
Inv ==
  /\ TypeOK
  /\ StartInv
  /\ GroupInv
  /\ WaitInv
  /\ TimeoutInv
  /\ MonitorInv
  /\ CallInv

(* A move of the group never adds to those alive. *)
LEMMA GroupShrinks ==
  ASSUME TypeOK, GroupInv, GroupMoves, UNCHANGED <<holders, copier, pipe>>
  PROVE  /\ GroupInv'
         /\ Alive' \subseteq Alive
         /\ os[Leader] = "gone" => os'[Leader] = "gone"
         /\ os'[Leader] = "unborn" <=> os[Leader] = "unborn"
<1> USE LeaderAssumption
<1>1. /\ Alive' \subseteq Alive
      /\ os[Leader] = "gone" => os'[Leader] = "gone"
      /\ os'[Leader] = "unborn" <=> os[Leader] = "unborn"
  BY DEF TypeOK, GroupMoves, Alive, MemberStates
<1>2. \A s \in Streams : Holding(s)' \subseteq Holding(s)
  BY <1>1 DEF Holding
<1>3. GroupInv'
  BY <1>1, <1>2 DEF GroupInv, GroupMoves
<1> QED BY <1>1, <1>3

(* A call that begins keeps the calls in order, has been counted, and is   *)
(* on record if it is a fatal one.                                         *)
LEMMA CallingCalls ==
  ASSUME TypeOK, CallInv, MonitorInv,
         NEW c \in Callers, NEW op \in Calls, NEW next \in CallPcs,
         next # "waiting" => op # "wait", next = "cancel" => op \in FatalSignals,
         Calling(c, op, next)
  PROVE  /\ CallInv'
         /\ fatal => fatal'
         /\ \A d \in Callers : callPc'[d] = "cancel" => fatal'
<1>1. \A d \in Callers : /\ calls'[d] = IF d = c THEN calls[d] + 1 ELSE calls[d]
                         /\ call'[d] = IF d = c THEN op ELSE call[d]
                         /\ callPc'[d] = IF d = c THEN next ELSE callPc[d]
  BY DEF Calling, MayCall, TypeOK
<1>2. \A d \in Callers : calls[d] \in Nat
  BY BoundsAssumption DEF TypeOK
<1>3. (fatal => fatal') /\ (op \in FatalSignals => fatal')
  BY DEF Calling
<1>4. CallInv'
  BY <1>1, <1>2 DEF CallInv
<1>5. \A d \in Callers : callPc'[d] = "cancel" => fatal'
  BY <1>1, <1>3 DEF MonitorInv
<1> QED BY <1>3, <1>4, <1>5

LEMMA InvInit == Init => Inv
<1> SUFFICES ASSUME Init PROVE Inv
  OBVIOUS
<1>1. TypeOK
  BY InitTypes
<1>2. req.timeout \in BOOLEAN
  BY RequestsAssumption DEF Init, RequestSet
<1> QED
  BY <1>1, <1>2, LeaderAssumption
     DEF Inv, Init, StartInv, GroupInv, WaitInv, TimeoutInv, MonitorInv, CallInv, Reaped

LEMMA InvStep ==
  ASSUME Inv, [Next]_vars
  PROVE  Inv'
<1> USE LeaderAssumption, StreamsAssumption
    DEF Inv, TypeOK, StartInv, GroupInv, WaitInv, TimeoutInv, MonitorInv, CallInv,
        Reaped, Alive, Holding, contexts, system, callers, monitor, info, record
<1>1. TypeOK'
  BY TypeStep
<1>2. CASE StartStep
  <2>1. CASE StartChecked
    BY <1>1, <2>1 DEF StartChecked
  <2>2. CASE StartFails
    BY <1>1, <2>2 DEF StartFails
  <2>3. CASE Spawn
    BY <1>1, <2>3 DEF Spawn
  <2>4. CASE Register
    BY <1>1, <2>4 DEF Register
  <2>5. CASE Announce
    BY <1>1, <2>5 DEF Announce, Kinds
  <2>6. CASE Launch
    BY <1>1, <2>6 DEF Launch
  <2> QED BY <1>2, <2>1, <2>2, <2>3, <2>4, <2>5, <2>6 DEF StartStep
<1>3. CASE MonitorStep
  <2>1. CASE MonitorSeesDone
    <3>1. /\ monitorPc = "select" /\ Done
          /\ monitorPc' = "exited" /\ verdict' = "done"
          /\ UNCHANGED <<req, contexts, system, callers, baseWatched, timedOut, record,
                         startPc, waitPc, log, detachedFirst>>
      BY <2>1 DEF MonitorSeesDone, MonitorLeaves
    <3> QED BY <1>1, <3>1
  <2>2. CASE MonitorSeesControl
    BY <1>1, <2>2 DEF MonitorSeesControl
  <2>3. CASE MonitorSeesTimerReleased
    <3>1. /\ monitorPc = "select" /\ timer = "cancelled"
          /\ monitorPc' = "exited" /\ verdict' = "timer released"
          /\ UNCHANGED <<req, contexts, system, callers, baseWatched, timedOut, record,
                         startPc, waitPc, log, detachedFirst>>
      BY <2>3 DEF MonitorSeesTimerReleased, MonitorLeaves
    <3>2. StartInv' /\ GroupInv'
      BY <3>1
    <3>3. WaitInv' /\ CallInv'
      BY <3>1
    <3>4. TimeoutInv' /\ MonitorInv'
      BY <3>1
    <3> QED BY <1>1, <3>2, <3>3, <3>4 DEF Inv
  <2>4. CASE MonitorSeesDeadline
    BY <1>1, <2>4 DEF MonitorSeesDeadline
  <2>5. CASE MonitorMarksTimeout
    BY <1>1, <2>5 DEF MonitorMarksTimeout
  <2>6. CASE MonitorKills
    <3>1. GroupMoves
      BY <2>6, DeliverMoves DEF MonitorKills, Signals, Polite
    <3>2. /\ GroupInv' /\ Alive' \subseteq Alive
          /\ os[Leader] = "gone" => os'[Leader] = "gone"
          /\ os'[Leader] = "unborn" <=> os[Leader] = "unborn"
      BY <2>6, <3>1, GroupShrinks DEF MonitorKills, Deliver
    <3>3. Reaped => Awaited = {}
      BY DEF Awaited
    <3> HIDE DEF Alive, GroupInv
    <3>4. StartInv' /\ WaitInv' /\ MonitorInv' /\ CallInv'
      BY <2>6, <3>2 DEF MonitorKills, Deliver
    <3>5. TimeoutInv'
      BY <2>6, <3>3 DEF MonitorKills, Deliver
    <3> QED BY <1>1, <3>2, <3>4, <3>5
  <2>7. CASE MonitorSeesBase
    BY <1>1, <2>7 DEF MonitorSeesBase
  <2>8. CASE MonitorAsksDetached
    BY <1>1, <2>8 DEF MonitorAsksDetached
  <2>9. CASE MonitorTerminates
    <3>1. GroupMoves
      BY <2>9, DeliverMoves DEF MonitorTerminates, Signals, Polite
    <3>2. /\ GroupInv' /\ Alive' \subseteq Alive
          /\ os[Leader] = "gone" => os'[Leader] = "gone"
          /\ os'[Leader] = "unborn" <=> os[Leader] = "unborn"
      BY <2>9, <3>1, GroupShrinks DEF MonitorTerminates, Deliver
    <3> HIDE DEF Alive, GroupInv
    <3> QED BY <1>1, <2>9, <3>2 DEF MonitorTerminates, Deliver
  <2> QED BY <1>3, <2>1, <2>2, <2>3, <2>4, <2>5, <2>6, <2>7, <2>8, <2>9 DEF MonitorStep
<1>4. CASE WaitStep
  <2>1. CASE Reap
    BY <1>1, <2>1 DEF Reap
  <2>2. CASE LoadResult
    BY <1>1, <2>2 DEF LoadResult, Outcomes, Statuses, NoResult
  <2>3. CASE SettleInfo
    BY <1>1, <2>3 DEF SettleInfo
  <2>4. CASE LeaveGroup
    BY <1>1, <2>4 DEF LeaveGroup
  <2>5. CASE ReleaseTimer
    BY <1>1, <2>5 DEF ReleaseTimer
  <2>6. CASE CloseStdin
    BY <1>1, <2>6 DEF CloseStdin
  <2>7. CASE EmitExited
    BY <1>1, <2>7 DEF EmitExited
  <2>8. CASE Finish
    BY <1>1, <2>8 DEF Finish
  <2> QED BY <1>4, <2>1, <2>2, <2>3, <2>4, <2>5, <2>6, <2>7, <2>8 DEF WaitStep
<1>5. CASE CancelBase BY <1>1, <1>5 DEF CancelBase
<1>6. CASE DeadlinePasses BY <1>1, <1>6 DEF DeadlinePasses
<1>7. ASSUME NEW s \in Streams, CopierStep(s) PROVE Inv'
  <2>1. CASE CopyChunk(s) BY <1>1, <2>1 DEF CopyChunk
  <2>2. CASE EmitOutput(s) BY <1>1, <2>2 DEF EmitOutput
  <2>3. CASE CopierEnds(s)
    <3>1. os[Leader] # "unborn" /\ pipe[s] = 0 /\ Holding(s) = {}
          /\ UNCHANGED <<os, holders, pipe, doomed, status>>
      BY <2>3 DEF CopierEnds, MemberStates
    <3>2. \A t \in Streams : copier'[t] = IF t = s THEN "eof" ELSE copier[t]
      BY <2>3 DEF CopierEnds
    <3>3. GroupInv'
      BY <2>3, <3>1, <3>2 DEF CopierEnds
    <3>4. WaitInv'
      BY <2>3, <3>1, <3>2 DEF CopierEnds
    <3>5. StartInv' /\ TimeoutInv' /\ MonitorInv' /\ CallInv'
      BY <2>3 DEF CopierEnds
    <3> QED BY <1>1, <3>3, <3>4, <3>5 DEF Inv
  <2> QED BY <1>7, <2>1, <2>2, <2>3 DEF CopierStep
<1>8. ASSUME NEW p \in Members, NEW m \in Members, Fork(p, m) PROVE Inv'
  <2>1. /\ \A n \in Members : os'[n] = IF n = m THEN "running" ELSE os[n]
        /\ os[m] = "unborn" /\ os[p] = "running"
        /\ \A s \in Streams : holders'[s] = IF p \in holders[s] THEN holders[s] \cup {m}
                                                               ELSE holders[s]
    BY <1>8 DEF Fork
  <2>2. ASSUME NEW s \in Streams, Holding(s) = {} PROVE Holding(s)' = {}
    <3>1. p \notin holders[s] /\ m \notin holders[s]
      BY <2>1, <2>2
    <3>2. holders'[s] = holders[s]
      BY <2>1, <3>1
    <3> QED BY <2>1, <2>2, <3>1, <3>2
  <2>3. GroupInv'
    BY <1>8, <2>1, <2>2 DEF Fork
  <2>4. m # Leader
    BY <1>8, <2>1 DEF Fork
  <2>5. StartInv' /\ WaitInv'
    BY <1>8, <2>1, <2>4 DEF Fork
  <2>6. TimeoutInv' /\ MonitorInv' /\ CallInv'
    BY <1>8 DEF Fork
  <2> QED BY <1>1, <2>3, <2>5, <2>6 DEF Inv
<1>21. ASSUME NEW m \in Members, NEW s \in Streams, LetGo(m, s) PROVE Inv'
  <2>1. \A t \in Streams : holders'[t] \subseteq holders[t] /\ Holding(t)' \subseteq Holding(t)
    BY <1>21 DEF LetGo
  <2>2. GroupInv'
    BY <1>21, <2>1 DEF LetGo
  <2> QED BY <1>1, <1>21, <2>2 DEF LetGo
<1>9. ASSUME NEW m \in Members, ExitByItself(m) PROVE Inv'
  <2>1. GroupMoves
    BY <1>9, ExitMoves
  <2>2. /\ GroupInv' /\ Alive' \subseteq Alive
        /\ os[Leader] = "gone" => os'[Leader] = "gone"
        /\ os'[Leader] = "unborn" <=> os[Leader] = "unborn"
    BY <1>9, <2>1, GroupShrinks DEF ExitByItself
  <2> HIDE DEF Alive, GroupInv
  <2> QED BY <1>1, <1>9, <2>2 DEF ExitByItself
<1>10. ASSUME NEW m \in Members, NEW s \in Streams, WriteChunk(m, s) PROVE Inv'
  BY <1>1, <1>10 DEF WriteChunk
<1>11. ASSUME NEW c \in Callers, NEW signal \in Signals, Signal(c, signal) PROVE Inv'
  <2>1. GroupMoves
    BY <1>11, DeliverMoves DEF Signal
  <2>2. /\ GroupInv' /\ Alive' \subseteq Alive
        /\ os[Leader] = "gone" => os'[Leader] = "gone"
        /\ os'[Leader] = "unborn" <=> os[Leader] = "unborn"
    BY <1>11, <2>1, GroupShrinks DEF Signal, Deliver
  <2>3. signal \in Calls /\ signal # "wait"
    BY DEF Calls, Signals, Polite
  <2>4. /\ CallInv' /\ (fatal => fatal')
        /\ \A d \in Callers : callPc'[d] = "cancel" => fatal'
    BY <1>11, <2>3, CallingCalls DEF Signal, CallPcs
  <2> HIDE DEF Alive, GroupInv, CallInv
  <2> QED BY <1>1, <1>11, <2>2, <2>4 DEF Signal, Deliver
<1>12. ASSUME NEW c \in Callers, Detach(c) PROVE Inv'
  <2>1. /\ CallInv' /\ (fatal => fatal')
        /\ \A d \in Callers : callPc'[d] = "cancel" => fatal'
    BY <1>12, CallingCalls DEF Detach, Calls, CallPcs
  <2>2. MonitorInv'
    BY <1>12, <2>1 DEF Detach
  <2>3. StartInv' /\ GroupInv' /\ WaitInv' /\ TimeoutInv'
    BY <1>12, <2>1 DEF Detach
  <2> QED BY <1>1, <2>1, <2>2, <2>3 DEF Inv
<1>13. ASSUME NEW c \in Callers, CloseInput(c) PROVE Inv'
  <2>1. /\ CallInv' /\ (fatal => fatal')
        /\ \A d \in Callers : callPc'[d] = "cancel" => fatal'
    BY <1>13, CallingCalls DEF CloseInput, Calls, CallPcs
  <2> HIDE DEF CallInv
  <2> QED BY <1>1, <1>13, <2>1 DEF CloseInput
<1>14. ASSUME NEW c \in Callers, CloseInputFails(c) PROVE Inv'
  BY <1>1, <1>14 DEF CloseInputFails
<1>15. ASSUME NEW c \in Callers, Wait(c) PROVE Inv'
  <2>1. /\ CallInv' /\ (fatal => fatal')
        /\ \A d \in Callers : callPc'[d] = "cancel" => fatal'
    BY <1>15, CallingCalls DEF Wait, Calls, CallPcs
  <2> HIDE DEF CallInv
  <2> QED BY <1>1, <1>15, <2>1 DEF Wait
<1>16. ASSUME NEW c \in Callers, LeaveWait(c) PROVE Inv'
  BY <1>1, <1>16 DEF LeaveWait, Returned
<1>17. ASSUME NEW c \in Callers, CancelControl(c) PROVE Inv'
  BY <1>1, <1>17 DEF CancelControl
<1>18. ASSUME NEW c \in Callers, RecordPaused(c) PROVE Inv'
  BY <1>1, <1>18 DEF RecordPaused
<1>19. ASSUME NEW c \in Callers, EmitCall(c) PROVE Inv'
  <2>1. EventOf(call[c]) \in ControlEvents
    BY <1>19, EventOfCall DEF EmitCall
  <2>2. \A i \in 1..Len(log') : log'[i] = "exited" => i \in 1..Len(log) /\ log[i] = "exited"
    BY <1>19, <2>1 DEF EmitCall, Kinds, ControlEvents
  <2>3. WaitInv'
    BY <1>19, <2>2 DEF EmitCall
  <2>4. StartInv' /\ GroupInv' /\ TimeoutInv' /\ MonitorInv' /\ CallInv'
    BY <1>19 DEF EmitCall, Returned
  <2> QED BY <1>1, <2>3, <2>4 DEF Inv
<1>20. CASE UNCHANGED vars
  BY <1>1, <1>20 DEF vars
<1> QED
  BY <1>2, <1>3, <1>4, <1>5, <1>6, <1>7, <1>8, <1>9, <1>10, <1>11, <1>12, <1>13,
     <1>14, <1>15, <1>16, <1>17, <1>18, <1>19, <1>20, <1>21
     DEF Next, CallStep, WaitAnswers, WaitGivesUp

LEMMA InvAlways == Spec => []Inv
BY InvInit, InvStep, PTL DEF Spec

-----------------------------------------------------------------------------
(* Every variable keeps its type. *)
THEOREM TypeCorrect == Spec => []TypeOK
<1>1. Inv => TypeOK
  BY DEF Inv
<1> QED BY <1>1, InvAlways, PTL

(* When the done channel closes, the process is settled for every caller,  *)
(* its program is gone and nobody holds its streams, in every schedule of  *)
(* the goroutines and whatever of the group has redirected its output.     *)
THEOREM SettledWhenDone == Spec => []DoneIsSettled
<1>1. Inv => DoneIsSettled
  BY DEF Inv, WaitInv, GroupInv, DoneIsSettled, Done, Reaped, Outcomes, Statuses, NoResult
<1> QED BY <1>1, InvAlways, PTL

(* No output is left unreported when the exit is reported. *)
THEOREM OutputComesFirst == Spec => []OutputBeforeExit
<1>1. Inv => OutputBeforeExit
  BY DEF Inv, WaitInv, GroupInv, OutputBeforeExit, Emitted, Reaped
<1> QED BY <1>1, InvAlways, PTL

(* A process whose program or last holder of a stream its deadline killed  *)
(* is reported as timed out, and only one whose deadline has passed is,    *)
(* although monitor() kills and wait() reports.                            *)
THEOREM TimeoutsAreReported == Spec => []TimeoutReported
<1>1. Inv => TimeoutReported
  BY DEF Inv, TimeoutInv, TimeoutReported
<1> QED BY <1>1, InvAlways, PTL

(* monitor() ends a process only for the reason it gives: for the control  *)
(* context only after a Stop or a Kill, for its starter's context only if  *)
(* that was cancelled and nobody had detached the process before.          *)
THEOREM MonitorActsJustified == Spec => []MonitorJustified
<1>1. Inv => MonitorJustified
  BY DEF Inv, MonitorInv, TimeoutInv, MonitorJustified
<1> QED BY <1>1, InvAlways, PTL

-----------------------------------------------------------------------------
(* The handle keeps what ProcessContract promises: every step of the       *)
(* goroutines is one step of the contract, or none.                        *)


LEMMA ContractStep ==
  ASSUME Inv, [Next]_vars
  PROVE  [Contract!Next]_(Contract!vars)
<1> USE DEF contexts, system, callers, monitor, info, record
<1> DEFINE Quiet == Phase' = Phase /\ Answer' = Answer
<1> SUFFICES \/ Quiet /\ log' = log
             \/ Contract!Next
  BY DEF Contract!vars
<1>1. ASSUME startPc' = startPc, waitPc' = waitPc, result' = result
      PROVE  Quiet
  BY <1>1 DEF Phase, Answer, Done
<1>2. CASE StartStep
  <2>1. ASSUME StartChecked \/ StartFails \/ Spawn \/ Register
        PROVE  Quiet /\ log' = log
    BY <2>1 DEF StartChecked, StartFails, Spawn, Register, Phase, Answer, Done
  <2>2. CASE Announce
    <3>1. waitPc = "off"
      BY <2>2 DEF Announce, Inv, StartInv
    <3>2. Contract!Announce
      BY <2>2, <3>1 DEF Announce, Contract!Announce, Phase, Answer, Done
    <3> QED BY <3>2 DEF Contract!Next
  <2>3. CASE Launch
    <3>1. waitPc = "off"
      BY <2>3 DEF Launch, Inv, StartInv
    <3> QED BY <2>3, <3>1 DEF Launch, Phase, Answer, Done
  <2> QED BY <1>2, <2>1, <2>2, <2>3 DEF StartStep
<1>3. CASE WaitStep
  <2>1. startPc = "ready"
    BY <1>3 DEF WaitStep, Reap, LoadResult, SettleInfo, LeaveGroup, ReleaseTimer,
                CloseStdin, EmitExited, Finish, Inv, StartInv
  <2>2. ASSUME Reap \/ LoadResult \/ SettleInfo \/ LeaveGroup \/ ReleaseTimer \/ CloseStdin
        PROVE  Quiet /\ log' = log
    BY <2>1, <2>2 DEF Reap, LoadResult, SettleInfo, LeaveGroup, ReleaseTimer, CloseStdin,
                      Phase, Answer, Done
  <2>3. CASE EmitExited
    <3>1. Contract!Exit
      BY <2>1, <2>3 DEF EmitExited, Contract!Exit, Phase, Answer, Done
    <3> QED BY <3>1 DEF Contract!Next
  <2>4. CASE Finish
    <3>1. result \in Outcomes
      BY <2>4 DEF Finish, Inv, WaitInv
    <3>2. Contract!Settle(result)
      BY <2>4 DEF Finish, Contract!Settle, Phase, Answer, Done
    <3> QED BY <3>1, <3>2 DEF Contract!Next
  <2> QED BY <1>3, <2>2, <2>3, <2>4 DEF WaitStep
<1>4. ASSUME NEW s \in Streams, CopierStep(s)
      PROVE  \/ Quiet /\ log' = log
             \/ Contract!Next
  <2>1. CASE EmitOutput(s)
    <3>1. startPc = "ready"
      BY <2>1 DEF EmitOutput, Started
    <3>2. waitPc \notin {"finish", "over"}
      BY <2>1 DEF EmitOutput, Inv, WaitInv, Reaped
    <3>3. Contract!Output
      BY <2>1, <3>1, <3>2 DEF EmitOutput, Contract!Output, Phase, Answer, Done
    <3> QED BY <3>3 DEF Contract!Next
  <2>2. CASE CopyChunk(s)
    BY <1>1, <2>2 DEF CopyChunk
  <2>3. CASE CopierEnds(s)
    BY <1>1, <2>3 DEF CopierEnds
  <2> QED BY <1>4, <2>1, <2>2, <2>3 DEF CopierStep
<1>5. ASSUME NEW c \in Callers, EmitCall(c)
      PROVE  Contract!Next
  <2>1. EventOf(call[c]) \in ControlEvents
    BY <1>5, EventOfCall DEF EmitCall, Inv, CallInv
  <2>2. Quiet /\ log' = Append(log, EventOf(call[c]))
    BY <1>5, <1>1 DEF EmitCall
  <2>3. Contract!Control(EventOf(call[c]))
    BY <2>2 DEF Contract!Control
  <2> QED BY <2>1, <2>3 DEF Contract!Next
<1>6. CASE MonitorStep
  BY <1>1, <1>6
     DEF MonitorStep, MonitorSeesDone, MonitorSeesControl, MonitorSeesTimerReleased,
         MonitorSeesDeadline, MonitorMarksTimeout, MonitorKills, MonitorSeesBase,
         MonitorAsksDetached, MonitorTerminates, MonitorLeaves
<1>7. ASSUME CancelBase \/ DeadlinePasses
      PROVE  Quiet /\ log' = log
  BY <1>1, <1>7 DEF CancelBase, DeadlinePasses
<1>8. ASSUME NEW m \in Members,
             \/ ExitByItself(m)
             \/ \E p \in Members : Fork(p, m)
             \/ \E s \in Streams : WriteChunk(m, s) \/ LetGo(m, s)
      PROVE  Quiet /\ log' = log
  BY <1>1, <1>8 DEF Fork, ExitByItself, WriteChunk, LetGo
<1>9. ASSUME NEW c \in Callers,
             \/ \E signal \in Signals : Signal(c, signal)
             \/ Detach(c) \/ CloseInput(c) \/ CloseInputFails(c) \/ Wait(c) \/ LeaveWait(c)
             \/ CancelControl(c) \/ RecordPaused(c)
      PROVE  Quiet /\ log' = log
  BY <1>1, <1>9 DEF Signal, Detach, CloseInput, CloseInputFails, Wait, LeaveWait,
                    CancelControl, RecordPaused
<1>10. CASE UNCHANGED vars
  BY <1>1, <1>10 DEF vars
<1> HIDE DEF Quiet
<1> QED
  BY <1>2, <1>3, <1>4, <1>5, <1>6, <1>7, <1>8, <1>9, <1>10
     DEF Next, CallStep, WaitAnswers, WaitGivesUp

(* Every behaviour of the process, seen through its log and through what   *)
(* Wait answers, is one that ProcessContract allows.                       *)
THEOREM ContractImplemented == Spec => ImplementsContract
<1>1. Init => Contract!Init
  BY DEF Init, Contract!Init, Phase, Answer, Done
<1>2. Inv /\ [Next]_vars => [Contract!Next]_(Contract!vars)
  BY ContractStep
<1> QED BY <1>1, <1>2, InvAlways, PTL DEF Spec, ImplementsContract, Contract!Spec

-----------------------------------------------------------------------------
(* Info and the group.  A Pause or Resume stops or continues the group     *)
(* first and records that afterwards; between the two the caller knows     *)
(* better than the record.                                                 *)

(* No two callers pause or resume at once.                                 *)
OneRecorder ==
  \A c, d \in Callers : (callPc[c] = "record" /\ callPc[d] = "record") => c = d

StoppedIs(b) == \A m \in Alive : os[m] = "stopped" <=> b

PausedInv ==
  /\ PausedMatchesGroup
  /\ \A c \in Callers : callPc[c] = "record" => StoppedIs(call[c] = "pause")
  /\ ~Registered => ~paused /\ \A c \in Callers : callPc[c] = "idle"
  /\ startPc \in {"checking", "checked", "failed"} => Alive = {}

(* Members that end leave the others as they were. *)
LEMMA MembersEnd ==
  ASSUME TypeOK, PausedInv, \A m \in Members : os'[m] \in {os[m], "gone"},
         UNCHANGED <<callPc, call, paused, running, startPc>>
  PROVE  PausedInv'
<1>1. Alive' \subseteq Alive /\ \A m \in Alive' : os'[m] = os[m]
  BY DEF Alive
<1>2. \A c \in Callers : callPc[c] = "record" => StoppedIs(call[c] = "pause")'
  BY <1>1 DEF PausedInv, StoppedIs
<1>3. PausedMatchesGroup'
  BY <1>1 DEF PausedInv, PausedMatchesGroup
<1> QED BY <1>1, <1>2, <1>3 DEF PausedInv, Registered

(* The group is left as it is, and whoever records is left at it.          *)
LEMMA RecordersStay ==
  ASSUME TypeOK, PausedInv, UNCHANGED <<os, paused, running>>,
         \A c \in Callers : callPc[c] = "record" <=> callPc'[c] = "record",
         \A c \in Callers : callPc[c] = "record" => call'[c] = call[c],
         Registered => Registered',
         ~Registered' => callPc' = callPc,
         startPc' \in {"checking", "checked", "failed"} => startPc \in {"checking", "checked", "failed"}
  PROVE  PausedInv'
<1>1. Alive' = Alive
  BY DEF Alive
<1>2. \A c \in Callers : callPc'[c] = "record" => StoppedIs(call[c] = "pause")'
  BY <1>1 DEF PausedInv, StoppedIs
<1>3. PausedMatchesGroup'
  BY <1>1 DEF PausedInv, PausedMatchesGroup
<1> QED BY <1>1, <1>2, <1>3 DEF PausedInv

LEMMA AskedOrKilled ==
  ASSUME TypeOK, NEW signal \in Polite \cup {"kill"}, Deliver(signal)
  PROVE  \A m \in Members : os'[m] \in {os[m], "gone"}
BY DEF Deliver, Killed, Asked, Perish, Polite

LEMMA PausedStep ==
  ASSUME Inv, PausedInv, OneRecorder, OneRecorder', [Next]_vars
  PROVE  PausedInv'
<1> USE DEF contexts, system, callers, monitor, info, record
<1>0. TypeOK
  BY DEF Inv
<1>1. CASE StartStep
  <2>1. CASE StartChecked \/ StartFails \/ Register \/ Announce \/ Launch
    <3>1. /\ UNCHANGED <<os, paused, running, callPc, call>>
          /\ Registered => Registered'
          /\ startPc' \in {"checking", "checked", "failed"} => startPc \in {"checking", "checked", "failed"}
      BY <2>1 DEF StartChecked, StartFails, Register, Announce, Launch, Registered
    <3> QED BY <1>0, <3>1, RecordersStay
  <2>2. CASE Spawn
    <3>1. Alive = {} /\ ~paused /\ \A c \in Callers : callPc'[c] = "idle"
      BY <2>2 DEF Spawn, PausedInv, Registered
    <3>2. Alive' \subseteq {Leader} /\ os'[Leader] = "running"
      BY <1>0, <2>2, <3>1, LeaderAssumption DEF Spawn, Alive, TypeOK
    <3>3. startPc' = "spawned" /\ ~paused'
      BY <2>2, <3>1 DEF Spawn
    <3> QED BY <2>2, <3>1, <3>2, <3>3 DEF Spawn, PausedInv, PausedMatchesGroup, Registered
  <2> QED BY <1>1, <2>1, <2>2 DEF StartStep
<1>2. CASE MonitorStep
  <2>1. CASE MonitorKills
    BY <1>0, <2>1, AskedOrKilled, MembersEnd DEF MonitorKills
  <2>2. CASE MonitorTerminates
    BY <1>0, <2>2, AskedOrKilled, MembersEnd DEF MonitorTerminates, Polite
  <2>3. CASE ~MonitorKills /\ ~MonitorTerminates
    <3>1. UNCHANGED <<os, paused, running, callPc, call, startPc, waitPc>>
      BY <1>2, <2>3 DEF MonitorStep, MonitorSeesDone, MonitorSeesControl, MonitorSeesTimerReleased,
         MonitorSeesDeadline, MonitorMarksTimeout, MonitorSeesBase, MonitorAsksDetached, MonitorLeaves
    <3> QED BY <1>0, <3>1, RecordersStay DEF Registered, Reaped
  <2> QED BY <2>1, <2>2, <2>3
<1>3. CASE WaitStep
  <2>1. CASE SettleInfo
    <3>1. startPc = "ready" /\ startPc' = "ready" /\ ~running'
          /\ UNCHANGED <<os, callPc, call>>
      BY <2>1 DEF SettleInfo, Inv, StartInv
    <3> QED BY <3>1 DEF PausedInv, PausedMatchesGroup, StoppedIs, Alive, Registered
  <2>2. CASE ~SettleInfo
    <3>1. UNCHANGED <<os, paused, running, callPc, call, startPc>>
      BY <1>3, <2>2 DEF WaitStep, Reap, LoadResult, LeaveGroup, ReleaseTimer, CloseStdin, EmitExited, Finish
    <3> QED BY <1>0, <3>1, RecordersStay DEF Registered, Reaped
  <2> QED BY <2>1, <2>2
<1>4. ASSUME \/ CancelBase \/ DeadlinePasses
             \/ \E s \in Streams : CopierStep(s)
             \/ \E m \in Members, s \in Streams : WriteChunk(m, s) \/ LetGo(m, s)
             \/ UNCHANGED vars
      PROVE  PausedInv'
  <2>1. UNCHANGED <<os, paused, running, callPc, call, startPc, waitPc>>
    BY <1>4 DEF CancelBase, DeadlinePasses, CopierStep, CopyChunk, EmitOutput, CopierEnds, WriteChunk,
       LetGo, vars
  <2> QED BY <1>0, <2>1, RecordersStay DEF Registered, Reaped
<1>5. ASSUME NEW m \in Members, ExitByItself(m) PROVE PausedInv'
  <2>1. \A n \in Members : os'[n] \in {os[n], "gone"}
    BY <1>0, <1>5 DEF ExitByItself, Perish
  <2> QED BY <1>0, <1>5, <2>1, MembersEnd DEF ExitByItself
<1>6. ASSUME NEW p \in Members, NEW m \in Members, Fork(p, m) PROVE PausedInv'
  <2>1. /\ p \in Alive /\ os[p] = "running"
        /\ Alive' = Alive \cup {m} /\ os'[m] = "running"
        /\ \A n \in Alive : os'[n] = os[n]
        /\ UNCHANGED <<paused, running, callPc, call, startPc, waitPc>>
    BY <1>0, <1>6, LeaderAssumption DEF Fork, Alive, TypeOK
  <2>2. \A c \in Callers : callPc[c] = "record" => StoppedIs(call[c] = "pause")'
    BY <2>1 DEF PausedInv, StoppedIs
  <2>3. PausedMatchesGroup'
    BY <2>1 DEF PausedInv, PausedMatchesGroup
  <2> QED BY <2>1, <2>2, <2>3 DEF PausedInv, Registered
<1>7. ASSUME NEW c \in Callers, NEW signal \in Signals, Signal(c, signal) PROVE PausedInv'
  <2>1. /\ Registered /\ startPc' = startPc /\ paused' = paused
        /\ running' = running /\ waitPc' = waitPc
        /\ callPc[c] = "idle" /\ call'[c] = signal
        /\ \A d \in Callers \ {c} : callPc'[d] = callPc[d] /\ call'[d] = call[d]
    BY <1>0, <1>7 DEF Signal, Calling, MayCall, TypeOK
  <2>2. CASE signal \in {"pause", "resume"}
    <3>1. callPc'[c] = "record"
      BY <1>0, <1>7, <2>2 DEF Signal, Calling, FatalSignals, TypeOK
    <3>2. \A m \in Alive' : os'[m] = "stopped" <=> signal = "pause"
      BY <1>0, <1>7, <2>2 DEF Signal, Deliver, Killed, Perish, Stopped, Continued, Asked, Polite, Alive, TypeOK
    <3>3. \A d \in Callers : callPc'[d] = "record" => d = c
      BY <3>1 DEF OneRecorder
    <3> QED BY <2>1, <3>1, <3>2, <3>3 DEF PausedInv, PausedMatchesGroup, StoppedIs, Registered
  <2>3. CASE signal \notin {"pause", "resume"}
    <3>1. \A m \in Members : os'[m] \in {os[m], "gone"}
      BY <1>0, <1>7, <2>3, AskedOrKilled DEF Signal, Signals
    <3>2. callPc'[c] # "record"
      BY <1>0, <1>7, <2>3 DEF Signal, Calling, TypeOK
    <3>3. Alive' \subseteq Alive /\ \A m \in Alive' : os'[m] = os[m]
      BY <3>1 DEF Alive
    <3>4. \A d \in Callers : callPc'[d] = "record" => callPc[d] = "record" /\ call'[d] = call[d]
      BY <2>1, <3>2
    <3>5. \A d \in Callers : callPc[d] = "record" => callPc'[d] = "record"
      BY <2>1
    <3>6. \A d \in Callers : callPc'[d] = "record" => StoppedIs(call[d] = "pause")'
      BY <3>3, <3>4 DEF PausedInv, StoppedIs
    <3>7. PausedMatchesGroup'
      BY <2>1, <3>3, <3>5 DEF PausedInv, PausedMatchesGroup
    <3> QED BY <2>1, <3>4, <3>6, <3>7 DEF PausedInv, Registered
  <2> QED BY <2>2, <2>3
<1>8. ASSUME NEW c \in Callers, RecordPaused(c) PROVE PausedInv'
  <2>1. /\ callPc[c] = "record" /\ Alive' = Alive /\ os' = os /\ startPc' = startPc
        /\ paused' = (running /\ call[c] = "pause")
        /\ running' = running /\ waitPc' = waitPc
        /\ Registered /\ \A d \in Callers : callPc'[d] # "record"
    BY <1>0, <1>8 DEF RecordPaused, Alive, OneRecorder, PausedInv, TypeOK
  <2>2. StoppedIs(call[c] = "pause")
    BY <2>1 DEF PausedInv
  <2>3. running => \A m \in Alive : os[m] = "stopped" <=> paused'
    BY <2>1, <2>2 DEF StoppedIs
  <2> QED BY <2>1, <2>3 DEF PausedInv, PausedMatchesGroup, Registered
<1>9. ASSUME NEW c \in Callers,
             \/ Detach(c) \/ CloseInput(c) \/ CloseInputFails(c) \/ Wait(c) \/ LeaveWait(c)
             \/ CancelControl(c) \/ EmitCall(c)
      PROVE  PausedInv'
  <2>1. /\ UNCHANGED <<os, paused, running, startPc, waitPc>>
        /\ callPc[c] # "record" /\ callPc'[c] # "record"
        /\ \A d \in Callers \ {c} : callPc'[d] = callPc[d] /\ call'[d] = call[d]
    BY <1>0, <1>9 DEF Detach, CloseInput, CloseInputFails, Wait, LeaveWait, CancelControl, EmitCall,
       Calling, MayCall, Returned, TypeOK
  <2>2. ~Registered => callPc' = callPc
    BY <1>9 DEF Detach, CloseInput, CloseInputFails, Wait, LeaveWait, CancelControl, EmitCall,
       Calling, PausedInv
  <2> QED BY <1>0, <2>1, <2>2, RecordersStay DEF Registered, Reaped
<1> QED
  BY <1>1, <1>2, <1>3, <1>4, <1>5, <1>6, <1>7, <1>8, <1>9
     DEF Next, CallStep, WaitAnswers, WaitGivesUp

(* As long as no two callers pause or resume at once, Info of a running    *)
(* process tells whether its group is stopped, whatever else calls,        *)
(* signals, deadlines and exits do to it meanwhile.                        *)
THEOREM InfoTellsPaused == Spec /\ []OneRecorder => []PausedMatchesGroup
<1>1. Init => PausedInv
  BY LeaderAssumption DEF Init, PausedInv, PausedMatchesGroup, Registered, Alive
<1>2. Inv /\ PausedInv /\ OneRecorder /\ OneRecorder' /\ [Next]_vars => PausedInv'
  BY PausedStep
<1>3. PausedInv => PausedMatchesGroup
  BY DEF PausedInv
<1> QED BY <1>1, <1>2, <1>3, InvAlways, PTL DEF Spec

=============================================================================
