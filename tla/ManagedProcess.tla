--------------------------- MODULE ManagedProcess ---------------------------
(***************************************************************************)
(* One managed process of hostsystem.Process: the goroutine that starts it *)
(* (start), the two goroutines that look after it (monitor and wait), the  *)
(* two copiers of os/exec that feed its output to subscribers, the callers *)
(* of its handle, and the operating system underneath: a process group of  *)
(* a leader and its descendants, which receive signals, and of which each  *)
(* holds an output pipe open until it ends or redirects the stream.        *)
(*                                                                         *)
(* Every goroutine has a program counter, and one action is what it does   *)
(* between two points where another goroutine can come in: one critical    *)
(* section, one system call, one channel operation.  An event emitted is   *)
(* one entry of log; how a bus carries events to its subscribers is        *)
(* modelled in EventBus.  Of the input only the closing is modelled here;  *)
(* what is written to it is in ProcessInput.                               *)
(***************************************************************************)
EXTENDS Naturals, Sequences

CONSTANTS
  Members,    \* processes of the group: the leader and what it spawned
  Leader,     \* the process that cmd.Start created
  Streams,    \* output streams
  MaxChunks,  \* bound: how many chunks one stream carries
  Callers,    \* goroutines that use the handle
  Requests    \* the requests considered, a subset of RequestSet

FatalSignals == {"terminate", "kill"}
Polite == {"terminate", "interrupt", "reload"}
Signals == Polite \cup {"kill", "pause", "resume"}
Calls == Signals \cup {"detach", "close_input", "wait"}

(* What of a ProcessRequest decides control flow: Timeout > 0, Detached, a *)
(* group name, and whether Start (with an input pipe) or Run was called;   *)
(* whether the program asked for has children and which of its processes   *)
(* may redirect a stream; and, as a bound, what each caller may call       *)
(* first, second and so on.                                                *)
RequestSet == [timeout : BOOLEAN, detached : BOOLEAN, group : BOOLEAN,
               interactive : BOOLEAN, forks : BOOLEAN,
               redirects : SUBSET Members, script : [Callers -> Seq(SUBSET Calls)]]

ASSUME LeaderAssumption == Leader \in Members
ASSUME StreamsAssumption == Streams # {}
ASSUME BoundsAssumption == MaxChunks \in Nat
ASSUME RequestsAssumption == Requests \subseteq RequestSet

Statuses == {"ok", "fail", "signaled"}   \* exit status of the leader
Outcomes == [exit : Statuses, timedOut : BOOLEAN]
NoResult == [exit |-> "none", timedOut |-> FALSE]

(* The event a call is reported by. *)
EventOf(op) ==
  CASE op = "terminate"   -> "stopped"
    [] op = "kill"        -> "killed"
    [] op = "interrupt"   -> "interrupted"
    [] op = "reload"      -> "reloaded"
    [] op = "pause"       -> "paused"
    [] op = "resume"      -> "resumed"
    [] op = "detach"      -> "detached"
    [] op = "close_input" -> "input_closed"
ControlEvents == {"stopped", "killed", "interrupted", "reloaded", "paused",
                  "resumed", "detached", "input_closed"}
Kinds == ControlEvents \cup {"started", "output", "exited"}

VARIABLES
  req,          \* the request, chosen once
  base,         \* baseCtx: "background", "live" or "cancelled"
  controlled,   \* controlCtx has been cancelled
  timer,        \* timeoutCtx: "none" (no deadline), "armed", "expired", "cancelled"
  startPc,      \* the goroutine in start()
  monitorPc,    \* the goroutine in monitor()
  baseWatched,  \* monitor's baseDone is not nil
  waitPc,       \* the goroutine in wait()
  os,           \* each member: "unborn", "running", "stopped", "gone"
  deaf,         \* members that ignore or handle the polite signals
  doomed,       \* stopped members with a polite signal pending
  status,       \* exit status of the leader
  holders,      \* of each stream: members that have not redirected or closed it
  pipe,         \* chunks written to each stream and not yet copied
  written,      \* chunks written to each stream so far
  copier,       \* the copier of each stream
  timedOut,     \* managedProcess.timedOut
  running,      \* info.Running
  paused,       \* info.Paused
  detached,     \* info.Detached
  inGroup,      \* the process is a member of its group
  stdin,        \* p.stdin: "nil", "open", "broken" (closed under it by os/exec)
  result,       \* what wait() published in p.result and p.err
  callPc,       \* each caller
  call,         \* what each caller is doing
  calls,        \* how many calls each caller has made
  fatal,        \* history: one of them was a fatal signal
  log,          \* the kinds of the events emitted, in order
  overran,      \* history: whom the timeout killed that cmd.Wait was waiting for
  verdict,      \* history: why monitor() left its loop
  detachedFirst \* history: Detach came before the base context's cancellation

contexts == <<base, controlled, timer>>
system == <<os, deaf, doomed, status, holders, pipe, written, copier, overran>>
callers == <<callPc, call, calls, fatal>>
monitor == <<monitorPc, baseWatched, timedOut, verdict>>
info == <<running, paused, detached>>
record == <<info, inGroup, stdin, result>>

vars == <<req, contexts, system, callers, monitor, record, startPc, waitPc,
          log, detachedFirst>>

Done == waitPc = "over"        \* close(p.done)
Started == startPc = "ready"   \* close(p.started)
Registered == startPc \in {"registered", "announced", "ready"}

BaseStates == {"background", "live", "cancelled"}
TimerStates == {"none", "armed", "expired", "cancelled"}
StartPcs == {"checking", "checked", "failed", "spawned", "registered",
             "announced", "ready"}
MonitorPcs == {"off", "select", "terminate", "mark", "kill", "asked", "exited"}
WaitPcs == {"off", "reap", "load", "settle", "leave", "release", "close",
            "emit", "finish", "over"}
CallPcs == {"idle", "cancel", "record", "emit", "waiting"}
MemberStates == {"unborn", "running", "stopped", "gone"}
CopierPcs == {"reading", "holding", "eof"}
StdinStates == {"nil", "open", "broken"}
Verdicts == {"none", "done", "control", "timeout", "timer released", "base"}

TypeOK ==
  /\ req \in Requests
  /\ base \in BaseStates
  /\ controlled \in BOOLEAN
  /\ timer \in TimerStates
  /\ startPc \in StartPcs
  /\ monitorPc \in MonitorPcs
  /\ baseWatched \in BOOLEAN
  /\ waitPc \in WaitPcs
  /\ os \in [Members -> MemberStates]
  /\ deaf \subseteq Members
  /\ doomed \subseteq Members
  /\ status \in Statuses \cup {"none"}
  /\ holders \in [Streams -> SUBSET Members]
  /\ pipe \in [Streams -> Nat]
  /\ written \in [Streams -> 0..MaxChunks]
  /\ copier \in [Streams -> CopierPcs]
  /\ timedOut \in BOOLEAN
  /\ running \in BOOLEAN
  /\ paused \in BOOLEAN
  /\ detached \in BOOLEAN
  /\ inGroup \in BOOLEAN
  /\ stdin \in StdinStates
  /\ result \in Outcomes \cup {NoResult}
  /\ callPc \in [Callers -> CallPcs]
  /\ call \in [Callers -> Calls \cup {"none"}]
  /\ calls \in [Callers -> Nat]
  /\ fatal \in BOOLEAN
  /\ log \in Seq(Kinds)
  /\ overran \subseteq Members
  /\ verdict \in Verdicts
  /\ detachedFirst \in BOOLEAN

Init ==
  /\ req \in Requests
  /\ base = IF req.detached THEN "background" ELSE "live"
  /\ controlled = FALSE
  /\ timer = IF req.timeout THEN "armed" ELSE "none"
  /\ startPc = "checking"
  /\ monitorPc = "off"
  /\ baseWatched = TRUE
  /\ waitPc = "off"
  /\ os = [m \in Members |-> "unborn"]
  /\ deaf \in SUBSET Members
  /\ doomed = {}
  /\ status = "none"
  /\ holders = [s \in Streams |-> {}]
  /\ pipe = [s \in Streams |-> 0]
  /\ written = [s \in Streams |-> 0]
  /\ copier = [s \in Streams |-> "reading"]
  /\ timedOut = FALSE
  /\ running = TRUE
  /\ paused = FALSE
  /\ detached = req.detached
  /\ inGroup = FALSE
  /\ stdin = IF req.interactive THEN "open" ELSE "nil"
  /\ result = NoResult
  /\ callPc = [c \in Callers |-> "idle"]
  /\ call = [c \in Callers |-> "none"]
  /\ calls = [c \in Callers |-> 0]
  /\ fatal = FALSE
  /\ log = << >>
  /\ overran = {}
  /\ verdict = "none"
  /\ detachedFirst = FALSE

-----------------------------------------------------------------------------
(* The operating system.  Alive members can receive signals; a stopped one *)
(* is only ended by SIGKILL, every other signal waits until it continues.  *)

Alive == {m \in Members : os[m] \in {"running", "stopped"}}
Obedient == Alive \ deaf

(* Who keeps a pipe open.  A member that has redirected both streams stays *)
(* in the group and no longer keeps cmd.Wait from returning.               *)
Holding(s) == holders[s] \cap Alive
Awaited == Alive \cap ({Leader} \cup UNION {holders[s] : s \in Streams})

(* The members in set end, the leader with one of the statuses.            *)
Perish(set, statuses) ==
  /\ os' = [m \in Members |-> IF m \in set THEN "gone" ELSE os[m]]
  /\ doomed' = doomed \ set
  /\ status' \in IF Leader \in set THEN statuses ELSE {status}

Killed == Perish(Alive, {"signaled"})

Stopped ==
  /\ os' = [m \in Members |-> IF m \in Alive THEN "stopped" ELSE os[m]]
  /\ UNCHANGED <<doomed, status>>

Continued ==
  /\ os' = [m \in Members |-> IF m \in doomed THEN "gone"
                              ELSE IF m \in Alive THEN "running" ELSE os[m]]
  /\ doomed' = {}
  /\ status' \in IF Leader \in doomed THEN Statuses ELSE {status}

(* TERM, INT and HUP end the running members that obey them and are kept   *)
(* for the stopped ones.                                                   *)
Asked ==
  LET reached == {m \in Obedient : os[m] = "running"} IN
  /\ os' = [m \in Members |-> IF m \in reached THEN "gone" ELSE os[m]]
  /\ doomed' = doomed \cup (Obedient \ reached)
  /\ status' \in IF Leader \in reached THEN Statuses ELSE {status}

(* kill(-pgid, signal); with no member left it is ESRCH, which             *)
(* signalSyscallCommandProcess turns into success.                         *)
Deliver(signal) ==
  /\ \/ signal = "kill" /\ Killed
     \/ signal = "pause" /\ Stopped
     \/ signal = "resume" /\ Continued
     \/ signal \in Polite /\ Asked
  /\ UNCHANGED <<deaf, holders, pipe, written, copier>>

(* A member spawned by another joins its group and inherits its pipes. *)
Fork(p, m) ==
  /\ req.forks
  /\ os[p] = "running"
  /\ os[m] = "unborn"
  /\ os' = [os EXCEPT ![m] = "running"]
  /\ holders' = [s \in Streams |-> IF p \in holders[s] THEN holders[s] \cup {m}
                                                      ELSE holders[s]]
  /\ UNCHANGED <<req, contexts, deaf, doomed, status, pipe, written, copier,
                 overran, callers, monitor, record, startPc, waitPc, log,
                 detachedFirst>>

(* A member redirects or closes a stream, as in cmd >/dev/null 2>&1 &. *)
LetGo(m, s) ==
  /\ m \in req.redirects
  /\ os[m] = "running"
  /\ m \in holders[s]
  /\ holders' = [holders EXCEPT ![s] = @ \ {m}]
  /\ UNCHANGED <<req, contexts, os, deaf, doomed, status, pipe, written, copier,
                 overran, callers, monitor, record, startPc, waitPc, log,
                 detachedFirst>>

WriteChunk(m, s) ==
  /\ os[m] = "running"
  /\ m \in holders[s]
  /\ written[s] < MaxChunks
  /\ written' = [written EXCEPT ![s] = @ + 1]
  /\ pipe' = [pipe EXCEPT ![s] = @ + 1]
  /\ UNCHANGED <<req, contexts, os, deaf, doomed, status, holders, copier, overran,
                 callers, monitor, record, startPc, waitPc, log, detachedFirst>>

ExitByItself(m) ==
  /\ os[m] = "running"
  /\ Perish({m}, {"ok", "fail"})
  /\ UNCHANGED <<req, contexts, deaf, holders, pipe, written, copier, overran,
                 callers, monitor, record, startPc, waitPc, log, detachedFirst>>

(* The contexts that others own: the caller's, and the deadline.           *)

CancelBase ==
  /\ base = "live"
  /\ base' = "cancelled"
  /\ UNCHANGED <<req, controlled, timer, system, callers, monitor, record,
                 startPc, waitPc, log, detachedFirst>>

DeadlinePasses ==
  /\ timer = "armed"
  /\ timer' = "expired"
  /\ UNCHANGED <<req, base, controlled, system, callers, monitor, record,
                 startPc, waitPc, log, detachedFirst>>

-----------------------------------------------------------------------------
(* start()                                                                 *)

(* The last look at the caller's context before cmd.Start. *)
StartChecked ==
  /\ startPc = "checking"
  /\ base # "cancelled"
  /\ startPc' = "checked"
  /\ UNCHANGED <<req, contexts, system, callers, monitor, record, waitPc, log,
                 detachedFirst>>

(* A refused request, a cancelled caller or an error of cmd.Start: both    *)
(* contexts are released and no trace of the process is left.              *)
StartFails ==
  /\ startPc \in {"checking", "checked"}
  /\ startPc' = "failed"
  /\ controlled' = TRUE
  /\ timer' = IF timer = "expired" THEN timer ELSE "cancelled"
  /\ UNCHANGED <<req, base, system, callers, monitor, record, waitPc, log,
                 detachedFirst>>

Spawn ==
  /\ startPc = "checked"
  /\ startPc' = "spawned"
  /\ os' = [os EXCEPT ![Leader] = "running"]
  /\ holders' = [s \in Streams |-> {Leader}]
  /\ UNCHANGED <<req, contexts, deaf, doomed, status, pipe, written, copier,
                 overran, callers, monitor, record, waitPc, log, detachedFirst>>

(* From here on Ensure, List and the group's methods find the process. *)
Register ==
  /\ startPc = "spawned"
  /\ startPc' = "registered"
  /\ inGroup' = req.group
  /\ UNCHANGED <<req, contexts, system, callers, monitor, info, stdin, result,
                 waitPc, log, detachedFirst>>

Announce ==
  /\ startPc = "registered"
  /\ startPc' = "announced"
  /\ log' = Append(log, "started")
  /\ UNCHANGED <<req, contexts, system, callers, monitor, record, waitPc,
                 detachedFirst>>

(* close(mp.started); go mp.monitor(); go mp.wait(start) *)
Launch ==
  /\ startPc = "announced"
  /\ startPc' = "ready"
  /\ monitorPc' = "select"
  /\ waitPc' = "reap"
  /\ UNCHANGED <<req, contexts, system, callers, baseWatched, timedOut, verdict,
                 record, log, detachedFirst>>

StartStep ==
  StartChecked \/ StartFails \/ Spawn \/ Register \/ Announce \/ Launch

-----------------------------------------------------------------------------
(* The copiers of os/exec, which call processOutputWriter.Write.           *)

CopyChunk(s) ==
  /\ copier[s] = "reading"
  /\ pipe[s] > 0
  /\ pipe' = [pipe EXCEPT ![s] = @ - 1]
  /\ copier' = [copier EXCEPT ![s] = "holding"]
  /\ UNCHANGED <<req, contexts, os, deaf, doomed, status, holders, written, overran,
                 callers, monitor, record, startPc, waitPc, log, detachedFirst>>

(* Faulty variant: the output writer does not wait for started. *)
EmitOutput_Early(s) ==
  /\ copier[s] = "holding"
  /\ Registered
  /\ copier' = [copier EXCEPT ![s] = "reading"]
  /\ log' = Append(log, "output")
  /\ UNCHANGED <<req, contexts, os, deaf, doomed, status, holders, pipe, written,
                 overran, callers, monitor, record, startPc, waitPc, detachedFirst>>

(* <-started, then the event. *)
EmitOutput(s) ==
  /\ copier[s] = "holding"
  /\ Started
  /\ copier' = [copier EXCEPT ![s] = "reading"]
  /\ log' = Append(log, "output")
  /\ UNCHANGED <<req, contexts, os, deaf, doomed, status, holders, pipe, written,
                 overran, callers, monitor, record, startPc, waitPc, detachedFirst>>

(* End of file: the pipe is drained and nobody holds its other end open. *)
CopierEnds(s) ==
  /\ copier[s] = "reading"
  /\ pipe[s] = 0
  /\ os[Leader] # "unborn"
  /\ Holding(s) = {}
  /\ copier' = [copier EXCEPT ![s] = "eof"]
  /\ UNCHANGED <<req, contexts, os, deaf, doomed, status, holders, pipe, written,
                 overran, callers, monitor, record, startPc, waitPc, log, detachedFirst>>

CopierStep(s) == CopyChunk(s) \/ EmitOutput(s) \/ CopierEnds(s)

-----------------------------------------------------------------------------
(* monitor(): one arm of the select each, and what the arm does then.      *)

(* Faulty variant: a break that leaves the select and not the loop. *)
MonitorLeaves_Break(why) ==
  /\ monitorPc' = "select"
  /\ verdict' = why
  /\ UNCHANGED <<baseWatched, timedOut, system>>

MonitorLeaves(why) ==
  /\ monitorPc' = "exited"
  /\ verdict' = why
  /\ UNCHANGED <<baseWatched, timedOut, system>>

MonitorSeesDone ==
  /\ monitorPc = "select"
  /\ Done
  /\ MonitorLeaves("done")
  /\ UNCHANGED <<req, contexts, callers, record, startPc, waitPc, log, detachedFirst>>

MonitorSeesControl ==
  /\ monitorPc = "select"
  /\ controlled
  /\ monitorPc' = "terminate"
  /\ verdict' = "control"
  /\ UNCHANGED <<req, contexts, system, callers, baseWatched, timedOut, record,
                 startPc, waitPc, log, detachedFirst>>

(* The second arm of the timer: wait() released it, nothing has expired.   *)
MonitorSeesTimerReleased ==
  /\ monitorPc = "select"
  /\ timer = "cancelled"
  /\ MonitorLeaves("timer released")
  /\ UNCHANGED <<req, contexts, callers, record, startPc, waitPc, log, detachedFirst>>

(* Faulty variant: the kill is not marked as a timeout first. *)
MonitorSeesDeadline_Unmarked ==
  /\ monitorPc = "select"
  /\ timer = "expired"
  /\ monitorPc' = "kill"
  /\ verdict' = "timeout"
  /\ UNCHANGED <<req, contexts, system, callers, baseWatched, timedOut, record,
                 startPc, waitPc, log, detachedFirst>>

MonitorSeesDeadline ==
  /\ monitorPc = "select"
  /\ timer = "expired"
  /\ monitorPc' = "mark"
  /\ verdict' = "timeout"
  /\ UNCHANGED <<req, contexts, system, callers, baseWatched, timedOut, record,
                 startPc, waitPc, log, detachedFirst>>

(* p.timedOut.Store(true), before the kill. *)
MonitorMarksTimeout ==
  /\ monitorPc = "mark"
  /\ monitorPc' = "kill"
  /\ timedOut' = TRUE
  /\ UNCHANGED <<req, contexts, system, callers, baseWatched, verdict, record,
                 startPc, waitPc, log, detachedFirst>>

(* Faulty variant: the deadline only asks the process to end. *)
MonitorKills_Politely ==
  /\ monitorPc = "kill"
  /\ monitorPc' = "exited"
  /\ Deliver("terminate")
  /\ UNCHANGED <<req, contexts, overran, callers, baseWatched, timedOut, verdict,
                 record, startPc, waitPc, log, detachedFirst>>

MonitorKills ==
  /\ monitorPc = "kill"
  /\ monitorPc' = "exited"
  /\ Deliver("kill")
  /\ overran' = overran \cup Awaited
  /\ UNCHANGED <<req, contexts, callers, baseWatched, timedOut, verdict, record,
                 startPc, waitPc, log, detachedFirst>>

MonitorSeesBase ==
  /\ monitorPc = "select"
  /\ baseWatched
  /\ base = "cancelled"
  /\ monitorPc' = "asked"
  /\ UNCHANGED <<req, contexts, system, callers, baseWatched, timedOut, verdict,
                 record, startPc, waitPc, log, detachedFirst>>

(* Faulty variants: the request is asked instead of the info; the answer   *)
(* is negated.                                                             *)
MonitorAsksDetached_Request ==
  /\ monitorPc = "asked"
  /\ ~req.detached
  /\ monitorPc' = "terminate"
  /\ verdict' = "base"
  /\ UNCHANGED <<req, contexts, system, callers, baseWatched, timedOut, record,
                 startPc, waitPc, log, detachedFirst>>

MonitorAsksDetached_Negated ==
  /\ monitorPc = "asked"
  /\ ~detached
  /\ monitorPc' = "select"
  /\ baseWatched' = FALSE
  /\ UNCHANGED <<req, contexts, system, callers, timedOut, verdict, record,
                 startPc, waitPc, log, detachedFirst>>

(* p.detached(): the answer decides, whatever Detach does a moment later.  *)
MonitorAsksDetached ==
  /\ monitorPc = "asked"
  /\ IF detached
       THEN /\ monitorPc' = "select"
            /\ baseWatched' = FALSE
            /\ UNCHANGED verdict
       ELSE /\ monitorPc' = "terminate"
            /\ verdict' = "base"
            /\ UNCHANGED baseWatched
  /\ UNCHANGED <<req, contexts, system, callers, timedOut, record, startPc,
                 waitPc, log, detachedFirst>>

(* terminateCommandProcess and return: nobody watches the timer any more. *)
MonitorTerminates ==
  /\ monitorPc = "terminate"
  /\ monitorPc' = "exited"
  /\ Deliver("terminate")
  /\ UNCHANGED <<req, contexts, overran, callers, baseWatched, timedOut, verdict,
                 record, startPc, waitPc, log, detachedFirst>>

MonitorStep ==
  \/ MonitorSeesDone \/ MonitorSeesControl \/ MonitorSeesTimerReleased
  \/ MonitorSeesDeadline \/ MonitorMarksTimeout \/ MonitorKills
  \/ MonitorSeesBase \/ MonitorAsksDetached \/ MonitorTerminates

-----------------------------------------------------------------------------
(* wait()                                                                  *)

(* Faulty variant: only the leader is waited for, not the copiers. *)
Reap_LeaderOnly ==
  /\ waitPc = "reap"
  /\ os[Leader] = "gone"
  /\ waitPc' = "load"
  /\ stdin' = IF stdin = "open" THEN "broken" ELSE stdin
  /\ UNCHANGED <<req, contexts, system, callers, monitor, info, inGroup, result,
                 startPc, log, detachedFirst>>

(* cmd.Wait: the leader is reaped, the copiers are joined, and os/exec     *)
(* closes its end of the input pipe.                                       *)
Reap ==
  /\ waitPc = "reap"
  /\ os[Leader] = "gone"
  /\ \A s \in Streams : copier[s] = "eof"
  /\ waitPc' = "load"
  /\ stdin' = IF stdin = "open" THEN "broken" ELSE stdin
  /\ UNCHANGED <<req, contexts, system, callers, monitor, info, inGroup, result,
                 startPc, log, detachedFirst>>

LoadResult ==
  /\ waitPc = "load"
  /\ waitPc' = "settle"
  /\ result' = [exit |-> status, timedOut |-> timedOut]
  /\ UNCHANGED <<req, contexts, system, callers, monitor, info, inGroup, stdin,
                 startPc, log, detachedFirst>>

SettleInfo ==
  /\ waitPc = "settle"
  /\ waitPc' = "leave"
  /\ running' = FALSE
  /\ paused' = FALSE
  /\ UNCHANGED <<req, contexts, system, callers, monitor, detached, inGroup, stdin, result,
                 startPc, log, detachedFirst>>

LeaveGroup ==
  /\ waitPc = "leave"
  /\ waitPc' = "release"
  /\ inGroup' = FALSE
  /\ UNCHANGED <<req, contexts, system, callers, monitor, info, stdin, result,
                 startPc, log, detachedFirst>>

ReleaseTimer ==
  /\ waitPc = "release"
  /\ waitPc' = "close"
  /\ timer' = IF timer = "expired" THEN timer ELSE "cancelled"
  /\ UNCHANGED <<req, base, controlled, system, callers, monitor, record,
                 startPc, log, detachedFirst>>

CloseStdin ==
  /\ waitPc = "close"
  /\ waitPc' = "emit"
  /\ stdin' = "nil"
  /\ UNCHANGED <<req, contexts, system, callers, monitor, info, inGroup, result,
                 startPc, log, detachedFirst>>

EmitExited ==
  /\ waitPc = "emit"
  /\ waitPc' = "finish"
  /\ log' = Append(log, "exited")
  /\ UNCHANGED <<req, contexts, system, callers, monitor, record, startPc,
                 detachedFirst>>

Finish ==
  /\ waitPc = "finish"
  /\ waitPc' = "over"
  /\ UNCHANGED <<req, contexts, system, callers, monitor, record, startPc, log,
                 detachedFirst>>

WaitStep ==
  \/ Reap \/ LoadResult \/ SettleInfo \/ LeaveGroup
  \/ ReleaseTimer \/ CloseStdin \/ EmitExited \/ Finish

-----------------------------------------------------------------------------
(* Callers of the handle.  A call whose own context is already cancelled   *)
(* returns without effect and is no step here.                             *)

MayCall(c, op) ==
  /\ callPc[c] = "idle"
  /\ calls[c] < Len(req.script[c])
  /\ op \in req.script[c][calls[c] + 1]

Calling(c, op, next) ==
  /\ Registered
  /\ MayCall(c, op)
  /\ calls' = [calls EXCEPT ![c] = @ + 1]
  /\ call' = [call EXCEPT ![c] = op]
  /\ callPc' = [callPc EXCEPT ![c] = next]
  /\ fatal' = (fatal \/ op \in FatalSignals)

Returned(c) ==
  /\ callPc' = [callPc EXCEPT ![c] = "idle"]
  /\ call' = [call EXCEPT ![c] = "none"]

(* Faulty variants: Resume forgets to clear the flag; Kill sends SIGTERM. *)
Signal_ForgetsResume(c, signal) ==
  /\ Calling(c, signal, IF signal \in FatalSignals THEN "cancel"
                     ELSE IF signal = "pause" THEN "record" ELSE "emit")
  /\ Deliver(signal)
  /\ UNCHANGED <<req, contexts, overran, monitor, record, startPc, waitPc, log,
                 detachedFirst>>

Signal_PoliteKill(c, signal) ==
  /\ Calling(c, signal, IF signal \in FatalSignals THEN "cancel"
                     ELSE IF signal \in {"pause", "resume"} THEN "record"
                     ELSE "emit")
  /\ Deliver(IF signal = "kill" THEN "terminate" ELSE signal)
  /\ UNCHANGED <<req, contexts, overran, monitor, record, startPc, waitPc, log,
                 detachedFirst>>

Signal(c, signal) ==
  /\ Calling(c, signal, IF signal \in FatalSignals THEN "cancel"
                     ELSE IF signal \in {"pause", "resume"} THEN "record"
                     ELSE "emit")
  /\ Deliver(signal)
  /\ UNCHANGED <<req, contexts, overran, monitor, record, startPc, waitPc, log,
                 detachedFirst>>

(* p.cancel(), which sends the monitor away. *)
CancelControl(c) ==
  /\ callPc[c] = "cancel"
  /\ callPc' = [callPc EXCEPT ![c] = "emit"]
  /\ controlled' = TRUE
  /\ UNCHANGED <<req, base, timer, system, call, calls, fatal, monitor, record,
                 startPc, waitPc, log, detachedFirst>>

(* Faulty variant: setPaused does not look at Running. *)
RecordPaused_Unchecked(c) ==
  /\ callPc[c] = "record"
  /\ callPc' = [callPc EXCEPT ![c] = "emit"]
  /\ paused' = (call[c] = "pause")
  /\ UNCHANGED <<req, contexts, system, call, calls, fatal, monitor, running, detached,
                 inGroup, stdin, result, startPc, waitPc, log, detachedFirst>>

(* setPaused: a process that has ended is never paused. *)
RecordPaused(c) ==
  /\ callPc[c] = "record"
  /\ callPc' = [callPc EXCEPT ![c] = "emit"]
  /\ paused' = (running /\ call[c] = "pause")
  /\ UNCHANGED <<req, contexts, system, call, calls, fatal, monitor, running, detached,
                 inGroup, stdin, result, startPc, waitPc, log, detachedFirst>>

Detach(c) ==
  /\ Calling(c, "detach", "emit")
  /\ detached' = TRUE
  /\ detachedFirst' = IF base = "cancelled" THEN detachedFirst ELSE TRUE
  /\ UNCHANGED <<req, contexts, system, monitor, running, paused, inGroup, stdin, result, startPc,
                 waitPc, log>>

(* closeInput: closing a pipe that os/exec closed is an error, closing a   *)
(* second time is not.                                                     *)
CloseInput(c) ==
  /\ stdin # "broken"
  /\ Calling(c, "close_input", "emit")
  /\ stdin' = "nil"
  /\ UNCHANGED <<req, contexts, system, monitor, info, inGroup, result, startPc,
                 waitPc, log, detachedFirst>>

CloseInputFails(c) ==
  /\ stdin = "broken"
  /\ MayCall(c, "close_input")
  /\ calls' = [calls EXCEPT ![c] = @ + 1]
  /\ stdin' = "nil"
  /\ UNCHANGED <<req, contexts, system, callPc, call, fatal, monitor, info, inGroup,
                 result, startPc, waitPc, log, detachedFirst>>

EmitCall(c) ==
  /\ callPc[c] = "emit"
  /\ Returned(c)
  /\ log' = Append(log, EventOf(call[c]))
  /\ UNCHANGED <<req, contexts, system, calls, fatal, monitor, record, startPc,
                 waitPc, detachedFirst>>

Wait(c) ==
  /\ Calling(c, "wait", "waiting")
  /\ UNCHANGED <<req, contexts, system, monitor, record, startPc, waitPc, log,
                 detachedFirst>>

LeaveWait(c) ==
  /\ callPc[c] = "waiting"
  /\ Returned(c)
  /\ UNCHANGED <<req, contexts, system, calls, fatal, monitor, record, startPc,
                 waitPc, log, detachedFirst>>

WaitAnswers(c) == Done /\ LeaveWait(c)

(* The caller's context ends first; the process is left as it is. *)
WaitGivesUp(c) == LeaveWait(c)

CallStep(c) ==
  CancelControl(c) \/ RecordPaused(c) \/ EmitCall(c) \/ WaitAnswers(c)

-----------------------------------------------------------------------------
Next ==
  \/ StartStep
  \/ MonitorStep
  \/ WaitStep
  \/ CancelBase
  \/ DeadlinePasses
  \/ \E s \in Streams : CopierStep(s)
  \/ \E m \in Members : \/ ExitByItself(m)
                         \/ \E p \in Members : Fork(p, m)
                         \/ \E s \in Streams : WriteChunk(m, s) \/ LetGo(m, s)
  \/ \E c \in Callers : \/ \E signal \in Signals : Signal(c, signal)
                        \/ Detach(c) \/ CloseInput(c) \/ CloseInputFails(c) \/ Wait(c)
                        \/ WaitGivesUp(c)
                        \/ CallStep(c)

Spec == Init /\ [][Next]_vars

(* The Go scheduler runs every goroutine that can go on, timers fire.  No  *)
(* fairness for what a program does by itself, for new calls, nor for a    *)
(* caller's context.                                                       *)
Fairness ==
  /\ WF_vars(StartStep)
  /\ WF_vars(MonitorStep)
  /\ WF_vars(WaitStep)
  /\ WF_vars(DeadlinePasses)
  /\ \A s \in Streams : WF_vars(CopierStep(s))
  /\ \A c \in Callers : WF_vars(CallStep(c))

FairSpec == Spec /\ Fairness

-----------------------------------------------------------------------------
(* Safety                                                                  *)

(* Whoever learns that the process is over (Wait, a closed done channel)   *)
(* finds everything about it settled: no caller of Info, List or the group *)
(* sees it running or paused, however late a Pause comes, its input is     *)
(* closed, the program has ended and nobody can write to its streams any   *)
(* more.  A member that let go of them may live on, watched by nobody.     *)
DoneIsSettled ==
  Done =>
    /\ result # NoResult
    /\ ~running /\ ~paused
    /\ ~inGroup
    /\ stdin = "nil"
    /\ os[Leader] = "gone"
    /\ \A s \in Streams : Holding(s) = {} /\ copier[s] = "eof"

(* Once the exit is reported, every chunk the group wrote has been         *)
(* reported before it: none is left in a pipe or in a copier's hands.      *)
Emitted(kind) == {i \in 1..Len(log) : log[i] = kind}
OutputBeforeExit ==
  Emitted("exited") # {} =>
    \A s \in Streams : pipe[s] = 0 /\ copier[s] # "holding"

(* A process whose program, or whose last holder of a stream, the deadline *)
(* killed is reported as timed out, although kill and report are made by   *)
(* two goroutines; and only a deadline that has passed makes a timeout.    *)
(* Members cmd.Wait does not wait for may be killed after the report.      *)
TimeoutReported ==
  /\ (result # NoResult /\ overran # {}) => result.timedOut
  /\ timedOut => timer = "expired"

(* monitor() acts for the reason it gives: it ends the process for its     *)
(* caller's context only if that was cancelled and nobody detached the     *)
(* process before, for its control context only after a Stop or a Kill.    *)
MonitorJustified ==
  /\ verdict = "base" => base = "cancelled" /\ ~detachedFirst
  /\ verdict = "control" => fatal
  /\ verdict = "timeout" => req.timeout

(* Info of a running process tells whether its group is stopped, as long   *)
(* as calls come one after the other (one caller); also when its program   *)
(* has ended and others of the group keep it running.                      *)
PausedMatchesGroup ==
  (running /\ \A c \in Callers : callPc[c] # "record") =>
    \A m \in Alive : (os[m] = "stopped") <=> paused

(* What the handle promises, see ProcessContract.                          *)
Phase ==
  IF Done THEN "settled"
  ELSE IF waitPc = "finish" THEN "exited"
  ELSE IF startPc \in {"announced", "ready"} THEN "live"
  ELSE "absent"

Answer == IF Done THEN result ELSE NoResult

Contract == INSTANCE ProcessContract WITH
  phase <- Phase, answer <- Answer, NoAnswer <- NoResult

ImplementsContract == Contract!Spec

-----------------------------------------------------------------------------
(* Liveness                                                                *)

(* Kill ends the process, whatever it ignores and even if it is stopped.   *)
KillEnds ==
  \A c \in Callers : (callPc[c] = "cancel" /\ call[c] = "kill") ~> Done

(* Cancelling the context that started a process ends a process that       *)
(* obeys SIGTERM, unless it has been detached or stopped.                  *)
CancelEnds ==
  (base = "cancelled" /\ deaf = {}) ~>
    (Done \/ detached \/ startPc = "failed" \/ \E m \in Members : os[m] = "stopped")

(* A deadline that passes ends the process, even one that is stopped or    *)
(* ignores signals, unless the caller's context has been cancelled.        *)
DeadlineEnds ==
  timer = "expired" ~> (Done \/ startPc = "failed" \/ base = "cancelled")

(* The monitor goroutine does not outlive its process, and no caller of    *)
(* Wait is left behind.                                                    *)
NobodyLeftBehind ==
  Done ~> (monitorPc = "exited" /\ \A c \in Callers : callPc[c] # "waiting")

=============================================================================
