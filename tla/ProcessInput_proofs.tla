------------------------- MODULE ProcessInput_proofs -------------------------
(***************************************************************************)
(* Theorems about the contract of a process handle, for every set of       *)
(* control events and of outcomes, and about ProcessInput, which runs on   *)
(* it, for every number of writers and of calls, every size of a write and *)
(* of the pipe.                                                            *)
(*                                                                         *)
(* What reaches the process is whole because p.writeMu admits one writer   *)
(* (OneWriter), which goes on where the pipe ends (Pipe), and because a    *)
(* write that ends before its last byte leaves a pipe behind that nobody   *)
(* can write to again.  What Write answers stays true because its caller   *)
(* leaves an unfinished write only after it has closed the pipe (Told).    *)
(***************************************************************************)
EXTENDS ProcessInput, FiniteSetTheorems, TLAPS

-----------------------------------------------------------------------------
(* The contract: its log tells a lifecycle in order.                       *)

(* What the phase says about the log. *)
PhaseTellsLog ==
  /\ phase = "absent" => \A i \in 1..Len(log) : log[i] \in ControlEvents
  /\ phase # "absent" => \E i \in 1..Len(log) : log[i] = "started"
  /\ phase \in {"exited", "settled"} => \E i \in 1..Len(log) : log[i] = "exited"
  /\ phase = "live" => \A i \in 1..Len(log) : log[i] # "exited"
  /\ answer # NoAnswer => phase = "settled"

Inv ==
  /\ TypeOK
  /\ PhaseTellsLog
  /\ LogInOrder(log)
  /\ LogAnnounced(log)

(* A control event can be reported at any place of a log. *)
LEMMA AppendControl ==
  ASSUME TypeOK, LogInOrder(log), LogAnnounced(log),
         NEW kind \in ControlEvents, log' = Append(log, kind)
  PROVE  LogInOrder(log)' /\ LogAnnounced(log)'
BY KindsAreDistinct DEF TypeOK, Kinds, LogInOrder, LogAnnounced

(* An event of the lifecycle can follow the announcement before the exit.  *)
LEMMA AppendLifecycle ==
  ASSUME TypeOK, LogInOrder(log), LogAnnounced(log),
         NEW kind \in {"output", "exited"}, log' = Append(log, kind),
         \E i \in 1..Len(log) : log[i] = "started",
         \A i \in 1..Len(log) : log[i] # "exited"
  PROVE  LogInOrder(log)' /\ LogAnnounced(log)'
BY KindsAreDistinct DEF TypeOK, Kinds, LogInOrder, LogAnnounced

(* The announcement can follow control events only. *)
LEMMA AppendStarted ==
  ASSUME TypeOK, LogInOrder(log), LogAnnounced(log),
         log' = Append(log, "started"),
         \A i \in 1..Len(log) : log[i] \in ControlEvents
  PROVE  LogInOrder(log)' /\ LogAnnounced(log)'
BY KindsAreDistinct DEF TypeOK, Kinds, LogInOrder, LogAnnounced

LEMMA TypeStep == TypeOK /\ [Next]_vars => TypeOK'
BY DEF TypeOK, Next, vars, Announce, Output, Control, Exit, Settle, Kinds

LEMMA InvInit == Init => Inv
BY DEF Init, Inv, TypeOK, PhaseTellsLog, LogInOrder, LogAnnounced, Kinds

LEMMA InvStep == Inv /\ [Next]_vars => Inv'
<1> SUFFICES ASSUME Inv, [Next]_vars PROVE Inv'
  OBVIOUS
<1> USE DEF Inv
<1>1. TypeOK'
  BY TypeStep
<1>2. CASE Announce
  <2>1. \A i \in 1..Len(log) : log[i] \in ControlEvents
    BY <1>2 DEF Announce, PhaseTellsLog
  <2>2. log' = Append(log, "started")
    BY <1>2 DEF Announce
  <2>3. LogInOrder(log)' /\ LogAnnounced(log)'
    BY <2>1, <2>2, AppendStarted
  <2>4. PhaseTellsLog'
    BY <1>2, <2>1, KindsAreDistinct DEF Announce, PhaseTellsLog, TypeOK, Kinds
  <2> QED BY <1>1, <2>3, <2>4
<1>3. CASE Output
  <2>1. LogInOrder(log)' /\ LogAnnounced(log)'
    BY <1>3, AppendLifecycle DEF Output, PhaseTellsLog
  <2>2. PhaseTellsLog'
    BY <1>3 DEF Output, PhaseTellsLog, TypeOK
  <2> QED BY <1>1, <2>1, <2>2
<1>4. CASE \E kind \in ControlEvents : Control(kind)
  <2> PICK kind \in ControlEvents : Control(kind)
    BY <1>4
  <2>1. LogInOrder(log)' /\ LogAnnounced(log)'
    BY AppendControl DEF Control
  <2>2. PhaseTellsLog'
    BY KindsAreDistinct DEF Control, PhaseTellsLog, TypeOK
  <2> QED BY <1>1, <2>1, <2>2
<1>5. CASE Exit
  <2>1. LogInOrder(log)' /\ LogAnnounced(log)'
    BY <1>5, AppendLifecycle DEF Exit, PhaseTellsLog
  <2>2. PhaseTellsLog'
    BY <1>5 DEF Exit, PhaseTellsLog, TypeOK
  <2> QED BY <1>1, <2>1, <2>2
<1>6. CASE \E outcome \in Outcomes : Settle(outcome)
  <2>1. UNCHANGED log /\ PhaseTellsLog'
    BY <1>6 DEF Settle, PhaseTellsLog
  <2> QED BY <1>1, <2>1 DEF LogInOrder, LogAnnounced
<1>7. CASE UNCHANGED vars
  BY <1>1, <1>7 DEF vars, PhaseTellsLog, LogInOrder, LogAnnounced
<1> QED BY <1>2, <1>3, <1>4, <1>5, <1>6, <1>7 DEF Next

(* Whoever meets this contract reports one announcement before any output  *)
(* or exit, nothing after the exit, and answers only after the exit.       *)
THEOREM LogTellsLifecycle == Spec => []LifecycleInOrder
<1>1. Inv => LifecycleInOrder
  BY DEF Inv, LifecycleInOrder, PhaseTellsLog
<1> QED BY <1>1, InvInit, InvStep, PTL DEF Spec

-----------------------------------------------------------------------------
(* The input.                                                              *)

Broken == file = "closed" \/ child # "reading"

OneWriter ==
  \A v, w \in Writes :
    (writer[v].pc \in {"load", "write"} /\ writer[w].pc \in {"load", "write"}) => v = w

(* A write's goroutine counts what entered the pipe for it. *)
Goroutines ==
  \A w \in Writes :
    /\ Entered(w) = writer[w].sent
    /\ writer[w].pc \in {"none", "lock", "load"} => writer[w].sent = 0
    /\ writer[w].pc = "write" => writer[w].sent < Size
    /\ (writer[w].pc = "ended" /\ writer[w].err = "nil") => writer[w].sent = Size
    /\ w[2] > caller[w[1]].calls => writer[w].pc = "none"

Calling ==
  \A c \in Writers :
    caller[c].pc \in {"select", "leave"} => Current(c) \in Writes

Last == fed[Len(fed)]
Pipe ==
  /\ stdin = "nil" => file = "closed"
  /\ fed # << >> =>
       \/ Last.byte = Size
       \/ writer[Last.write].pc = "write" /\ writer[Last.write].sent = Last.byte
       \/ Broken
  /\ \A w \in Writes : (writer[w].pc = "write" /\ writer[w].sent > 0) =>
       fed # << >> /\ Last.write = w /\ Last.byte = writer[w].sent

Told ==
  /\ told \in [Writes -> [n : Nat, entered : Nat,
                          err : {"nil", "closed", "broken", "context", "untold"}]]
  /\ \A w \in Writes : told[w] # Untold => (writer[w].pc = "ended" \/ file = "closed")

InputInv ==
  /\ InputTypeOK /\ OneWriter /\ Goroutines /\ Calling /\ Pipe /\ Told
  /\ WritesAreWhole /\ AnswersAreTrue

-----------------------------------------------------------------------------
(* Every step of the input is a step of the contract or none of it.        *)
LEMMA StepOfContract == [InputNext]_inputVars => [Next]_vars
<1> SUFFICES ASSUME [InputNext]_inputVars PROVE [Next]_vars
  OBVIOUS
<1> USE DEF contract, vars
<1>1. ASSUME NEW c \in Writers, Write(c) \/ CallCloseInput(c) \/ CancelContext(c) \/ Answer(c) \/ GiveUp(c) \/ Leave(c)
      PROVE  UNCHANGED vars
  BY <1>1 DEF Write, CallCloseInput, CancelContext, Answer, GiveUp, Leave
<1>2. ASSUME NEW c \in Writers, Emit(c) PROVE \E kind \in ControlEvents : Control(kind)
  BY <1>2, InputAssumption DEF Emit
<1>3. ASSUME NEW w \in Writes, Goroutine(w) PROVE UNCHANGED vars
  BY <1>3 DEF Goroutine, Lock, Load, Feed, WriteFails
<1>4. ASSUME Reads \/ Stops \/ Reap \/ CloseStdin PROVE UNCHANGED vars
  BY <1>4 DEF Reads, Stops, Reap, CloseStdin
<1>5. CASE Speaks
  BY <1>5 DEF Speaks, Next
<1>6. CASE Announces
  BY <1>6 DEF Announces, Next
<1>7. CASE EmitExited
  BY <1>7 DEF EmitExited, Next
<1>8. CASE Finish
  BY <1>8 DEF Finish, Next
<1>9. CASE UNCHANGED inputVars
  BY <1>9 DEF inputVars
<1> QED
  BY <1>1, <1>2, <1>3, <1>4, <1>5, <1>6, <1>7, <1>8, <1>9 DEF InputNext, CallStep, StartAndWait, Next

(* Interactive use of a process keeps the contract of its handle: whatever *)
(* writers and closers do, a log is a log of the contract.                 *)
THEOREM InputKeepsContract == InputSpec => Spec
<1>1. InputInit => Init
  BY DEF InputInit
<1> QED BY <1>1, StepOfContract, PTL DEF InputSpec, Spec

-----------------------------------------------------------------------------
LEMMA WritesAreCalls ==
  ASSUME NEW w
  PROVE  w \in Writes <=> \E c \in Writers : \E i \in 1..MaxCalls[c] : w = <<c, i>>
BY DEF Writes

LEMMA CallerOf ==
  ASSUME NEW w \in Writes
  PROVE  w[1] \in Writers /\ w[2] \in Nat /\ w = <<w[1], w[2]>>
<1>1. PICK c \in Writers : \E i \in 1..MaxCalls[c] : w = <<c, i>>
  BY WritesAreCalls
<1>3. PICK i \in 1..MaxCalls[c] : w = <<c, i>>
  BY <1>1
<1>2. MaxCalls[c] \in Nat
  BY InputAssumption
<1> QED BY <1>2, <1>3

(* What the assignments of the callers and of their goroutines change.     *)
CallerRecord == [pc : {"idle", "select", "leave", "input", "input_closed"},
                 ctx : {"live", "cancelled"}, calls : Nat]
WriterRecord == [pc : {"none", "lock", "load", "write", "ended"},
                 sent : 0..Size, err : {"nil", "closed", "broken"}]

LEMMA BeginsMoves ==
  ASSUME caller \in [Writers -> CallerRecord], NEW c \in Writers,
         NEW pc \in {"idle", "select", "input_closed"}, Begins(c, pc)
  PROVE  /\ caller' \in [Writers -> CallerRecord]
         /\ caller'[c].pc = pc /\ caller'[c].calls = caller[c].calls + 1
         /\ \A d \in Writers \ {c} : caller'[d] = caller[d]
<1>1. caller[c] \in CallerRecord
  OBVIOUS
<1>2. DOMAIN caller' = Writers /\ \A d \in Writers \ {c} : caller'[d] = caller[d]
  BY DEF Begins
<1>3. caller'[c].pc = pc /\ caller'[c].calls = caller[c].calls + 1
  BY <1>1 DEF Begins, CallerRecord
<1>4. caller'[c] \in CallerRecord
  BY <1>1 DEF Begins, CallerRecord
<1> QED BY <1>2, <1>3, <1>4 DEF Begins

LEMMA EndsMoves ==
  ASSUME writer \in [Writes -> WriterRecord], NEW w \in Writes,
         NEW n \in 0..Size, NEW e \in {"nil", "closed", "broken"}, Ends(w, n, e)
  PROVE  /\ writer' \in [Writes -> WriterRecord]
         /\ writer'[w].pc = "ended" /\ writer'[w].sent = n /\ writer'[w].err = e
         /\ \A v \in Writes \ {w} : writer'[v] = writer[v]
BY DEF Ends, WriterRecord

LEMMA WriterGoes ==
  ASSUME writer \in [Writes -> WriterRecord], NEW w \in Writes,
         NEW pc \in {"lock", "load", "write"}, writer' = [writer EXCEPT ![w].pc = pc]
  PROVE  /\ writer' \in [Writes -> WriterRecord]
         /\ writer'[w].pc = pc /\ writer'[w].sent = writer[w].sent
         /\ writer'[w].err = writer[w].err
         /\ \A v \in Writes \ {w} : writer'[v] = writer[v]
<1>1. writer[w] \in WriterRecord
  OBVIOUS
<1> QED BY <1>1 DEF WriterRecord

(* One byte more of a write enters the pipe. *)
LEMMA FeedMoves ==
  ASSUME InputTypeOK, NEW w \in Writes, Feed(w), writer[w].sent < Size
  PROVE  /\ writer' \in [Writes -> WriterRecord]
         /\ writer'[w].sent = writer[w].sent + 1
         /\ \/ writer'[w].pc = "write" /\ writer'[w].sent < Size
            \/ writer'[w].pc = "ended" /\ writer'[w].sent = Size
         /\ \A v \in Writes \ {w} : writer'[v] = writer[v]
<1>1. writer \in [Writes -> WriterRecord] /\ writer[w] \in WriterRecord
  BY DEF InputTypeOK, WriterRecord
<1>2. Size \in Nat /\ Size > 0 /\ writer[w].sent \in Nat /\ writer[w].pc = "write"
  BY <1>1, InputAssumption DEF WriterRecord, Feed
<1>3. CASE writer[w].sent + 1 = Size
  <2>1. Ends(w, Size, "nil")
    BY <1>3 DEF Feed
  <2>2. Size \in 0..Size
    BY <1>2
  <2> QED BY <1>1, <1>2, <1>3, <2>1, <2>2, EndsMoves
<1>4. CASE writer[w].sent + 1 # Size
  <2>1. writer' = [writer EXCEPT ![w].sent = @ + 1]
    BY <1>4 DEF Feed
  <2>2. writer[w].sent + 1 \in 0..Size
    BY <1>2
  <2>3. writer'[w].sent = writer[w].sent + 1 /\ writer'[w].pc = "write"
    BY <1>1, <1>2, <2>1 DEF WriterRecord
  <2>4. writer' \in [Writes -> WriterRecord] /\ \A v \in Writes \ {w} : writer'[v] = writer[v]
    BY <1>1, <2>1, <2>2 DEF WriterRecord
  <2> QED BY <1>2, <1>4, <2>3, <2>4
<1> QED BY <1>3, <1>4

(* Types. *)
LEMMA InputTypeStep ==
  ASSUME InputInv, [InputNext]_inputVars
  PROVE  InputTypeOK'
<1>0. /\ InputTypeOK /\ TypeOK'
      /\ caller \in [Writers -> CallerRecord] /\ writer \in [Writes -> WriterRecord]
  <2>1. InputTypeOK /\ TypeOK
    BY DEF InputInv, InputTypeOK
  <2> QED BY <2>1, StepOfContract, TypeStep DEF InputTypeOK, CallerRecord, WriterRecord
<1>1. /\ Size \in Nat /\ Size > 0
      /\ InputTypeOK' <=> /\ TypeOK' /\ stdin' \in {"nil", "pipe"} /\ file' \in {"open", "closed"}
                          /\ child' \in {"reading", "closed", "gone"}
                          /\ fed' \in Seq([write : Writes, byte : 1..Size])
                          /\ taken' \in 0..Len(fed')
                          /\ waitPc' \in {"reap", "close", "emit", "finish", "over"}
                          /\ caller' \in [Writers -> CallerRecord]
                          /\ writer' \in [Writes -> WriterRecord]
  BY InputAssumption DEF InputTypeOK, CallerRecord, WriterRecord
<1>2. ASSUME NEW c \in Writers, Write(c)
      PROVE  InputTypeOK'
  <2> DEFINE w == <<c, caller[c].calls + 1>>
  <2>1. w \in Writes
    <3>1. caller[c].calls + 1 \in 1..MaxCalls[c]
      BY <1>0, <1>2, InputAssumption DEF Write, MayCall, CallerRecord
    <3> QED BY <3>1, WritesAreCalls
  <2>2. writer' \in [Writes -> WriterRecord]
    BY <1>0, <1>2, <2>1, WriterGoes DEF Write
  <2>3. caller' \in [Writers -> CallerRecord]
    BY <1>0, <1>2, BeginsMoves DEF Write
  <2> QED BY <1>0, <1>1, <1>2, <2>2, <2>3 DEF Write, InputTypeOK, contract, pipe
<1>3. ASSUME NEW c \in Writers, Answer(c)
      PROVE  InputTypeOK'
  <2>1. caller' \in [Writers -> CallerRecord]
    BY <1>0, <1>3 DEF Answer, Goes, Returns, CallerRecord
  <2> QED BY <1>0, <1>1, <1>3, <2>1 DEF Answer, InputTypeOK, contract, pipe
<1>4. ASSUME NEW c \in Writers, GiveUp(c)
      PROVE  InputTypeOK'
  <2>1. caller' \in [Writers -> CallerRecord]
    BY <1>0, <1>4 DEF GiveUp, Goes, CallerRecord
  <2> QED BY <1>0, <1>1, <1>4, <2>1 DEF GiveUp, InputTypeOK, contract, pipe
<1>5. ASSUME NEW c \in Writers, Leave(c)
      PROVE  InputTypeOK'
  <2>1. caller' \in [Writers -> CallerRecord]
    BY <1>0, <1>5 DEF Leave, Returns, CallerRecord
  <2> QED BY <1>0, <1>1, <1>5, <2>1 DEF Leave, CloseInput, InputTypeOK, contract, pipe
<1>6. ASSUME NEW c \in Writers, CallCloseInput(c)
      PROVE  InputTypeOK'
  <2>1. caller' \in [Writers -> CallerRecord]
    BY <1>0, <1>6, BeginsMoves DEF CallCloseInput
  <2> QED BY <1>0, <1>1, <1>6, <2>1 DEF CallCloseInput, CloseInput, InputTypeOK, contract, pipe
<1>7. ASSUME NEW c \in Writers, Emit(c)
      PROVE  InputTypeOK'
  <2>1. caller' \in [Writers -> CallerRecord]
    BY <1>0, <1>7 DEF Emit, Returns, CallerRecord
  <2> QED BY <1>0, <1>1, <1>7, <2>1 DEF Emit, InputTypeOK, pipe
<1>8. ASSUME NEW c \in Writers, CancelContext(c)
      PROVE  InputTypeOK'
  <2>1. caller' \in [Writers -> CallerRecord]
    BY <1>0, <1>8 DEF CancelContext, CallerRecord
  <2> QED BY <1>0, <1>1, <1>8, <2>1 DEF CancelContext, InputTypeOK, contract, pipe
<1>9. ASSUME NEW w \in Writes, Lock(w)
       PROVE  InputTypeOK'
  <2>1. writer' \in [Writes -> WriterRecord]
    BY <1>0, <1>9, WriterGoes DEF Lock
  <2> QED BY <1>0, <1>1, <1>9, <2>1 DEF Lock, InputTypeOK, contract, pipe
<1>10. ASSUME NEW w \in Writes, Load(w)
       PROVE  InputTypeOK'
  <2>1. writer' \in [Writes -> WriterRecord]
    BY <1>0, <1>1, <1>10, WriterGoes, EndsMoves DEF Load
  <2> QED BY <1>0, <1>1, <1>10, <2>1 DEF Load, InputTypeOK, contract, pipe
<1>11. ASSUME NEW w \in Writes, Feed(w)
       PROVE  InputTypeOK'
  <2>1. writer[w].sent \in 0..Size /\ writer[w].sent < Size
    BY <1>0, <1>11 DEF InputInv, Goroutines, Feed, InputTypeOK
  <2>2. fed' \in Seq([write : Writes, byte : 1..Size]) /\ Len(fed') = Len(fed) + 1
    BY <1>0, <1>1, <1>11, <2>1 DEF Feed, InputTypeOK
  <2>3. taken' \in 0..Len(fed')
    BY <1>0, <1>11, <2>2 DEF Feed, InputTypeOK
  <2>4. writer' \in [Writes -> WriterRecord]
    BY <1>0, <1>11, <2>1, FeedMoves
  <2> QED BY <1>0, <1>1, <1>11, <2>2, <2>3, <2>4 DEF Feed, InputTypeOK, contract
<1>12. ASSUME NEW w \in Writes, WriteFails(w)
       PROVE  InputTypeOK'
  BY <1>0, <1>1, <1>12 DEF WriteFails, InputTypeOK, contract, pipe, Goes, Returns, Begins, Ends, CloseInput, Tell
<1>13. CASE Speaks
  BY <1>0, <1>1, <1>13 DEF Speaks, InputTypeOK, contract, pipe, Goes, Returns, Begins, Ends, CloseInput, Tell
<1>14. CASE Reads
  BY <1>0, <1>1, <1>14 DEF Reads, InputTypeOK, contract, pipe, Goes, Returns, Begins, Ends, CloseInput, Tell
<1>15. CASE Stops
  BY <1>0, <1>1, <1>15 DEF Stops, InputTypeOK, contract, pipe, Goes, Returns, Begins, Ends, CloseInput, Tell
<1>16. CASE Announces
  BY <1>0, <1>1, <1>16 DEF Announces, InputTypeOK, contract, pipe, Goes, Returns, Begins, Ends, CloseInput, Tell
<1>17. CASE Reap
  BY <1>0, <1>1, <1>17 DEF Reap, InputTypeOK, contract, pipe, Goes, Returns, Begins, Ends, CloseInput, Tell
<1>18. CASE CloseStdin
  BY <1>0, <1>1, <1>18 DEF CloseStdin, InputTypeOK, contract, pipe, Goes, Returns, Begins, Ends, CloseInput, Tell
<1>19. CASE EmitExited
  BY <1>0, <1>1, <1>19 DEF EmitExited, InputTypeOK, contract, pipe, Goes, Returns, Begins, Ends, CloseInput, Tell
<1>20. CASE Finish
  BY <1>0, <1>1, <1>20 DEF Finish, InputTypeOK, contract, pipe, Goes, Returns, Begins, Ends, CloseInput, Tell
<1>21. CASE UNCHANGED inputVars
  BY <1>0, <1>1, <1>21 DEF inputVars, vars, InputTypeOK, contract, pipe, Goes, Returns, Begins, Ends, CloseInput, Tell
<1> QED
  BY <1>2, <1>3, <1>4, <1>5, <1>6, <1>7, <1>8, <1>9, <1>10, <1>11, <1>12, <1>13, <1>14, <1>15, <1>16, <1>17, <1>18, <1>19, <1>20, <1>21
     DEF InputNext, CallStep, Goroutine, StartAndWait

-----------------------------------------------------------------------------
(* Which variables a step can change, and how.                             *)

(* The pipe is left as it is, and so is everybody who writes to it.        *)
Quiet == /\ UNCHANGED <<stdin, file, child, fed, writer, told>>
         /\ \A c \in Writers : caller'[c].calls = caller[c].calls
(* One end of the pipe may be closed. *)
Closes == /\ UNCHANGED <<fed, writer, told>>
          /\ (Broken => Broken') /\ (file = "closed" => file' = "closed")
          /\ (stdin = "nil" => file = "closed") => (stdin' = "nil" => file' = "closed")
          /\ \A c \in Writers : caller'[c].calls \in {caller[c].calls, caller[c].calls + 1}

LEMMA CallsCounted ==
  ASSUME InputTypeOK, NEW c \in Writers,
         (\E pc \in {"input", "leave"} : Goes(c, pc)) \/ Returns(c)
           \/ caller' = [caller EXCEPT ![c].ctx = "cancelled"]
  PROVE  \A d \in Writers : caller'[d].calls = caller[d].calls
<1>1. caller \in [Writers -> CallerRecord] /\ caller[c] \in CallerRecord
  BY DEF InputTypeOK, CallerRecord
<1> QED BY <1>1 DEF Goes, Returns, CallerRecord

LEMMA QuietSteps ==
  ASSUME InputTypeOK,
         \/ \E c \in Writers : CancelContext(c) \/ GiveUp(c) \/ Emit(c)
         \/ Speaks \/ Reads \/ Announces \/ EmitExited \/ Finish
  PROVE  Quiet
<1>1. ASSUME NEW c \in Writers, CancelContext(c) \/ GiveUp(c) \/ Emit(c) PROVE Quiet
  <2>1. \A d \in Writers : caller'[d].calls = caller[d].calls
    BY <1>1, CallsCounted DEF CancelContext, GiveUp, Emit
  <2> QED BY <1>1, <2>1 DEF CancelContext, GiveUp, Emit, Quiet, pipe
<1>2. CASE Speaks \/ Reads \/ Announces \/ EmitExited \/ Finish
  BY <1>2 DEF Speaks, Reads, Announces, EmitExited, Finish, Quiet, pipe
<1> QED BY <1>1, <1>2

LEMMA ClosingSteps ==
  ASSUME InputTypeOK,
         (\E c \in Writers : CallCloseInput(c)) \/ Stops \/ Reap \/ CloseStdin
  PROVE  Closes
<1>1. ASSUME NEW c \in Writers, CallCloseInput(c) PROVE Closes
  <2>1. caller \in [Writers -> CallerRecord]
    BY DEF InputTypeOK, CallerRecord
  <2>2. \A d \in Writers : caller'[d].calls \in {caller[d].calls, caller[d].calls + 1}
    BY <1>1, <2>1, BeginsMoves DEF CallCloseInput
  <2> QED BY <1>1, <2>2 DEF CallCloseInput, CloseInput, Closes, Broken, pipe, InputTypeOK
<1>2. CASE Stops
  BY <1>2 DEF Stops, Closes, Broken, pipe, InputTypeOK
<1>3. CASE Reap \/ CloseStdin
  BY <1>3 DEF Reap, CloseStdin, CloseInput, Closes, Broken, pipe, InputTypeOK
<1> QED BY <1>1, <1>2, <1>3

(* A write's goroutine goes on without a byte for the pipe. *)
Proceeds(w) ==
  /\ UNCHANGED <<stdin, file, child, fed, told>>
  /\ \A v \in Writes \ {w} : writer'[v] = writer[v]
  /\ writer'[w].sent = writer[w].sent
  /\ \/ writer[w].pc = "none" /\ writer'[w].pc = "lock"
     \/ writer[w].pc = "lock" /\ writer'[w].pc = "load" /\ ~Locked
     \/ writer[w].pc = "load" /\ writer'[w].pc = "write"
     \/ writer[w].pc = "load" /\ writer'[w].pc = "ended" /\ writer'[w].err = "closed"
     \/ writer[w].pc = "write" /\ writer'[w].pc = "ended" /\ writer'[w].err = "broken" /\ Broken
  /\ \A c \in Writers : caller'[c].calls \in {caller[c].calls, caller[c].calls + 1}
  /\ w[2] <= caller'[w[1]].calls

(* Write answers: with the result of its goroutine, or with the end of its *)
(* context after it has closed the pipe.                                   *)
Tells(w) ==
  /\ UNCHANGED <<child, fed, writer>>
  /\ file = "closed" => file' = "closed"
  /\ stdin' = "nil" => stdin = "nil" \/ file' = "closed"
  /\ \A c \in Writers : caller'[c].calls = caller[c].calls
  /\ \E n \in Nat, err \in {"nil", "closed", "broken", "context"} :
       /\ told' = [told EXCEPT ![w] = [n |-> n, err |-> err, entered |-> Entered(w)]]
       /\ \/ writer[w].pc = "ended" /\ n = writer[w].sent /\ err = writer[w].err
          \/ file' = "closed" /\ err = "context"

LEMMA WriteProceeds ==
  ASSUME InputInv, NEW c \in Writers, Write(c)
  PROVE  \E w \in Writes : Proceeds(w)
<1> DEFINE w == <<c, caller[c].calls + 1>>
<1>1. /\ caller \in [Writers -> CallerRecord] /\ writer \in [Writes -> WriterRecord]
      /\ caller[c].calls \in Nat
  BY DEF InputInv, InputTypeOK, CallerRecord, WriterRecord
<1>2. w \in Writes
  <2>1. caller[c].calls + 1 \in 1..MaxCalls[c]
    BY <1>1, InputAssumption DEF Write, MayCall
  <2> QED BY <2>1, WritesAreCalls
<1>3. /\ writer'[w].pc = "lock" /\ writer'[w].sent = writer[w].sent
      /\ \A v \in Writes \ {w} : writer'[v] = writer[v]
  BY <1>1, <1>2, WriterGoes DEF Write
<1>4. writer[w].pc = "none"
  BY <1>1, <1>2 DEF InputInv, Goroutines
<1>5. \A d \in Writers : caller'[d].calls \in {caller[d].calls, caller[d].calls + 1}
  BY <1>1, BeginsMoves DEF Write
<1>6. w[2] <= caller'[w[1]].calls
  BY <1>1, BeginsMoves DEF Write
<1>7. Proceeds(w)
  BY <1>3, <1>4, <1>5, <1>6 DEF Write, Proceeds, pipe
<1> QED BY <1>2, <1>7

LEMMA GoroutineProceeds ==
  ASSUME InputInv, NEW w \in Writes, Lock(w) \/ Load(w) \/ WriteFails(w)
  PROVE  Proceeds(w)
<1>1. /\ writer \in [Writes -> WriterRecord] /\ writer[w].sent \in 0..Size
      /\ caller \in [Writers -> CallerRecord]
  BY DEF InputInv, InputTypeOK, WriterRecord, CallerRecord
<1>2. w[1] \in Writers /\ w[2] \in Nat
  BY CallerOf
<1>3. w[2] <= caller[w[1]].calls
  <2>1. caller[w[1]].calls \in Nat /\ writer[w].pc # "none"
    BY <1>1, <1>2 DEF CallerRecord, Lock, Load, WriteFails
  <2> QED BY <1>2, <2>1 DEF InputInv, Goroutines
<1>4. UNCHANGED <<stdin, file, child, fed, told, caller>>
  BY DEF Lock, Load, WriteFails, pipe
<1>5. CASE Lock(w)
  BY <1>1, <1>3, <1>4, <1>5, WriterGoes DEF Lock, Proceeds
<1>6. CASE Load(w)
  <2>1. CASE stdin = "nil"
    <3>1. Ends(w, 0, "closed") /\ writer[w].sent = 0 /\ writer[w].pc = "load"
      BY <1>6, <2>1 DEF Load, InputInv, Goroutines
    <3>2. 0 \in 0..Size
      BY InputAssumption
    <3>3. /\ writer'[w].pc = "ended" /\ writer'[w].sent = 0 /\ writer'[w].err = "closed"
          /\ \A v \in Writes \ {w} : writer'[v] = writer[v]
      BY <1>1, <3>1, <3>2, EndsMoves
    <3> QED BY <1>3, <1>4, <3>1, <3>3 DEF Proceeds
  <2>2. CASE stdin # "nil"
    BY <1>1, <1>3, <1>4, <1>6, <2>2, WriterGoes DEF Load, Proceeds
  <2> QED BY <2>1, <2>2
<1>7. CASE WriteFails(w)
  <2>1. /\ writer'[w].pc = "ended" /\ writer'[w].sent = writer[w].sent /\ writer'[w].err = "broken"
        /\ \A v \in Writes \ {w} : writer'[v] = writer[v]
    BY <1>1, <1>7, EndsMoves DEF WriteFails
  <2> QED BY <1>3, <1>4, <1>7, <2>1 DEF WriteFails, Proceeds, Broken
<1> QED BY <1>5, <1>6, <1>7

LEMMA AnswersTell ==
  ASSUME InputInv, NEW c \in Writers, Answer(c) \/ Leave(c)
  PROVE  Current(c) \in Writes /\ Tells(Current(c))
<1> DEFINE w == Current(c)
<1>1. w \in Writes
  BY DEF Answer, Leave, InputInv, Calling
<1>2. InputTypeOK /\ (stdin = "nil" => file = "closed")
  BY DEF InputInv, Pipe
<1>3. writer[w].sent \in Nat /\ writer[w].err \in {"nil", "closed", "broken"}
  BY <1>1, <1>2, InputAssumption DEF InputTypeOK
<1> HIDE DEF w
<1>4. CASE Answer(c)
  <2>1. \A d \in Writers : caller'[d].calls = caller[d].calls
    BY <1>2, <1>4, CallsCounted DEF Answer
  <2> QED BY <1>1, <1>3, <1>4, <2>1 DEF Answer, Tells, Tell, pipe, w
<1>5. CASE Leave(c)
  <2>1. \A d \in Writers : caller'[d].calls = caller[d].calls
    BY <1>2, <1>5, CallsCounted DEF Leave
  <2>2. file' = "closed"
    BY <1>2, <1>5 DEF Leave, CloseInput, InputTypeOK
  <2> QED BY <1>1, <1>5, <2>1, <2>2 DEF Leave, Tells, Tell, pipe, w
<1> QED BY <1>4, <1>5 DEF w

(* There are five kinds of steps. *)
LEMMA StepKinds ==
  ASSUME InputInv, [InputNext]_inputVars
  PROVE  \/ Quiet \/ Closes
         \/ \E w \in Writes : Proceeds(w) \/ Feed(w) \/ Tells(w)
<1>1. InputTypeOK
  BY DEF InputInv
<1>2. CASE UNCHANGED inputVars
  BY <1>2 DEF inputVars, Quiet
<1>3. CASE InputNext
  BY <1>1, <1>3, QuietSteps, ClosingSteps, WriteProceeds, GoroutineProceeds, AnswersTell
     DEF InputNext, CallStep, Goroutine, StartAndWait
<1> QED BY <1>2, <1>3

-----------------------------------------------------------------------------
LEMMA EnteredIsCount ==
  ASSUME InputTypeOK, NEW w
  PROVE  Entered(w) \in Nat
<1> DEFINE S == {i \in DOMAIN fed : fed[i].write = w}
<1>1. IsFiniteSet(1..Len(fed)) /\ DOMAIN fed = 1..Len(fed)
  BY FS_Interval DEF InputTypeOK
<1>2. IsFiniteSet(S)
  BY <1>1, FS_Subset
<1> QED BY <1>2, FS_CardinalityType DEF Entered

LEMMA FeedEnters ==
  ASSUME InputTypeOK, NEW w \in Writes, Feed(w), writer[w].sent < Size
  PROVE  /\ Entered(w)' = Entered(w) + 1
         /\ \A v \in Writes \ {w} : Entered(v)' = Entered(v)
<1> DEFINE S(v) == {i \in DOMAIN fed : fed[i].write = v}
           top == Len(fed) + 1
           new == [write |-> w, byte |-> writer[w].sent + 1]
<1>1. /\ DOMAIN fed = 1..Len(fed) /\ Len(fed) \in Nat /\ IsFiniteSet(1..Len(fed))
      /\ DOMAIN fed' = 1..top /\ fed'[top] = new /\ \A i \in 1..Len(fed) : fed'[i] = fed[i]
  <2> DEFINE T == [write : Writes, byte : 1..Size]
  <2>1. writer[w].sent + 1 \in 1..Size
    BY InputAssumption DEF InputTypeOK
  <2>2. new \in T
    BY <2>1
  <2>3. fed \in Seq(T) /\ fed' = Append(fed, new)
    BY DEF InputTypeOK, Feed
  <2> HIDE DEF T, new
  <2>4. /\ DOMAIN fed = 1..Len(fed) /\ Len(fed) \in Nat
        /\ DOMAIN fed' = 1..top /\ fed'[top] = new /\ \A i \in 1..Len(fed) : fed'[i] = fed[i]
    BY <2>2, <2>3
  <2> QED BY <2>4, FS_Interval
<1>2. \A v : IsFiniteSet(S(v))
  BY <1>1, FS_Subset
<1>3. /\ {i \in DOMAIN fed' : fed'[i].write = w} = S(w) \cup {top}
      /\ top \notin S(w)
  BY <1>1
<1>4. ASSUME NEW v \in Writes \ {w} PROVE {i \in DOMAIN fed' : fed'[i].write = v} = S(v)
  BY <1>1
<1>5. Entered(w)' = Cardinality(S(w) \cup {top}) /\ Entered(w) = Cardinality(S(w))
  BY <1>3 DEF Entered
<1>6. \A v \in Writes \ {w} : Entered(v)' = Entered(v)
  BY <1>4 DEF Entered
<1>7. Entered(w)' = Entered(w) + 1
  <2> HIDE DEF S
  <2> QED BY <1>2, <1>3, <1>5, FS_AddElement
<1> QED BY <1>6, <1>7

LEMMA OneWriterStep ==
  ASSUME InputInv, [InputNext]_inputVars
  PROVE  OneWriter'
<1>0. InputTypeOK /\ OneWriter
  BY DEF InputInv
<1>1. CASE Quiet \/ Closes
  BY <1>0, <1>1 DEF Quiet, Closes, OneWriter
<1>2. ASSUME NEW w \in Writes, Proceeds(w) PROVE OneWriter'
  <2>1. CASE writer[w].pc = "lock" /\ writer'[w].pc = "load" /\ ~Locked
    BY <1>0, <1>2, <2>1 DEF Proceeds, OneWriter, Locked
  <2>2. CASE writer'[w].pc \notin {"load", "write"} \/ writer[w].pc = "load"
    BY <1>0, <1>2, <2>2 DEF Proceeds, OneWriter
  <2> QED BY <1>2, <2>1, <2>2 DEF Proceeds
<1>3. ASSUME NEW w \in Writes, Feed(w) PROVE OneWriter'
  <2>1. writer[w].pc = "write" /\ \A v \in Writes \ {w} : writer'[v] = writer[v]
    BY <1>0, <1>3, FeedMoves DEF InputInv, Goroutines, Feed
  <2> QED BY <1>0, <2>1 DEF OneWriter
<1>4. ASSUME NEW w \in Writes, Tells(w) PROVE OneWriter'
  BY <1>0, <1>4 DEF Tells, OneWriter
<1> QED BY <1>1, <1>2, <1>3, <1>4, StepKinds

LEMMA CallsGrow ==
  ASSUME InputInv, [InputNext]_inputVars, NEW c \in Writers
  PROVE  caller[c].calls \in Nat /\ caller'[c].calls \in {caller[c].calls, caller[c].calls + 1}
<1>1. InputTypeOK
  BY DEF InputInv
<1>2. ASSUME NEW w \in Writes, Feed(w) PROVE caller' = caller
  BY <1>2 DEF Feed
<1> QED BY <1>1, <1>2, StepKinds DEF Quiet, Closes, Proceeds, Tells, InputTypeOK

LEMMA GoroutinesStep ==
  ASSUME InputInv, [InputNext]_inputVars
  PROVE  Goroutines'
<1>0. InputTypeOK /\ Goroutines
  BY DEF InputInv
<1>1. \A w \in Writes : w[2] > caller'[w[1]].calls => w[2] > caller[w[1]].calls
  BY CallsGrow, CallerOf
<1>2. ASSUME UNCHANGED <<fed, writer>> PROVE Goroutines'
  <2>1. \A w \in Writes : Entered(w)' = Entered(w)
    BY <1>2 DEF Entered
  <2> QED BY <1>0, <1>1, <1>2, <2>1 DEF Goroutines
<1>3. ASSUME NEW w \in Writes, Proceeds(w) PROVE Goroutines'
  <2>1. \A v \in Writes : Entered(v)' = Entered(v)
    BY <1>3 DEF Proceeds, Entered
  <2>2. ~(w[2] > caller'[w[1]].calls)
    BY <1>3, CallsGrow, CallerOf DEF Proceeds
  <2>3. 0 < Size
    BY InputAssumption
  <2> QED BY <1>0, <1>1, <1>3, <2>1, <2>2, <2>3 DEF Proceeds, Goroutines
<1>4. ASSUME NEW w \in Writes, Feed(w) PROVE Goroutines'
  <2>1. /\ writer[w].sent < Size /\ writer[w].pc = "write" /\ ~(w[2] > caller[w[1]].calls)
        /\ writer[w].sent \in Nat
    BY <1>0, <1>4, InputAssumption DEF Goroutines, Feed, InputTypeOK
  <2>2. /\ Entered(w)' = Entered(w) + 1
        /\ \A v \in Writes \ {w} : Entered(v)' = Entered(v)
    BY <1>0, <1>4, <2>1, FeedEnters
  <2>3. /\ writer'[w].sent = writer[w].sent + 1
        /\ \/ writer'[w].pc = "write" /\ writer'[w].sent < Size
           \/ writer'[w].pc = "ended" /\ writer'[w].sent = Size
        /\ \A v \in Writes \ {w} : writer'[v] = writer[v]
    BY <1>0, <1>4, <2>1, FeedMoves
  <2> QED BY <1>0, <1>1, <2>1, <2>2, <2>3 DEF Goroutines
<1> QED BY <1>2, <1>3, <1>4, StepKinds DEF Quiet, Closes, Tells

LEMMA CallingStep ==
  ASSUME InputInv, [InputNext]_inputVars
  PROVE  Calling'
<1>0. InputTypeOK /\ InputTypeOK' /\ Calling
  BY InputTypeStep DEF InputInv
<1>1. caller \in [Writers -> CallerRecord]
  BY <1>0 DEF InputTypeOK, CallerRecord
<1>2. ASSUME NEW c \in Writers, NEW d \in Writers, Write(d),
             caller'[c].pc \in {"select", "leave"}
      PROVE  Current(c)' \in Writes
  <2>1. CASE c = d
    <3>1. caller'[c].calls = caller[c].calls + 1 /\ caller[c].calls < MaxCalls[c] /\ caller[c].calls \in Nat
      BY <1>1, <1>2, <2>1, BeginsMoves DEF Write, MayCall, CallerRecord
    <3>2. caller[c].calls + 1 \in 1..MaxCalls[c]
      BY <3>1, InputAssumption
    <3> QED BY <3>1, <3>2, WritesAreCalls DEF Current
  <2>2. CASE c # d
    <3>1. caller'[c] = caller[c]
      BY <1>1, <1>2, <2>2, BeginsMoves DEF Write
    <3> QED BY <1>0, <1>2, <3>1 DEF Calling, Current
  <2> QED BY <2>1, <2>2
<1>3. ASSUME NEW c \in Writers, NEW d \in Writers, CallCloseInput(d),
             caller'[c].pc \in {"select", "leave"}
      PROVE  Current(c)' \in Writes
  <2>1. \E pc \in {"idle", "input_closed"} : Begins(d, pc)
    BY <1>3 DEF CallCloseInput
  <2>2. c # d /\ caller'[c] = caller[c]
    BY <1>1, <1>3, <2>1, BeginsMoves
  <2> QED BY <1>0, <1>3, <2>2 DEF Calling, Current
<1>4. ASSUME NEW c \in Writers, NEW d \in Writers,
             CancelContext(d) \/ GiveUp(d) \/ Answer(d) \/ Leave(d) \/ Emit(d),
             caller'[c].pc \in {"select", "leave"}
      PROVE  Current(c)' \in Writes
  <2>1. caller'[c].calls = caller[c].calls
    BY <1>0, <1>4, CallsCounted DEF CancelContext, GiveUp, Answer, Leave, Emit
  <2>2. caller[c].pc \in {"select", "leave"}
    BY <1>1, <1>4 DEF CancelContext, GiveUp, Answer, Leave, Emit, Goes, Returns, CallerRecord
  <2> QED BY <1>0, <2>1, <2>2 DEF Calling, Current
<1>5. ASSUME caller' = caller PROVE Calling'
  BY <1>0, <1>5 DEF Calling, Current
<1>6. ASSUME NEW w \in Writes, Goroutine(w) PROVE caller' = caller
  BY <1>6 DEF Goroutine, Lock, Load, Feed, WriteFails
<1>7. ASSUME Speaks \/ Reads \/ Stops \/ StartAndWait \/ UNCHANGED inputVars PROVE caller' = caller
  BY <1>7 DEF Speaks, Reads, Stops, StartAndWait, Announces, Reap, CloseStdin, EmitExited, Finish, inputVars
<1>8. ASSUME NEW d \in Writers, Write(d) \/ CallCloseInput(d) \/ CancelContext(d) \/ CallStep(d)
      PROVE  Calling'
  BY <1>2, <1>3, <1>4, <1>8 DEF CallStep, Calling
<1> QED BY <1>5, <1>6, <1>7, <1>8 DEF InputNext

(* The byte that enters the pipe: the first of a write, or the one after   *)
(* the last byte that entered.                                             *)
LEMMA FeedGoesOn ==
  ASSUME InputInv, NEW w \in Writes, Feed(w)
  PROVE  /\ writer[w].sent \in Nat /\ writer[w].sent < Size /\ ~Broken
         /\ Len(fed) \in Nat /\ DOMAIN fed = 1..Len(fed)
         /\ DOMAIN fed' = 1..(Len(fed) + 1) /\ Len(fed') = Len(fed) + 1
         /\ \A i \in 1..Len(fed) : fed'[i] = fed[i]
         /\ fed'[Len(fed) + 1] = [write |-> w, byte |-> writer[w].sent + 1]
         /\ \/ writer[w].sent = 0 /\ (fed = << >> \/ Last.byte = Size)
            \/ writer[w].sent > 0 /\ fed # << >> /\ Last = [write |-> w, byte |-> writer[w].sent]
<1> DEFINE T == [write : Writes, byte : 1..Size]
           new == [write |-> w, byte |-> writer[w].sent + 1]
<1>1. /\ InputTypeOK /\ fed \in Seq(T) /\ fed' = Append(fed, new)
      /\ writer[w].sent \in Nat /\ writer[w].sent < Size /\ ~Broken /\ writer[w].pc = "write"
  BY InputAssumption DEF InputInv, Goroutines, InputTypeOK, Feed, Broken
<1>2. new \in T
  <2>1. writer[w].sent + 1 \in 1..Size
    BY <1>1, InputAssumption
  <2> QED BY <2>1
<1>3. /\ Len(fed) \in Nat /\ DOMAIN fed = 1..Len(fed)
      /\ DOMAIN fed' = 1..(Len(fed) + 1) /\ Len(fed') = Len(fed) + 1
      /\ fed'[Len(fed) + 1] = new /\ \A i \in 1..Len(fed) : fed'[i] = fed[i]
  <2> HIDE DEF T, new
  <2> QED BY <1>1, <1>2
<1>4. fed # << >> => Last \in T
  <2> HIDE DEF T
  <2>1. fed # << >> => Len(fed) \in 1..Len(fed)
    BY <1>1
  <2> QED BY <1>1, <2>1 DEF Last
<1>5. CASE writer[w].sent = 0
  <2>1. ASSUME fed # << >> PROVE Last.byte = Size
    <3>1. Last.write \in Writes /\ Last.byte # 0
      BY <1>4, <2>1
    <3>2. \/ Last.byte = Size
          \/ writer[Last.write].pc = "write" /\ writer[Last.write].sent = Last.byte
      BY <1>1, <2>1 DEF InputInv, Pipe
    <3>3. writer[Last.write].pc = "write" => Last.write = w
      BY <1>1, <3>1 DEF InputInv, OneWriter
    <3> QED BY <1>5, <3>1, <3>2, <3>3
  <2> QED BY <1>1, <1>3, <1>5, <2>1
<1>6. CASE writer[w].sent > 0
  <2>1. fed # << >> /\ Last.write = w /\ Last.byte = writer[w].sent
    BY <1>1, <1>6 DEF InputInv, Pipe
  <2>2. Last = [write |-> w, byte |-> writer[w].sent]
    BY <1>4, <2>1
  <2> QED BY <1>1, <1>3, <1>6, <2>1, <2>2
<1> QED BY <1>1, <1>5, <1>6

LEMMA PipeStep ==
  ASSUME InputInv, [InputNext]_inputVars
  PROVE  Pipe'
<1>0. InputTypeOK /\ Pipe /\ Goroutines
  BY DEF InputInv
<1>1. CASE Quiet \/ Closes
  BY <1>0, <1>1 DEF Quiet, Closes, Pipe, Last, Broken
<1>2. ASSUME NEW w \in Writes, Proceeds(w) PROVE Pipe'
  <2>1. Broken' = Broken /\ Last' = Last /\ UNCHANGED <<stdin, file, fed>>
    BY <1>2 DEF Proceeds, Broken, Last
  <2>2. ASSUME fed # << >>
        PROVE  \/ Last.byte = Size
               \/ writer'[Last.write].pc = "write" /\ writer'[Last.write].sent = Last.byte
               \/ Broken
    <3>1. Last.write \in Writes
      <4>1. Len(fed) \in 1..Len(fed)
        BY <1>0, <2>2 DEF InputTypeOK
      <4>2. Last \in [write : Writes, byte : 1..Size]
        <5> DEFINE T == [write : Writes, byte : 1..Size]
        <5>1. fed \in Seq(T)
          BY <1>0 DEF InputTypeOK
        <5> HIDE DEF T
        <5>2. Last \in T
          BY <4>1, <5>1 DEF Last
        <5> QED BY <5>2 DEF T
      <4> QED BY <4>2
    <3> QED BY <1>0, <1>2, <2>2, <3>1 DEF Proceeds, Pipe
  <2>3. ASSUME NEW v \in Writes, writer'[v].pc = "write", writer'[v].sent > 0
        PROVE  fed # << >> /\ Last.write = v /\ Last.byte = writer'[v].sent
    <3>1. CASE v # w
      BY <1>0, <1>2, <2>3, <3>1 DEF Proceeds, Pipe
    <3>2. CASE v = w
      <4>1. writer[w].pc = "load" /\ writer'[w].sent = writer[w].sent
        BY <1>2, <2>3, <3>2 DEF Proceeds
      <4> QED BY <1>0, <2>3, <3>2, <4>1 DEF Goroutines
    <3> QED BY <3>1, <3>2
  <2> QED BY <1>0, <2>1, <2>2, <2>3 DEF Pipe
<1>3. ASSUME NEW w \in Writes, Feed(w) PROVE Pipe'
  <2>1. /\ writer[w].sent \in Nat /\ writer[w].sent < Size /\ fed' # << >>
        /\ Last' = [write |-> w, byte |-> writer[w].sent + 1]
    <3>1. Len(fed') = Len(fed) + 1 /\ Len(fed) \in Nat
      BY <1>3, FeedGoesOn
    <3>2. fed'[Len(fed) + 1] = [write |-> w, byte |-> writer[w].sent + 1]
      BY <1>3, FeedGoesOn
    <3>3. writer[w].sent \in Nat /\ writer[w].sent < Size
      BY <1>3, FeedGoesOn
    <3>4. fed' # << >>
      BY <3>1
    <3>5. Last' = fed'[Len(fed) + 1]
      BY <3>1 DEF Last
    <3> QED BY <3>2, <3>3, <3>4, <3>5
  <2>2. /\ writer'[w].sent = writer[w].sent + 1
        /\ \/ writer'[w].pc = "write"
           \/ writer'[w].pc = "ended" /\ writer'[w].sent = Size
        /\ \A v \in Writes \ {w} : writer'[v] = writer[v]
    BY <1>0, <1>3, <2>1, FeedMoves
  <2>3. Last'.write = w /\ Last'.byte = writer'[w].sent
    BY <2>1, <2>2
  <2>4. \A v \in Writes \ {w} : writer'[v].pc # "write"
    BY <1>3, <2>2 DEF InputInv, OneWriter, Feed
  <2>5. stdin' = "nil" => file' = "closed"
    BY <1>0, <1>3 DEF Feed, Pipe
  <2> QED BY <2>1, <2>2, <2>3, <2>4, <2>5 DEF Pipe
<1>4. ASSUME NEW w \in Writes, Tells(w) PROVE Pipe'
  <2>1. Last' = Last /\ (Broken => Broken')
    BY <1>4 DEF Tells, Last, Broken
  <2> QED BY <1>0, <1>4, <2>1 DEF Tells, Pipe
<1> QED BY <1>1, <1>2, <1>3, <1>4, StepKinds

LEMMA WholeStep ==
  ASSUME InputInv, [InputNext]_inputVars
  PROVE  WritesAreWhole'
<1>0. InputTypeOK /\ WritesAreWhole
  BY DEF InputInv
<1>1. CASE fed' = fed
  BY <1>0, <1>1 DEF WritesAreWhole
<1>2. ASSUME NEW w \in Writes, Feed(w), NEW i \in DOMAIN fed'
      PROVE  IF fed'[i].byte = 1 THEN i = 1 \/ fed'[i - 1].byte = Size
             ELSE i > 1 /\ fed'[i - 1] = [fed'[i] EXCEPT !.byte = @ - 1]
  <2> DEFINE n == Len(fed)
             sent == writer[w].sent
  <2>1. /\ n \in Nat /\ DOMAIN fed = 1..n /\ DOMAIN fed' = 1..(n + 1)
        /\ \A j \in 1..n : fed'[j] = fed[j]
        /\ fed'[n + 1] = [write |-> w, byte |-> sent + 1] /\ sent \in Nat
    BY <1>2, FeedGoesOn
  <2>5. \/ sent = 0 /\ (fed = << >> \/ Last.byte = Size)
        \/ sent > 0 /\ fed # << >> /\ Last = [write |-> w, byte |-> sent]
    BY <1>2, FeedGoesOn
  <2>2. CASE i # n + 1
    <3>1. i \in 1..n /\ fed'[i] = fed[i] /\ (i > 1 => i - 1 \in 1..n)
      BY <2>1, <2>2
    <3>2. i > 1 => fed'[i - 1] = fed[i - 1]
      BY <2>1, <3>1
    <3>3. IF fed[i].byte = 1 THEN i = 1 \/ fed[i - 1].byte = Size
          ELSE i > 1 /\ fed[i - 1] = [fed[i] EXCEPT !.byte = @ - 1]
      BY <1>0, <2>1, <3>1 DEF WritesAreWhole
    <3> QED BY <2>1, <3>1, <3>2, <3>3
  <2>3. CASE i = n + 1 /\ sent = 0
    <3>1. fed'[i].byte = 1 /\ i - 1 = n
      BY <2>1, <2>3
    <3>2. n = 0 \/ fed'[n].byte = Size
      <4>1. fed = << >> \/ Last.byte = Size
        BY <2>3, <2>5
      <4>2. fed = << >> => n = 0
        OBVIOUS
      <4>3. n # 0 => fed'[n] = fed[n]
        BY <2>1
      <4> QED BY <4>1, <4>2, <4>3 DEF Last
    <3> QED BY <2>1, <2>3, <3>1, <3>2
  <2>4. CASE i = n + 1 /\ sent > 0
    <3>1. fed # << >> /\ fed[n] = [write |-> w, byte |-> sent]
      BY <2>1, <2>4, <2>5 DEF Last
    <3>2. n # 0
      BY <1>0, <3>1 DEF InputTypeOK
    <3>3. fed'[n] = fed[n]
      BY <2>1, <3>2
    <3>4. fed'[i].byte # 1 /\ i > 1 /\ i - 1 = n
      BY <2>1, <2>4, <3>2
    <3>5. [fed'[i] EXCEPT !.byte = @ - 1] = [write |-> w, byte |-> sent]
      BY <2>1, <2>4
    <3> QED BY <3>1, <3>3, <3>4, <3>5
  <2> QED BY <2>1, <2>2, <2>3, <2>4
<1> QED BY <1>1, <1>2, StepKinds DEF Quiet, Closes, Proceeds, Tells, WritesAreWhole

(* What a write was told is settled: it has ended, or the pipe is closed.  *)
LEMMA ToldStep ==
  ASSUME InputInv, [InputNext]_inputVars
  PROVE  Told'
<1>0. InputTypeOK /\ Told
  BY DEF InputInv
<1>1. CASE Quiet \/ Closes
  BY <1>0, <1>1 DEF Quiet, Closes, Told
<1>2. ASSUME NEW w \in Writes, Proceeds(w) PROVE Told'
  BY <1>0, <1>2 DEF Proceeds, Told
<1>3. ASSUME NEW w \in Writes, Feed(w) PROVE Told'
  <2>1. told' = told /\ file' = file /\ told[w] = Untold
    BY <1>0, <1>3 DEF Feed, Told
  <2>2. \A v \in Writes \ {w} : writer'[v] = writer[v]
    BY <1>0, <1>3, FeedGoesOn, FeedMoves
  <2> QED BY <1>0, <2>1, <2>2 DEF Told
<1>4. ASSUME NEW w \in Writes, Tells(w) PROVE Told'
  <2>1. Entered(w) \in Nat
    BY <1>0, EnteredIsCount
  <2> QED BY <1>0, <1>4, <2>1 DEF Tells, Told
<1> QED BY <1>1, <1>2, <1>3, <1>4, StepKinds

LEMMA TrueStep ==
  ASSUME InputInv, [InputNext]_inputVars
  PROVE  AnswersAreTrue'
<1>0. InputTypeOK /\ Told /\ AnswersAreTrue /\ Goroutines
  BY DEF InputInv
<1>1. ASSUME UNCHANGED <<fed, told>> PROVE AnswersAreTrue'
  BY <1>0, <1>1 DEF AnswersAreTrue, Entered
<1>2. ASSUME NEW w \in Writes, Feed(w) PROVE AnswersAreTrue'
  <2>1. told' = told /\ told[w] = Untold
    BY <1>0, <1>2 DEF Feed, Told
  <2>2. \A v \in Writes \ {w} : Entered(v)' = Entered(v)
    BY <1>0, <1>2, FeedGoesOn, FeedEnters
  <2> QED BY <1>0, <2>1, <2>2 DEF AnswersAreTrue
<1>3. ASSUME NEW w \in Writes, Tells(w) PROVE AnswersAreTrue'
  <2>1. \A v \in Writes : Entered(v)' = Entered(v)
    BY <1>3 DEF Tells, Entered
  <2>2. PICK n \in Nat, err \in {"nil", "closed", "broken", "context"} :
          /\ told' = [told EXCEPT ![w] = [n |-> n, err |-> err, entered |-> Entered(w)]]
          /\ \/ writer[w].pc = "ended" /\ n = writer[w].sent /\ err = writer[w].err
             \/ file' = "closed" /\ err = "context"
    BY <1>3 DEF Tells
  <2>3. told'[w] = [n |-> n, err |-> err, entered |-> Entered(w)]
    BY <1>0, <2>2 DEF Told
  <2>4. \A v \in Writes \ {w} : told'[v] = told[v]
    BY <1>0, <2>2 DEF Told
  <2>5. err = "nil" => n = Size
    BY <1>0, <2>2 DEF Goroutines
  <2>6. err # "context" => n = Entered(w)
    BY <1>0, <2>2 DEF Goroutines
  <2> QED BY <1>0, <2>1, <2>3, <2>4, <2>5, <2>6 DEF AnswersAreTrue
<1> QED BY <1>1, <1>2, <1>3, StepKinds DEF Quiet, Closes, Proceeds

LEMMA InputInvInit == InputInit => InputInv
<1> SUFFICES ASSUME InputInit PROVE InputInv
  OBVIOUS
<1>1. InputTypeOK
  BY InputAssumption, InvInit DEF InputInit, InputTypeOK, Inv, TypeOK, Init
<1>2. OneWriter /\ Calling /\ Pipe
  BY DEF InputInit, OneWriter, Calling, Pipe
<1>3. Told
  BY DEF InputInit, Told, Untold
<1>4. Goroutines
  <2>1. ASSUME NEW w PROVE Entered(w) = 0
    <3>1. {i \in DOMAIN fed : fed[i].write = w} = {}
      BY DEF InputInit
    <3> QED BY <3>1, FS_EmptySet DEF Entered
  <2> QED BY <2>1 DEF InputInit, Goroutines
<1>5. WritesAreWhole /\ AnswersAreTrue
  BY DEF InputInit, WritesAreWhole, AnswersAreTrue
<1> QED BY <1>1, <1>2, <1>3, <1>4, <1>5 DEF InputInv

LEMMA InputInvAlways == InputSpec => []InputInv
<1>1. InputInv /\ [InputNext]_inputVars => InputInv'
  BY InputTypeStep, OneWriterStep, GoroutinesStep, CallingStep, PipeStep, ToldStep, WholeStep, TrueStep
     DEF InputInv
<1> QED BY <1>1, InputInvInit, PTL DEF InputSpec

(* However writers, closers and the end of the process meet, the process   *)
(* reads whole writes one after the other, a part of one at the end of its *)
(* input only, and every Write's answer says how much of it entered.       *)
THEOREM InputStaysWhole == InputSpec => []InputIsWhole
<1>1. InputInv => InputIsWhole
  BY DEF InputInv, InputIsWhole
<1> QED BY <1>1, InputInvAlways, PTL

=============================================================================
