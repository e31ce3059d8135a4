----------------------------- MODULE ProcessInput ------------------------------
(***************************************************************************)
(* The input of one managed process: concurrent Writes, CloseInput, and    *)
(* the end of the process, over the contract of its handle.  Write hands   *)
(* its bytes to a goroutine of its own and leaves without it when the      *)
(* caller's context ends; the goroutine may be waiting for p.writeMu or    *)
(* for room in the pipe at that time.  p.inputMu is held for single steps  *)
(* only.  The model begins when start has entered the process in p.procs.  *)
(***************************************************************************)
EXTENDS ProcessContract, FiniteSets

CONSTANTS
  Writers,     \* goroutines that use the handle
  Size,        \* bytes of a write
  Room,        \* bytes the pipe holds
  MaxCalls,    \* bound: calls of each writer, a function
  MaxOutputs   \* bound: outputs of the process

ASSUME InputAssumption ==
  /\ {Size, Room, MaxOutputs} \subseteq Nat
  /\ MaxCalls \in [Writers -> Nat]
  /\ Size > 0 /\ Room > 0
  /\ {"input", "input_closed"} \subseteq ControlEvents

VARIABLES
  stdin,    \* p.stdin: "nil" or "pipe"
  file,     \* our end of the pipe: "open" or "closed"
  child,    \* "reading", "closed" its end of the pipe, or "gone"
  fed,      \* history: the bytes that entered the pipe, in order
  taken,    \* how many of them the process has read
  waitPc,   \* wait(): "reap", "close", "emit", "finish" or "over"
  caller,   \* each caller: where it is, its context, how many calls it made
  writer,   \* each write's goroutine: where it is, what Write gave it
  told      \* history: what each Write answered

inputVars == <<vars, stdin, file, child, fed, taken, waitPc, caller, writer, told>>
contract == <<phase, log, answer>>
pipe == <<fed, taken>>

Writes == UNION {{c} \X (1..MaxCalls[c]) : c \in Writers}
Current(c) == <<c, caller[c].calls>>
Locked == \E w \in Writes : writer[w].pc \in {"load", "write"}   \* p.writeMu
Untold == [n |-> 0, err |-> "untold", entered |-> 0]

InputInit ==
  /\ Init
  /\ \/ stdin = "pipe" /\ file = "open"
     \/ stdin = "nil" /\ file = "closed"     \* not started interactively
  /\ child = "reading"
  /\ fed = << >>
  /\ taken = 0
  /\ waitPc = "reap"
  /\ caller = [c \in Writers |-> [pc |-> "idle", ctx |-> "live", calls |-> 0]]
  /\ writer = [w \in Writes |-> [pc |-> "none", sent |-> 0, err |-> "nil"]]
  /\ told = [w \in Writes |-> Untold]

-----------------------------------------------------------------------------
(* Callers.  A call whose context has ended before it is no step here.     *)

MayCall(c) == caller[c].pc = "idle" /\ caller[c].calls < MaxCalls[c]

Goes(c, pc) == caller' = [caller EXCEPT ![c].pc = pc]

Returns(c) == caller' = [caller EXCEPT ![c].pc = "idle", ![c].ctx = "live"]

Begins(c, pc) == caller' = [caller EXCEPT ![c].pc = pc, ![c].calls = @ + 1]

Entered(w) == Cardinality({i \in DOMAIN fed : fed[i].write = w})

Tell(w, n, err) == told' = [told EXCEPT ![w] = [n |-> n, err |-> err, entered |-> Entered(w)]]

Write(c) ==
  /\ MayCall(c)
  /\ Begins(c, "select")
  /\ writer' = [writer EXCEPT ![<<c, caller[c].calls + 1>>].pc = "lock"]
  /\ UNCHANGED <<contract, stdin, file, child, pipe, waitPc, told>>

(* The goroutine's result, if there is one, or the end of the context,     *)
(* whichever of the two select takes.                                      *)
Answer(c) ==
  LET w == Current(c) IN
  /\ caller[c].pc = "select"
  /\ writer[w].pc = "ended"
  /\ Tell(w, writer[w].sent, writer[w].err)
  /\ IF writer[w].err = "nil" THEN Goes(c, "input") ELSE Returns(c)
  /\ UNCHANGED <<contract, stdin, file, child, pipe, waitPc, writer>>

GiveUp(c) ==
  /\ caller[c].pc = "select"
  /\ caller[c].ctx = "cancelled"
  /\ Goes(c, "leave")
  /\ UNCHANGED <<contract, stdin, file, child, pipe, waitPc, writer, told>>

(* closeInput: the first to come closes the pipe. *)
CloseInput == stdin' = "nil" /\ file' = IF stdin = "pipe" THEN "closed" ELSE file

(* Faulty variant: a write that is given up leaves the input alone. *)
Leave_Open(c) ==
  /\ caller[c].pc = "leave"
  /\ Tell(Current(c), 0, "context")
  /\ Returns(c)
  /\ UNCHANGED <<contract, stdin, file, child, pipe, waitPc, writer>>

Leave(c) ==
  /\ caller[c].pc = "leave"
  /\ CloseInput
  /\ Tell(Current(c), 0, "context")
  /\ Returns(c)
  /\ UNCHANGED <<contract, child, pipe, waitPc, writer>>

(* CloseInput of the handle: os.File refuses to be closed twice.           *)
CallCloseInput(c) ==
  /\ MayCall(c)
  /\ CloseInput
  /\ Begins(c, IF stdin = "pipe" /\ file = "closed" THEN "idle" ELSE "input_closed")
  /\ UNCHANGED <<contract, child, pipe, waitPc, writer, told>>

Emit(c) ==
  /\ caller[c].pc \in {"input", "input_closed"}
  /\ Control(caller[c].pc)
  /\ Returns(c)
  /\ UNCHANGED <<stdin, file, child, pipe, waitPc, writer, told>>

CancelContext(c) ==
  /\ caller[c].pc = "select"
  /\ caller[c].ctx = "live"
  /\ caller' = [caller EXCEPT ![c].ctx = "cancelled"]
  /\ UNCHANGED <<contract, stdin, file, child, pipe, waitPc, writer, told>>

-----------------------------------------------------------------------------
(* The goroutine of a write.                                               *)

Lock(w) ==
  /\ writer[w].pc = "lock"
  /\ ~Locked
  /\ writer' = [writer EXCEPT ![w].pc = "load"]
  /\ UNCHANGED <<contract, stdin, file, child, pipe, waitPc, caller, told>>

(* Faulty variant: the channel of the result has no room, so a goroutine   *)
(* whose caller has left never gets past it and keeps p.writeMu.           *)
Ends_Unbuffered(w, sent, err) ==
  /\ Current(w[1]) = w /\ caller[w[1]].pc = "select"
  /\ writer' = [writer EXCEPT ![w] = [pc |-> "ended", sent |-> sent, err |-> err]]

(* The result is handed over and p.writeMu released. *)
Ends(w, sent, err) ==
  writer' = [writer EXCEPT ![w] = [pc |-> "ended", sent |-> sent, err |-> err]]

Load(w) ==
  /\ writer[w].pc = "load"
  /\ IF stdin = "nil" THEN Ends(w, 0, "closed")
     ELSE writer' = [writer EXCEPT ![w].pc = "write"]
  /\ UNCHANGED <<contract, stdin, file, child, pipe, waitPc, caller, told>>

(* The pipe takes what it has room for, a byte at a time. *)
Feed(w) ==
  /\ writer[w].pc = "write"
  /\ file = "open" /\ child = "reading"
  /\ Len(fed) - taken < Room
  /\ fed' = Append(fed, [write |-> w, byte |-> writer[w].sent + 1])
  /\ IF writer[w].sent + 1 = Size THEN Ends(w, Size, "nil")
     ELSE writer' = [writer EXCEPT ![w].sent = @ + 1]
  /\ UNCHANGED <<contract, stdin, file, child, taken, waitPc, caller, told>>

(* The pipe was closed at our end, by whom ever, or has no reader. *)
WriteFails(w) ==
  /\ writer[w].pc = "write"
  /\ file = "closed" \/ child # "reading"
  /\ Ends(w, writer[w].sent, "broken")
  /\ UNCHANGED <<contract, stdin, file, child, pipe, waitPc, caller, told>>

-----------------------------------------------------------------------------
(* The process, and what start and wait do for it.                         *)

Outputs == Cardinality({i \in DOMAIN log : log[i] = "output"})

Speaks ==
  /\ waitPc = "reap" /\ Outputs < MaxOutputs
  /\ Output
  /\ UNCHANGED <<stdin, file, child, pipe, waitPc, caller, writer, told>>

Reads ==
  /\ child = "reading" /\ taken < Len(fed)
  /\ taken' = taken + 1
  /\ UNCHANGED <<contract, stdin, file, child, fed, waitPc, caller, writer, told>>

(* It closes its input, or exits. *)
Stops ==
  /\ child # "gone"
  /\ child' \in {"closed", "gone"} \ {child}
  /\ UNCHANGED <<contract, stdin, file, pipe, waitPc, caller, writer, told>>

Announces ==
  /\ Announce
  /\ UNCHANGED <<stdin, file, child, pipe, waitPc, caller, writer, told>>

(* cmd.Wait closes our end of the pipe. *)
Reap ==
  /\ waitPc = "reap" /\ phase = "live"
  /\ child = "gone"
  /\ waitPc' = "close"
  /\ file' = "closed"
  /\ UNCHANGED <<contract, stdin, child, pipe, caller, writer, told>>

CloseStdin ==
  /\ waitPc = "close"
  /\ waitPc' = "emit"
  /\ CloseInput
  /\ UNCHANGED <<contract, child, pipe, caller, writer, told>>

EmitExited ==
  /\ waitPc = "emit"
  /\ waitPc' = "finish"
  /\ Exit
  /\ UNCHANGED <<stdin, file, child, pipe, caller, writer, told>>

Finish ==
  /\ waitPc = "finish"
  /\ waitPc' = "over"
  /\ \E outcome \in Outcomes : Settle(outcome)
  /\ UNCHANGED <<stdin, file, child, pipe, caller, writer, told>>

Goroutine(w) == Lock(w) \/ Load(w) \/ Feed(w) \/ WriteFails(w)
CallStep(c) == Answer(c) \/ GiveUp(c) \/ Leave(c) \/ Emit(c)
StartAndWait == Announces \/ Reap \/ CloseStdin \/ EmitExited \/ Finish

InputNext ==
  \/ \E c \in Writers : Write(c) \/ CallCloseInput(c) \/ CancelContext(c) \/ CallStep(c)
  \/ \E w \in Writes : Goroutine(w)
  \/ Speaks \/ Reads \/ Stops
  \/ StartAndWait

InputSpec == InputInit /\ [][InputNext]_inputVars

(* Goroutines run.  Nothing is assumed of the process, nor of contexts.    *)
InputFairSpec ==
  /\ InputSpec
  /\ WF_inputVars(StartAndWait)
  /\ \A c \in Writers : WF_inputVars(CallStep(c))
  /\ \A w \in Writes : WF_inputVars(Goroutine(w))

-----------------------------------------------------------------------------
InputTypeOK ==
  /\ TypeOK
  /\ stdin \in {"nil", "pipe"}
  /\ file \in {"open", "closed"}
  /\ child \in {"reading", "closed", "gone"}
  /\ fed \in Seq([write : Writes, byte : 1..Size])
  /\ taken \in 0..Len(fed)
  /\ waitPc \in {"reap", "close", "emit", "finish", "over"}
  /\ caller \in [Writers -> [pc : {"idle", "select", "leave", "input", "input_closed"},
                             ctx : {"live", "cancelled"}, calls : Nat]]
  /\ writer \in [Writes -> [pc : {"none", "lock", "load", "write", "ended"},
                            sent : 0..Size, err : {"nil", "closed", "broken"}]]

(* However writers, closers and the end of the process meet, the process   *)
(* is given whole writes one after the other, and a part of one at the end *)
(* of its input only.                                                      *)
WritesAreWhole ==
  \A i \in DOMAIN fed :
    IF fed[i].byte = 1 THEN i = 1 \/ fed[i - 1].byte = Size
    ELSE i > 1 /\ fed[i - 1] = [fed[i] EXCEPT !.byte = @ - 1]

(* Once Write has answered, nothing more of it reaches the process, though *)
(* its goroutine may still be there.  Only a write that was given up may   *)
(* have given the process more than it answered, and success means all.    *)
AnswersAreTrue ==
  \A w \in {w \in Writes : told[w] # Untold} :
    /\ Entered(w) = told[w].entered
    /\ told[w].err = "nil" => told[w].n = Size
    /\ told[w].err # "context" => told[w].n = Entered(w)

InputIsWhole == InputTypeOK /\ WritesAreWhole /\ AnswersAreTrue

(* No write outlives its caller's context or its process: the caller comes *)
(* back, and the goroutine it may have left behind ends, or p.writeMu      *)
(* would be held for good.                                                 *)
NobodyWaits ==
  /\ \A c \in Writers : caller[c].ctx = "live"
  /\ \A w \in Writes : told[w] # Untold => writer[w].pc = "ended"
NobodyWrites ==
  /\ \A c \in Writers : caller[c].pc = "idle"
  /\ \A w \in Writes : writer[w].pc \in {"none", "ended"}
WritesEnd == []<>NobodyWaits /\ (child = "gone" ~> NobodyWrites)

=============================================================================
