--------------------------- MODULE ProcessCapture ---------------------------
(***************************************************************************)
(* RunProcessCapture over the event bus: the helper subscribes to a group, *)
(* starts a process in it, lets a collector goroutine turn output events   *)
(* into bounded text, waits for the process, ends the subscription and     *)
(* returns what the collector gathered.                                    *)
(*                                                                         *)
(* The bus is EventBus itself.  Of the process only what ManagedProcess    *)
(* establishes about its events is used: it is announced by start(), its   *)
(* copiers emit while it runs, and the exit is reported and done closed    *)
(* when they have finished.                                                *)
(***************************************************************************)
EXTENDS EventBus

CONSTANTS
  proc,       \* the process that is run
  mine,       \* the helper's subscription
  Copiers,    \* the emitters of output, one for each stream
  life,       \* the emitter of the events "started" and "exited"
  runner,     \* the helper's goroutine as an emitter, of "input_closed"
  ChunkSize,  \* bytes of one output event
  MaxBytes    \* maxBytes

ASSUME CaptureAssumption ==
  /\ proc \in Procs /\ mine \in Subs
  /\ Copiers \cup {life, runner} \subseteq Emitters
  /\ life \notin Copiers /\ runner \notin Copiers /\ life # runner
  /\ \A e \in Copiers \cup {life, runner} : ProcOf[e] = proc
  /\ ChunkSize \in Nat \ {0} /\ MaxBytes \in Nat \ {0}

VARIABLES
  runPc,      \* the helper's goroutine
  runCtx,     \* its caller's context
  waitErr,    \* what handle.Wait answered
  phase,      \* the process: "none", "starting", "running", "exiting", "done"
  collectPc,  \* the collector
  capture     \* for each stream, the bytes kept and the truncation flag

captureVars == <<runPc, runCtx, waitErr, phase, collectPc, capture>>
vars == <<busVars, captureVars>>

Empty == [bytes |-> 0, truncated |-> FALSE]

TypeOK ==
  /\ BusTypeOK
  /\ runPc \in {"subscribe", "start", "announce", "close input",
                "wait", "cancel", "drain", "returned", "refused"}
  /\ runCtx \in {"live", "cancelled"}
  /\ waitErr \in {"none", "nil", "failed", "cancelled"}
  /\ phase \in {"none", "starting", "running", "exiting", "done"}
  /\ collectPc \in {"off", "ranging", "finished"}
  /\ capture \in [Copiers -> [bytes : 0..MaxBytes, truncated : BOOLEAN]]

(* req.Group selects; an empty one has been replaced by a private name. *)
Init ==
  /\ BusInit
  /\ selector[mine] = [ids |-> {}, groups |-> {GroupOf[proc]}]
  /\ runPc = "subscribe"
  /\ runCtx = "live"
  /\ waitErr = "none"
  /\ phase = "none"
  /\ collectPc = "off"
  /\ capture = [e \in Copiers |-> Empty]

-----------------------------------------------------------------------------
(* The caller's context; eventCtx is its child and ends with it. *)
CancelRun ==
  /\ runCtx = "live"
  /\ runCtx' = "cancelled"
  /\ ctx' = [ctx EXCEPT ![mine] = "cancelled"]
  /\ UNCHANGED <<procs, subs, selector, channel, closed, watcher, emitters,
                 history, joined, got, runPc, waitErr, phase, collectPc, capture>>

RunSubscribes ==
  /\ runPc = "subscribe"
  /\ runPc' = "start"
  /\ Subscribe(mine)
  /\ UNCHANGED <<runCtx, waitErr, phase, collectPc, capture>>

(* manager.Start fails: return, and the deferred cancelEvents. *)
EndSubscription ==
  /\ ctx' = [ctx EXCEPT ![mine] = "cancelled"]
  /\ UNCHANGED <<procs, subs, selector, channel, closed, watcher, emitters,
                 history, joined, got>>

StartRefused ==
  /\ runPc = "start"
  /\ runPc' = "refused"
  /\ EndSubscription
  /\ UNCHANGED <<runCtx, waitErr, phase, collectPc, capture>>

(* manager.Start: registered, announced, and only then running. *)
StartRegisters ==
  /\ runPc = "start"
  /\ runPc' = "announce"
  /\ phase' = "starting"
  /\ RegisterProc(proc)
  /\ UNCHANGED <<runCtx, waitErr, collectPc, capture>>

StartAnnounces ==
  /\ runPc = "announce"
  /\ EmitterStep(life)
  /\ IF emitPc[life] = "found"
       THEN runPc' = "close input" /\ phase' = "running"
       ELSE UNCHANGED <<runPc, phase>>
  /\ UNCHANGED <<runCtx, waitErr, collectPc, capture>>

(* handle.CloseInput, whose event is one more in the channel (none if      *)
(* closing failed), then the collector is started.                         *)
RunClosesInput ==
  /\ runPc = "close input"
  /\ EmitterStep(runner)
  /\ IF emitPc[runner] = "found"
       THEN runPc' = "wait" /\ collectPc' = "ranging"
       ELSE UNCHANGED <<runPc, collectPc>>
  /\ UNCHANGED <<runCtx, waitErr, phase, capture>>

RunFailsToCloseInput ==
  /\ runPc = "close input"
  /\ emitPc[runner] = "idle"
  /\ runPc' = "wait"
  /\ collectPc' = "ranging"
  /\ UNCHANGED <<busVars, runCtx, waitErr, phase, capture>>

(* handle.Wait(ctx): with both channels ready either may be taken. *)
RunWaited ==
  /\ runPc = "wait"
  /\ \/ phase = "done" /\ waitErr' \in {"nil", "failed"}
     \/ runCtx = "cancelled" /\ waitErr' = "cancelled"
  /\ runPc' = "cancel"
  /\ UNCHANGED <<busVars, runCtx, phase, collectPc, capture>>

(* Faulty variant: only the deferred call ends the subscription. *)
RunCancelsEvents_Deferred ==
  /\ runPc = "cancel"
  /\ runPc' = "drain"
  /\ UNCHANGED <<busVars, runCtx, waitErr, phase, collectPc, capture>>

RunCancelsEvents ==
  /\ runPc = "cancel"
  /\ runPc' = "drain"
  /\ EndSubscription
  /\ UNCHANGED <<runCtx, waitErr, phase, collectPc, capture>>

RunReturns ==
  /\ runPc = "drain"
  /\ collectPc = "finished"
  /\ runPc' = "returned"
  /\ UNCHANGED <<busVars, runCtx, waitErr, phase, collectPc, capture>>

RunStep ==
  \/ RunSubscribes \/ StartRefused \/ StartRegisters \/ StartAnnounces
  \/ RunClosesInput \/ RunFailsToCloseInput \/ RunWaited \/ RunCancelsEvents
  \/ RunReturns

-----------------------------------------------------------------------------
(* appendCaptured: what of size more bytes is kept. *)
AppendCaptured(kept, size) ==
  LET remaining == MaxBytes - kept.bytes IN
  IF kept.truncated THEN kept
  ELSE IF remaining = 0 THEN [kept EXCEPT !.truncated = TRUE]
  ELSE IF size > remaining THEN [bytes |-> MaxBytes, truncated |-> TRUE]
  ELSE [bytes |-> kept.bytes + size, truncated |-> FALSE]

(* Faulty variant: the collector stops when the subscription ends,         *)
(* whatever is buffered.                                                   *)
CollectEnds_Undrained ==
  /\ collectPc = "ranging"
  /\ mine \in closed
  /\ collectPc' = "finished"
  /\ UNCHANGED <<busVars, runPc, runCtx, waitErr, phase, capture>>

(* One turn of the collector: the first event in the channel, kept if it   *)
(* is output of the process.                                               *)
Collect ==
  /\ collectPc = "ranging"
  /\ Receive(mine)
  /\ LET e == Head(channel[mine])[1] IN
     capture' = IF e \in Copiers
                  THEN [capture EXCEPT ![e] = AppendCaptured(@, ChunkSize)]
                  ELSE capture
  /\ UNCHANGED <<runPc, runCtx, waitErr, phase, collectPc>>

CollectEnds ==
  /\ collectPc = "ranging"
  /\ mine \in closed
  /\ channel[mine] = << >>
  /\ collectPc' = "finished"
  /\ UNCHANGED <<busVars, runPc, runCtx, waitErr, phase, capture>>

CollectStep == Collect \/ CollectEnds

-----------------------------------------------------------------------------
(* The process and its copiers, and the other processes of the group.      *)

CopierEmits(e) ==
  /\ phase = "running"
  /\ EmitterStep(e)
  /\ UNCHANGED captureVars

ProcessEnds ==
  /\ phase = "running"
  /\ \A e \in Copiers : emitPc[e] = "idle"
  /\ phase' = "exiting"
  /\ UNCHANGED <<busVars, runPc, runCtx, waitErr, collectPc, capture>>

(* The event "exited", then close(done). *)
ReportExit ==
  /\ phase = "exiting"
  /\ EmitterStep(life)
  /\ phase' = IF emitPc[life] = "found" THEN "done" ELSE phase
  /\ UNCHANGED <<runPc, runCtx, waitErr, collectPc, capture>>

Others ==
  /\ \/ \E p \in Procs \ {proc} : RegisterProc(p)
     \/ \E e \in Emitters \ (Copiers \cup {life, runner}) : EmitterStep(e)
  /\ UNCHANGED captureVars

SubscriptionCloses ==
  /\ WatcherStep(mine)
  /\ UNCHANGED captureVars

Next ==
  \/ RunStep
  \/ CancelRun
  \/ CollectStep
  \/ \E e \in Copiers : CopierEmits(e)
  \/ ProcessEnds
  \/ ReportExit
  \/ Others
  \/ SubscriptionCloses

Spec == Init /\ [][Next]_vars

Fairness ==
  /\ WF_vars(RunStep)
  /\ WF_vars(CollectStep)
  /\ WF_vars(ReportExit)
  /\ WF_vars(SubscriptionCloses)
  /\ \A e \in Copiers : WF_vars(CopierEmits(e))

FairSpec == Spec /\ Fairness

-----------------------------------------------------------------------------
Written(e) == sent[e] * ChunkSize
AtMost(n, bound) == IF n < bound THEN n ELSE bound

(* The helper's answer is right: never more than the process wrote,        *)
(* whoever else is in the group, and all of it, up to the bound and with   *)
(* the flag that tells whether there was more, as long as the channel can  *)
(* hold the whole run.  This is what subscribing before the start is for.  *)
CaptureIsComplete ==
  ( /\ runPc = "returned" /\ waitErr \in {"nil", "failed"}
    /\ runCtx = "live"
    /\ Cardinality(Wanted(mine)) <= Capacity ) =>
      \A e \in Copiers :
        /\ capture[e].bytes = AtMost(Written(e), MaxBytes)
        /\ capture[e].truncated <=> Written(e) > MaxBytes

CaptureIsOwnOutput ==
  \A e \in Copiers :
    /\ capture[e].bytes <= Written(e)
    /\ capture[e].truncated => Written(e) > MaxBytes

CaptureIsExact == TypeOK /\ CaptureIsComplete /\ CaptureIsOwnOutput

(* The helper comes back once its process is over or its context is        *)
(* cancelled: the subscription ends, the collector drains it and finishes. *)
(* However it returns, its subscription is taken off the bus.              *)
CaptureReturns ==
  /\ (runPc = "wait" /\ (phase = "done" \/ runCtx = "cancelled")) ~> runPc = "returned"
  /\ runPc \in {"returned", "refused"} ~> mine \in closed

=============================================================================
