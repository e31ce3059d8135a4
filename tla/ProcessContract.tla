-------------------------- MODULE ProcessContract --------------------------
(***************************************************************************)
(* What a process handle promises to whoever holds it, without goroutines, *)
(* signals or contexts: the process is announced once, writes output only  *)
(* between its announcement and its exit, exits once, and only then does   *)
(* Wait answer, with one outcome that never changes.  Control calls on the *)
(* handle may report events at any time, even after the exit.              *)
(*                                                                         *)
(* ManagedProcess implements this module.                                  *)
(***************************************************************************)
EXTENDS Naturals, Sequences

CONSTANTS
  ControlEvents,  \* kinds of the events that control calls report
  Outcomes,       \* what Wait may answer
  NoAnswer        \* Wait has no answer yet

ASSUME KindsAreDistinct ==
  ControlEvents \cap {"started", "output", "exited"} = {}

ASSUME AnswersAreDistinct == NoAnswer \notin Outcomes

VARIABLES
  phase,   \* "absent", "live", "exited" or "settled"
  log,     \* the kinds of the events reported so far, in order
  answer   \* what Wait answers

vars == <<phase, log, answer>>

Kinds == ControlEvents \cup {"started", "output", "exited"}

TypeOK ==
  /\ phase \in {"absent", "live", "exited", "settled"}
  /\ log \in Seq(Kinds)
  /\ answer \in Outcomes \cup {NoAnswer}

Init ==
  /\ phase = "absent"
  /\ log = << >>
  /\ answer = NoAnswer

Announce ==
  /\ phase = "absent"
  /\ phase' = "live"
  /\ log' = Append(log, "started")
  /\ UNCHANGED answer

Output ==
  /\ phase = "live"
  /\ log' = Append(log, "output")
  /\ UNCHANGED <<phase, answer>>

Control(kind) ==
  /\ log' = Append(log, kind)
  /\ UNCHANGED <<phase, answer>>

Exit ==
  /\ phase = "live"
  /\ phase' = "exited"
  /\ log' = Append(log, "exited")
  /\ UNCHANGED answer

Settle(outcome) ==
  /\ phase = "exited"
  /\ phase' = "settled"
  /\ answer' = outcome
  /\ UNCHANGED log

Next ==
  \/ Announce
  \/ Output
  \/ \E kind \in ControlEvents : Control(kind)
  \/ Exit
  \/ \E outcome \in Outcomes : Settle(outcome)

Spec == Init /\ [][Next]_vars

-----------------------------------------------------------------------------
(* The shape of a log: between two lifecycle events of one process nothing *)
(* comes out of order.  Every output and the exit come after the one       *)
(* announcement, no output and no second exit comes after the exit.        *)
LogInOrder(events) ==
  \A i, j \in 1..Len(events) : i < j =>
    /\ events[j] = "started" => events[i] \in ControlEvents
    /\ events[i] = "exited" => events[j] \in ControlEvents

(* Output and exit are only ever reported of an announced process. *)
LogAnnounced(events) ==
  \A i \in 1..Len(events) : events[i] \in {"output", "exited"} =>
    \E j \in 1..(i - 1) : events[j] = "started"

(* Nobody can learn the outcome before the exit has been reported, and the *)
(* events a subscriber receives tell one lifecycle in order.               *)
LifecycleInOrder ==
  /\ LogInOrder(log)
  /\ LogAnnounced(log)
  /\ answer # NoAnswer => \E i \in 1..Len(log) : log[i] = "exited"

=============================================================================
