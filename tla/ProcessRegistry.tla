--------------------------- MODULE ProcessRegistry ---------------------------
(***************************************************************************)
(* The registry of hostsystem.Process: which processes it knows (p.procs), *)
(* which are members of which group (p.groups), and the calls that deal    *)
(* with more than one process: Ensure, the calls on a group, and Restart.  *)
(*                                                                         *)
(* Of a process only the end is modelled: it exits or is killed, its       *)
(* wait() settles info, takes it out of its group and closes done, in this *)
(* order, as ManagedProcess has it in detail.  A caller's call is a        *)
(* sequence of critical sections of p.mu, signals and waits; one action is *)
(* one of them.                                                            *)
(***************************************************************************)
EXTENDS Naturals, FiniteSets

CONSTANTS
  MaxProcs,  \* bound: how many processes are ever started
  Requests,  \* what is started: a label and a group each
  None,      \* no label, no group
  Callers,   \* goroutines
  MaxCalls,  \* bound: calls of all callers
  Ops,       \* the calls they make, a subset of Calls
  Endings    \* how a process may end, a subset of {"ok", "error"}

Ids == 1..MaxProcs
Calls == {"ensure", "kill", "wait", "restart"}
Labels == {r.label : r \in Requests}
Groups == {r.group : r \in Requests} \ {None}
NoRequest == [label |-> None, group |-> None]
Nobody == 0

ASSUME RegistryAssumption ==
  /\ MaxProcs \in Nat /\ MaxCalls \in Nat
  /\ \A r \in Requests : r = [label |-> r.label, group |-> r.group]
  /\ Ops \subseteq Calls
  /\ Endings \subseteq {"ok", "error"}

Idle == [op |-> "none", req |-> NoRequest, proc |-> Nobody, found |-> {}, todo |-> {},
         failed |-> FALSE]

VARIABLES
  next,     \* p.nextID
  procs,    \* keys of p.procs
  groups,   \* p.groups
  req,      \* the request of each process
  os,       \* each process: "unborn", "alive", "gone"
  ended,    \* p.err of each process: "none", "ok", "error"
  waiter,   \* each wait(): "off", "reap", "leave", "close", "over"
  pc,       \* each caller
  call,     \* what each caller is doing
  ctx,      \* the context of each caller's call: "live" or "cancelled"
  calls,    \* how many calls have been made
  crossed   \* history: two calls that may start a label were under way at once

registry == <<next, procs, groups, req>>
system == <<os, ended, waiter>>
vars == <<registry, system, pc, call, ctx, calls, crossed>>

(* info.Running, which is TRUE from the beginning. *)
Running(p) == waiter[p] \in {"off", "reap"}
Done(p) == waiter[p] = "over"
Members(g) == IF g \in DOMAIN groups THEN groups[g] ELSE {}

TypeOK ==
  /\ next \in 0..MaxProcs
  /\ procs \subseteq 1..next
  /\ DOMAIN groups \subseteq Groups
  /\ \A g \in DOMAIN groups : groups[g] \subseteq procs
  /\ req \in [Ids -> Requests \cup {NoRequest}]
  /\ os \in [Ids -> {"unborn", "alive", "gone"}]
  /\ ended \in [Ids -> Endings \cup {"none", "error"}]
  /\ waiter \in [Ids -> {"off", "reap", "leave", "close", "over"}]
  /\ pc \in [Callers -> {"idle", "spawn", "register", "each", "stopped", "kill", "killed",
                         "answer"}]
  /\ \A c \in Callers : call[c].todo \subseteq call[c].found /\ call[c].found \subseteq procs

Init ==
  /\ next = 0
  /\ procs = {}
  /\ groups = [g \in {} |-> {}]
  /\ req = [p \in Ids |-> NoRequest]
  /\ os = [p \in Ids |-> "unborn"]
  /\ ended = [p \in Ids |-> "none"]
  /\ waiter = [p \in Ids |-> "off"]
  /\ pc = [c \in Callers |-> "idle"]
  /\ call = [c \in Callers |-> Idle]
  /\ ctx = [c \in Callers |-> "live"]
  /\ calls = 0
  /\ crossed = {}

-----------------------------------------------------------------------------
(* A process and its wait().                                               *)

ExitByItself(p) ==
  /\ os[p] = "alive"
  /\ os' = [os EXCEPT ![p] = "gone"]
  /\ \E how \in Endings : ended' = [ended EXCEPT ![p] = how]
  /\ UNCHANGED <<registry, waiter, pc, call, ctx, calls, crossed>>

(* A fatal signal to p: SIGKILL ends it, SIGTERM may be ignored.  It died  *)
(* of the signal, which is an error of cmd.Wait, or ended by itself.       *)
Signalled(p, signal) ==
  /\ \/ /\ os[p] # "alive" \/ signal = "stop"
        /\ UNCHANGED <<os, ended>>
     \/ /\ os[p] = "alive"
        /\ os' = [os EXCEPT ![p] = "gone"]
        /\ \E how \in (IF signal = "stop" THEN Endings ELSE {}) \cup {"error"} :
             ended' = [ended EXCEPT ![p] = how]
  /\ UNCHANGED waiter

(* cmd.Wait returns and info is settled. *)
Reap(p) ==
  /\ waiter[p] = "reap"
  /\ os[p] = "gone"
  /\ waiter' = [waiter EXCEPT ![p] = "leave"]
  /\ UNCHANGED <<registry, os, ended, pc, call, ctx, calls, crossed>>

(* Faulty variant: the whole group goes with its first leaver. *)
RemoveFromGroup_All(p) ==
  /\ waiter[p] = "leave"
  /\ waiter' = [waiter EXCEPT ![p] = "close"]
  /\ groups' = [g \in DOMAIN groups \ {req[p].group} |-> groups[g]]
  /\ UNCHANGED <<next, procs, req, os, ended, pc, call, ctx, calls, crossed>>

(* The last member takes the group's name with it. *)
RemoveFromGroup(p) ==
  LET g == req[p].group
      others == Members(g) \ {p} IN
  /\ waiter[p] = "leave"
  /\ waiter' = [waiter EXCEPT ![p] = "close"]
  /\ groups' = IF others # {} THEN [groups EXCEPT ![g] = others]
               ELSE [h \in DOMAIN groups \ {g} |-> groups[h]]
  /\ UNCHANGED <<next, procs, req, os, ended, pc, call, ctx, calls, crossed>>

CloseDone(p) ==
  /\ waiter[p] = "close"
  /\ waiter' = [waiter EXCEPT ![p] = "over"]
  /\ UNCHANGED <<registry, os, ended, pc, call, ctx, calls, crossed>>

WaitStep(p) == Reap(p) \/ RemoveFromGroup(p) \/ CloseDone(p)

-----------------------------------------------------------------------------
(* Calls.                                                                  *)

Begin(c, op) ==
  /\ pc[c] = "idle"
  /\ op \in Ops
  /\ calls < MaxCalls
  /\ calls' = calls + 1

Goto(c, where) == pc' = [pc EXCEPT ![c] = where]
Set(c, record) == call' = [call EXCEPT ![c] = record]
Answer(c, record) == Goto(c, "answer") /\ Set(c, record)

(* Labels somebody else is about to start. *)
Starting(c) ==
  {call[d].req.label : d \in {d \in Callers \ {c} : pc[d] \in {"spawn", "register"}}}

(* Faulty variant: only the first process that ever had the label is       *)
(* looked at.                                                              *)
Labelled_First(label) ==
  {p \in procs : /\ label # None /\ req[p].label = label /\ Running(p)
                 /\ \A q \in 1..(p - 1) : req[q].label # label}

Labelled(label) == {p \in procs : label # None /\ req[p].label = label /\ Running(p)}

(* Ensure: one critical section to look for the label, and Start after it; *)
(* without a label it is Start.                                            *)
Ensure(c, r) ==
  /\ Begin(c, "ensure")
  /\ \/ \E p \in Labelled(r.label) :
          Answer(c, [Idle EXCEPT !.op = "ensure", !.req = r, !.proc = p, !.found = {p}])
     \/ /\ Labelled(r.label) = {}
        /\ Goto(c, "spawn")
        /\ Set(c, [Idle EXCEPT !.op = "ensure", !.req = r])
  /\ crossed' = crossed \cup ({r.label} \cap Starting(c))
  /\ UNCHANGED <<registry, system, ctx>>

(* start(): a process, not known to anybody yet. *)
Spawn(c) ==
  /\ pc[c] = "spawn"
  /\ next < MaxProcs
  /\ next' = next + 1
  /\ os' = [os EXCEPT ![next + 1] = "alive"]
  /\ req' = [req EXCEPT ![next + 1] = call[c].req]
  /\ Set(c, [call[c] EXCEPT !.proc = next + 1])
  /\ Goto(c, "register")
  /\ UNCHANGED <<procs, groups, ended, waiter, ctx, calls, crossed>>

StartFails(c) ==
  /\ pc[c] = "spawn"
  /\ Answer(c, [call[c] EXCEPT !.proc = Nobody, !.failed = TRUE])
  /\ UNCHANGED <<registry, system, ctx, calls, crossed>>

(* Into p.procs and its group in one critical section; then wait() runs. *)
Register(c) ==
  LET p == call[c].proc
      g == req[p].group IN
  /\ pc[c] = "register"
  /\ procs' = procs \cup {p}
  /\ groups' = IF g = None THEN groups
               ELSE [h \in DOMAIN groups \cup {g} |->
                       IF h = g THEN Members(g) \cup {p} ELSE groups[h]]
  /\ waiter' = [waiter EXCEPT ![p] = "reap"]
  /\ Answer(c, call[c])
  /\ UNCHANGED <<next, req, os, ended, ctx, calls, crossed>>

(* A group's call takes the members of one moment and goes through them in *)
(* any order; the calls that send other signals differ in the signal.      *)
GroupCall(c, op, g) ==
  /\ op \in {"kill", "wait"}
  /\ Begin(c, op)
  /\ Goto(c, "each")
  /\ Set(c, [Idle EXCEPT !.op = op, !.req = [label |-> None, group |-> g],
                         !.found = Members(g), !.todo = Members(g)])
  /\ UNCHANGED <<registry, system, ctx, crossed>>

GroupSignals(c, p) ==
  /\ pc[c] = "each"
  /\ call[c].op = "kill"
  /\ p \in call[c].todo
  /\ Set(c, [call[c] EXCEPT !.todo = @ \ {p}])
  /\ IF ctx[c] = "cancelled" THEN UNCHANGED system ELSE Signalled(p, "kill")
  /\ UNCHANGED <<registry, pc, ctx, calls, crossed>>

(* Faulty variant: the first error ends the loop. *)
GroupWaits_First(c, p) ==
  /\ pc[c] = "each"
  /\ call[c].op = "wait"
  /\ p \in call[c].todo
  /\ Done(p) \/ ctx[c] = "cancelled"
  /\ Set(c, IF ended[p] = "error" THEN [call[c] EXCEPT !.todo = {}, !.failed = TRUE]
            ELSE [call[c] EXCEPT !.todo = @ \ {p}])
  /\ UNCHANGED <<registry, system, pc, ctx, calls, crossed>>

(* proc.Wait(ctx); the errors are joined. *)
GroupWaits(c, p) ==
  /\ pc[c] = "each"
  /\ call[c].op = "wait"
  /\ p \in call[c].todo
  /\ \/ /\ Done(p)
        /\ Set(c, [call[c] EXCEPT !.todo = @ \ {p}, !.failed = @ \/ ended[p] = "error"])
     \/ /\ ctx[c] = "cancelled"
        /\ Set(c, [call[c] EXCEPT !.todo = @ \ {p}, !.failed = TRUE])
  /\ UNCHANGED <<registry, system, pc, ctx, calls, crossed>>

GroupReturns(c) ==
  /\ pc[c] = "each"
  /\ call[c].todo = {}
  /\ Answer(c, call[c])
  /\ UNCHANGED <<registry, system, ctx, calls, crossed>>

(* Restart: a process that has ended is started again at once, a running   *)
(* one is asked to end first.                                              *)
Restart(c, p) ==
  /\ Begin(c, "restart")
  /\ p \in procs
  /\ Set(c, [Idle EXCEPT !.op = "restart", !.req = req[p], !.proc = p, !.found = {p}])
  /\ crossed' = crossed \cup {req[p].label}
  /\ IF Running(p) THEN Goto(c, "stopped") /\ Signalled(p, "stop")
                   ELSE Goto(c, "spawn") /\ UNCHANGED system
  /\ UNCHANGED <<registry, ctx>>

(* Faulty variant: the context's end is taken for the end of the process. *)
RestartWaits_Impatient(c) ==
  /\ pc[c] = "stopped"
  /\ Done(call[c].proc) \/ ctx[c] = "cancelled"
  /\ Goto(c, "spawn")
  /\ UNCHANGED <<registry, system, call, ctx, calls, crossed>>

(* p.Wait(waitCtx): an error of the process is an error of the wait, and   *)
(* so is the end of the context or of the five seconds.                    *)
RestartWaits(c) ==
  /\ pc[c] = "stopped"
  /\ \/ Done(call[c].proc) /\ Goto(c, IF ended[call[c].proc] = "ok" THEN "spawn" ELSE "kill")
     \/ ctx[c] = "cancelled" /\ Goto(c, "kill")
  /\ UNCHANGED <<registry, system, call, ctx, calls, crossed>>

(* Faulty variant: no kill after the wait that failed. *)
RestartKills_Never(c) ==
  /\ pc[c] = "kill"
  /\ Goto(c, "killed")
  /\ UNCHANGED <<registry, system, call, ctx, calls, crossed>>

RestartKills(c) ==
  /\ pc[c] = "kill"
  /\ Goto(c, "killed")
  /\ Signalled(call[c].proc, "kill")
  /\ UNCHANGED <<registry, call, ctx, calls, crossed>>

(* The second Wait has no bound; its answer is the one the first would     *)
(* have had.                                                               *)
RestartWaitsAgain(c) ==
  /\ pc[c] = "killed"
  /\ Done(call[c].proc)
  /\ IF ended[call[c].proc] = "error" \/ ctx[c] = "cancelled"
       THEN Answer(c, [call[c] EXCEPT !.failed = TRUE])
       ELSE Goto(c, "spawn") /\ UNCHANGED call
  /\ UNCHANGED <<registry, system, ctx, calls, crossed>>

Return(c) ==
  /\ pc[c] = "answer"
  /\ Goto(c, "idle")
  /\ Set(c, Idle)
  /\ ctx' = [ctx EXCEPT ![c] = "live"]
  /\ UNCHANGED <<registry, system, calls, crossed>>

(* The context of the call under way ends, where that makes a difference.  *)
Cancel(c) ==
  /\ pc[c] \in {"each", "stopped", "kill", "killed"}
  /\ ctx[c] = "live"
  /\ ctx' = [ctx EXCEPT ![c] = "cancelled"]
  /\ UNCHANGED <<registry, system, pc, call, calls, crossed>>

CallStep(c) ==
  \/ Spawn(c) \/ StartFails(c) \/ Register(c) \/ GroupReturns(c) \/ Return(c)
  \/ RestartWaits(c) \/ RestartKills(c) \/ RestartWaitsAgain(c)
  \/ \E p \in Ids : GroupSignals(c, p) \/ GroupWaits(c, p)

Next ==
  \/ \E p \in Ids : ExitByItself(p) \/ WaitStep(p)
  \/ \E c \in Callers :
       \/ \E r \in Requests : Ensure(c, r)
       \/ \E op \in {"kill", "wait"}, g \in Groups : GroupCall(c, op, g)
       \/ \E p \in Ids : Restart(c, p)
       \/ Cancel(c)
       \/ CallStep(c)

Spec == Init /\ [][Next]_vars

Fairness ==
  /\ \A p \in Ids : WF_vars(WaitStep(p))
  /\ \A c \in Callers : WF_vars(CallStep(c))

FairSpec == Spec /\ Fairness

-----------------------------------------------------------------------------
(* p.groups says of every registered process whether it is still running   *)
(* in its group, whoever joins while the last member leaves, and keeps no  *)
(* name without members.                                                   *)
GroupsAgree ==
  /\ TypeOK
  /\ \A p \in procs : req[p].group # None =>
       (p \in Members(req[p].group) <=> waiter[p] \in {"reap", "leave"})
  /\ \A g \in DOMAIN groups : groups[g] # {}
  /\ \A g \in DOMAIN groups : \A p \in groups[g] : req[p].group = g

(* One process runs under a label, as long as it is only ever ensured, one *)
(* caller at a time.                                                       *)
EnsureIsUnique ==
  \A label \in Labels \ ({None} \cup crossed) :
    Cardinality({p \in procs : req[p].label = label /\ os[p] = "alive"}) <= 1

(* A group's Kill that returns under a live context has ended every member *)
(* it began with, and its Wait has seen every one of them over; Wait fails *)
(* if and only if one of them did.                                         *)
Answers(c) == pc[c] # "answer" /\ pc'[c] = "answer" /\ call'[c].op # "none"
GroupCallsAreWhole ==
  [][ \A c \in Callers :
        LET a == call'[c] IN
        (Answers(c) /\ ctx[c] = "live") =>
          /\ a.op = "kill" => \A p \in a.found : os[p] = "gone"
          /\ a.op = "wait" =>
               /\ \A p \in a.found : Done(p)
               /\ a.failed <=> \E p \in a.found : ended[p] = "error" ]_vars

(* The process a Restart replaces is over before its successor is started, *)
(* however the wait for it ended.                                          *)
RestartNeverDoubles ==
  \A c \in Callers : (pc[c] = "spawn" /\ call[c].op = "restart") =>
    \A p \in call[c].found : os[p] = "gone"

(* Every call comes back: a Restart even of a process that ignores SIGTERM *)
(* once the caller's patience has ended.                                   *)
RestartComesBack ==
  \A c \in Callers :
    (pc[c] \in {"stopped", "kill", "killed"} /\ ctx[c] = "cancelled") ~>
      pc[c] \in {"spawn", "answer"}

(* A Restart under a live context comes to start the process again if that *)
(* obeys SIGTERM (process.go:64, process.go:23).  The code gives up on a   *)
(* process that the signal ends.                                           *)
RestartRestarts ==
  \A c \in Callers :
    (pc[c] = "answer" /\ call[c].op = "restart" /\ ctx[c] = "live") =>
      (call[c].failed => call[c].proc = Nobody)

=============================================================================
