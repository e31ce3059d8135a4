----------------------- MODULE ProcessRegistry_proofs ------------------------
(***************************************************************************)
(* Theorems about ProcessRegistry for every number of processes, callers,  *)
(* labels and groups.                                                      *)
(*                                                                         *)
(* What the calls promise rests on what they remember between two of their *)
(* critical sections: that a process found ended cannot come back, that a  *)
(* process they started is nobody else's until they register it, and that  *)
(* the label they looked for cannot have appeared meanwhile.  Inv says so. *)
(***************************************************************************)
EXTENDS ProcessRegistry, FiniteSetTheorems, TLAPS

AnyOp == Calls \cup {"none"}
AnyRequest == [label : Labels \cup {None}, group : Groups \cup {None}]
CallRecord == [op : AnyOp, req : AnyRequest, proc : Ids \cup {Nobody},
               found : SUBSET Ids, todo : SUBSET Ids, failed : BOOLEAN]

Types ==
  /\ TypeOK
  /\ call \in [Callers -> CallRecord]
  /\ ctx \in [Callers -> {"live", "cancelled"}]

(* A process is born with its number, known once it is registered, and     *)
(* what wait() has settled is of a process that has ended.                 *)
ProcInv ==
  \A p \in Ids :
    /\ os[p] = "unborn" <=> p > next
    /\ waiter[p] = "off" <=> p \notin procs
    /\ waiter[p] \in {"leave", "close", "over"} => os[p] = "gone"
    /\ os[p] = "gone" <=> ended[p] # "none"
    /\ p <= next => req[p] \in Requests

(* What a caller holds at each point of its call. *)
HoldsAt(c) ==
  /\ pc[c] = "idle" => call[c] = Idle
  /\ pc[c] = "spawn" =>
       /\ call[c].op \in {"ensure", "restart"} /\ call[c].req \in Requests
       /\ \A p \in call[c].found : os[p] = "gone"
  /\ pc[c] = "register" =>
       /\ call[c].op \in {"ensure", "restart"}
       /\ call[c].proc \in (1..next) \ procs
       /\ req[call[c].proc] = call[c].req
  /\ pc[c] = "each" => call[c].op \in {"kill", "wait"}
  /\ pc[c] \in {"stopped", "kill", "killed"} =>
       /\ call[c].op = "restart" /\ call[c].req \in Requests
       /\ call[c].proc \in procs /\ call[c].found = {call[c].proc}

CallInv ==
  /\ \A c \in Callers : HoldsAt(c)
  /\ \A c, d \in Callers :
       (pc[c] = "register" /\ pc[d] = "register" /\ call[c].proc = call[d].proc) => c = d

GroupInv ==
  /\ \A p \in procs : req[p].group # None =>
       (p \in Members(req[p].group) <=> waiter[p] \in {"reap", "leave"})
  /\ \A g \in DOMAIN groups : groups[g] # {}
  /\ \A g \in DOMAIN groups : \A p \in groups[g] : req[p].group = g

(* A group's call has done its part for the members it has gone past. *)
PartDone(c) ==
  (pc[c] = "each" /\ ctx[c] = "live") =>
    /\ call[c].op = "kill" => \A p \in call[c].found \ call[c].todo : os[p] = "gone"
    /\ call[c].op = "wait" =>
         /\ \A p \in call[c].found \ call[c].todo : Done(p)
         /\ call[c].failed <=> \E p \in call[c].found \ call[c].todo : ended[p] = "error"
LoopInv == \A c \in Callers : PartDone(c)

(* A label that was only ensured, by one caller at a time: one caller is   *)
(* about to start it or one process runs under it, never both.             *)
Starts(c, label) == pc[c] \in {"spawn", "register"} /\ call[c].req.label = label
LabelInv ==
  /\ \A c \in Callers : call[c].op = "restart" => call[c].req.label \in crossed
  /\ \A label \in Labels \ ({None} \cup crossed) :
       /\ \A c, d \in Callers : Starts(c, label) /\ Starts(d, label) => c = d
       /\ \A c \in Callers : Starts(c, label) => Labelled(label) = {}
       /\ \A p, q \in Labelled(label) : p = q

Inv == Types /\ ProcInv /\ CallInv /\ GroupInv /\ LoopInv /\ LabelInv

-----------------------------------------------------------------------------
LEMMA KnownIds ==
  ASSUME Types
  PROVE  /\ procs \subseteq Ids /\ next \in Nat
         /\ \A c \in Callers : call[c].found \subseteq Ids
BY RegistryAssumption DEF Types, TypeOK, Ids

(* Going past one member changes nothing of a call but what is left to do  *)
(* and whether it has failed.                                              *)
LEMMA LoopMoves ==
  ASSUME Types, NEW c \in Callers, NEW p \in Ids, GroupSignals(c, p) \/ GroupWaits(c, p)
  PROVE  /\ call'[c].op = call[c].op /\ call'[c].req = call[c].req
         /\ call'[c].found = call[c].found /\ call'[c].todo = call[c].todo \ {p}
         /\ GroupWaits(c, p) =>
              \/ /\ Done(p)
                 /\ call'[c].failed <=> (call[c].failed \/ ended[p] = "error")
              \/ ctx[c] = "cancelled"
         /\ pc[c] = "each" /\ pc' = pc /\ ctx' = ctx /\ p \in call[c].todo
         /\ \A d \in Callers \ {c} : call'[d] = call[d]
<1>1. call[c] \in CallRecord /\ call \in [Callers -> CallRecord]
  BY DEF Types
<1>2. /\ pc[c] = "each" /\ pc' = pc /\ ctx' = ctx /\ p \in call[c].todo
      /\ \A d \in Callers \ {c} : call'[d] = call[d]
  BY <1>1 DEF GroupSignals, GroupWaits, Set
<1>3. CASE GroupSignals(c, p)
  <2>1. call'[c] = [call[c] EXCEPT !.todo = @ \ {p}] /\ call[c].op = "kill"
    BY <1>1, <1>3 DEF GroupSignals, Set
  <2>2. ~GroupWaits(c, p)
    BY <2>1 DEF GroupWaits
  <2> QED BY <1>1, <1>2, <2>1, <2>2 DEF CallRecord
<1>4. CASE GroupWaits(c, p)
  <2>1. CASE /\ Done(p)
             /\ Set(c, [call[c] EXCEPT !.todo = @ \ {p}, !.failed = @ \/ ended[p] = "error"])
    <3>1. call'[c] = [call[c] EXCEPT !.todo = @ \ {p}, !.failed = @ \/ ended[p] = "error"]
      BY <1>1, <2>1 DEF Set
    <3> QED BY <1>1, <1>2, <2>1, <3>1 DEF CallRecord
  <2>2. CASE /\ ctx[c] = "cancelled"
             /\ Set(c, [call[c] EXCEPT !.todo = @ \ {p}, !.failed = TRUE])
    <3>1. call'[c] = [call[c] EXCEPT !.todo = @ \ {p}, !.failed = TRUE]
      BY <1>1, <2>2 DEF Set
    <3> QED BY <1>1, <1>2, <2>2, <3>1 DEF CallRecord
  <2> QED BY <1>4, <2>1, <2>2 DEF GroupWaits
<1> QED BY <1>3, <1>4

(* What a signal may do to a process. *)
LEMMA SignalEnds ==
  ASSUME Types, ProcInv, NEW p \in Ids, NEW signal \in {"stop", "kill"}, Signalled(p, signal)
  PROVE  /\ os' \in [Ids -> {"unborn", "alive", "gone"}]
         /\ ended' \in [Ids -> Endings \cup {"none", "error"}]
         /\ waiter' = waiter
         /\ \A q \in Ids \ {p} : os'[q] = os[q] /\ ended'[q] = ended[q]
         /\ \/ os' = os /\ ended' = ended
            \/ os[p] = "alive" /\ os'[p] = "gone" /\ ended'[p] # "none"
         /\ signal = "kill" => os'[p] # "alive"
<1>1. "none" \notin Endings
  BY RegistryAssumption
<1>2. CASE /\ os[p] # "alive" \/ signal = "stop"
           /\ UNCHANGED <<os, ended>>
  BY <1>2 DEF Signalled, Types, TypeOK
<1>3. ASSUME os[p] = "alive",
             os' = [os EXCEPT ![p] = "gone"],
             NEW how \in Endings \cup {"error"}, ended' = [ended EXCEPT ![p] = how],
             waiter' = waiter
      PROVE  /\ os' \in [Ids -> {"unborn", "alive", "gone"}]
             /\ ended' \in [Ids -> Endings \cup {"none", "error"}]
             /\ \A q \in Ids \ {p} : os'[q] = os[q] /\ ended'[q] = ended[q]
             /\ os[p] = "alive" /\ os'[p] = "gone" /\ ended'[p] # "none"
  BY <1>1, <1>3 DEF Types, TypeOK
<1> QED BY <1>2, <1>3 DEF Signalled

(* A call's record when it begins. *)
LEMMA NewCalls ==
  /\ Idle \in CallRecord /\ Idle.found = {} /\ Idle.todo = {}
  /\ \A r \in AnyRequest : [Idle EXCEPT !.op = "ensure", !.req = r] \in CallRecord
  /\ \A op \in Calls, r \in AnyRequest, p \in Ids, s \in SUBSET Ids :
       [Idle EXCEPT !.op = op, !.req = r, !.proc = p, !.found = s] \in CallRecord
  /\ \A op \in Calls, r \in AnyRequest, s \in SUBSET Ids :
       [Idle EXCEPT !.op = op, !.req = r, !.found = s, !.todo = s] \in CallRecord
<1>1. NoRequest \in AnyRequest
  BY DEF AnyRequest, NoRequest
<1>2. Idle \in CallRecord
  BY <1>1 DEF Idle, CallRecord, AnyOp, Nobody
<1> QED BY <1>1, <1>2 DEF Idle, CallRecord, AnyOp, Nobody, Calls

LEMMA RequestsTyped ==
  /\ \A r \in Requests : r \in AnyRequest
  /\ NoRequest \in AnyRequest
  /\ \A g \in Groups : [label |-> None, group |-> g] \in AnyRequest
BY RegistryAssumption DEF AnyRequest, NoRequest, Labels, Groups

(* The types of the calls after one of them was given a new record. *)
LEMMA SetTyped ==
  ASSUME Types, NEW c \in Callers, NEW a \in CallRecord, Set(c, a),
         a.todo \subseteq a.found, a.found \subseteq procs', procs \subseteq procs'
  PROVE  /\ call' \in [Callers -> CallRecord]
         /\ \A d \in Callers : call'[d].todo \subseteq call'[d].found /\ call'[d].found \subseteq procs'
         /\ call'[c] = a
         /\ \A d \in Callers \ {c} : call'[d] = call[d]
BY DEF Types, TypeOK, Set

LEMMA TypesStep ==
  ASSUME Inv, [Next]_vars
  PROVE  Types'
<1> USE RegistryAssumption
    DEF Inv, Types, TypeOK, registry, system, Goto, Answer, Begin
<1>0. /\ \A c \in Callers : call[c] \in CallRecord
      /\ Nobody \in Ids \cup {Nobody}
  OBVIOUS
<1>1. ASSUME NEW p \in Ids, ExitByItself(p) PROVE Types'
  BY <1>1 DEF ExitByItself
<1>2. ASSUME NEW p \in Ids, Reap(p) PROVE Types'
  BY <1>2 DEF Reap
<1>3. ASSUME NEW p \in Ids, RemoveFromGroup(p) PROVE Types'
  BY <1>3 DEF RemoveFromGroup, Members
<1>4. ASSUME NEW p \in Ids, CloseDone(p) PROVE Types'
  BY <1>4 DEF CloseDone
<1>5. ASSUME NEW c \in Callers, NEW r \in Requests, Ensure(c, r) PROVE Types'
  <2>1. CASE Labelled(r.label) = {}
    <3> DEFINE a == [Idle EXCEPT !.op = "ensure", !.req = r]
    <3>1. Set(c, a) /\ pc' = [pc EXCEPT ![c] = "spawn"]
      BY <1>5, <2>1 DEF Ensure
    <3>2. a \in CallRecord /\ a.found = {} /\ a.todo = {}
      BY NewCalls, RequestsTyped DEF Idle
    <3> HIDE DEF a
    <3> QED BY <1>5, <3>1, <3>2, SetTyped DEF Ensure
  <2>2. ASSUME NEW p \in Labelled(r.label),
               Answer(c, [Idle EXCEPT !.op = "ensure", !.req = r, !.proc = p, !.found = {p}])
        PROVE  Types'
    <3> DEFINE a == [Idle EXCEPT !.op = "ensure", !.req = r, !.proc = p, !.found = {p}]
    <3>1. p \in Ids /\ p \in procs /\ {p} \in SUBSET Ids
      BY DEF Labelled, Ids
    <3>2. a \in CallRecord /\ a.found = {p} /\ a.todo = {}
      BY <3>1, NewCalls, RequestsTyped DEF Calls, Idle
    <3>3. Set(c, a) /\ pc' = [pc EXCEPT ![c] = "answer"]
      BY <2>2
    <3> HIDE DEF a
    <3>4. UNCHANGED <<registry, system, ctx>>
      BY <1>5 DEF Ensure
    <3>6. /\ call' \in [Callers -> CallRecord]
          /\ \A d \in Callers : call'[d].todo \subseteq call'[d].found /\ call'[d].found \subseteq procs'
      <4>1. a.todo \subseteq a.found /\ a.found \subseteq procs' /\ procs \subseteq procs'
        BY <3>1, <3>2, <3>4
      <4> QED BY <3>2, <3>3, <4>1, SetTyped
    <3> QED BY <3>3, <3>4, <3>6
  <2> QED BY <1>5, <2>1, <2>2 DEF Ensure
<1>6. ASSUME NEW c \in Callers, NEW op \in {"kill", "wait"}, NEW g \in Groups,
             GroupCall(c, op, g)
      PROVE  Types'
  <2> DEFINE r == [label |-> None, group |-> g]
             a == [Idle EXCEPT !.op = op, !.req = r, !.found = Members(g), !.todo = Members(g)]
  <2>1. Members(g) \subseteq procs /\ Members(g) \in SUBSET Ids
    BY DEF Members, Ids
  <2>2. a \in CallRecord /\ a.found = Members(g) /\ a.todo = Members(g)
    BY <2>1, NewCalls, RequestsTyped DEF Calls, Idle
  <2>3. Set(c, a)
    BY <1>6 DEF GroupCall
  <2> HIDE DEF a
  <2> QED BY <1>6, <2>1, <2>2, <2>3, SetTyped DEF GroupCall
<1>7. ASSUME NEW c \in Callers, NEW p \in Ids, Restart(c, p) PROVE Types'
  <2> DEFINE a == [Idle EXCEPT !.op = "restart", !.req = req[p], !.proc = p, !.found = {p}]
  <2>1. p \in procs /\ req[p] \in AnyRequest /\ {p} \in SUBSET Ids
    BY <1>7, RequestsTyped DEF Restart
  <2>2. a \in CallRecord /\ a.found = {p} /\ a.todo = {}
    BY <2>1, NewCalls DEF Calls, Idle
  <2>3. Set(c, a)
    BY <1>7 DEF Restart
  <2> HIDE DEF a
  <2>4. /\ os' \in [Ids -> {"unborn", "alive", "gone"}]
        /\ ended' \in [Ids -> Endings \cup {"none", "error"}]
        /\ waiter' = waiter
    BY <1>7, SignalEnds DEF Restart
  <2>5. pc' \in [Callers -> {"idle", "spawn", "register", "each", "stopped", "kill", "killed",
                             "answer"}]
    BY <1>7 DEF Restart
  <2> QED BY <1>7, <2>1, <2>2, <2>3, <2>4, <2>5, SetTyped DEF Restart
<1>8. ASSUME NEW c \in Callers, Cancel(c) PROVE Types'
  BY <1>8 DEF Cancel
<1>9. ASSUME NEW c \in Callers, Spawn(c) PROVE Types'
  <2> DEFINE a == [call[c] EXCEPT !.proc = next + 1]
  <2>1. next + 1 \in Ids /\ Set(c, a)
    BY <1>9 DEF Spawn, Ids
  <2>2. a \in CallRecord /\ a.found = call[c].found /\ a.todo = call[c].todo
    <3>1. call[c] \in CallRecord
      BY <1>0
    <3>2. next + 1 \in Ids
      BY <2>1
    <3> HIDE DEF Inv, Types, TypeOK
    <3> QED BY <3>1, <3>2 DEF CallRecord
  <2>3. call[c].req \in Requests
    BY <1>9 DEF Spawn, CallInv, HoldsAt
  <2> HIDE DEF a
  <2> QED BY <1>9, <2>1, <2>2, <2>3, SetTyped DEF Spawn
<1>10. ASSUME NEW c \in Callers, StartFails(c) PROVE Types'
  <2> DEFINE a == [call[c] EXCEPT !.proc = Nobody, !.failed = TRUE]
  <2>1. Set(c, a)
    BY <1>10 DEF StartFails
  <2>2. a \in CallRecord /\ a.found = call[c].found /\ a.todo = call[c].todo
    <3>1. call[c] \in CallRecord
      BY <1>0
    <3> HIDE DEF Inv, Types, TypeOK
    <3> QED BY <3>1 DEF CallRecord
  <2> HIDE DEF a
  <2> QED BY <1>10, <2>1, <2>2, SetTyped DEF StartFails
<1>11. ASSUME NEW c \in Callers, Register(c) PROVE Types'
  <2> DEFINE p == call[c].proc
  <2>1. p \in Ids /\ p \in 1..next /\ req[p] \in Requests
    BY <1>11 DEF Register, CallInv, HoldsAt, ProcInv, Ids
  <2>2. call[c] \in CallRecord /\ Set(c, call[c])
    BY <1>11 DEF Register
  <2>3. procs' = procs \cup {p}
    BY <1>11 DEF Register
  <2>4. /\ call' \in [Callers -> CallRecord]
        /\ \A d \in Callers : call'[d].todo \subseteq call'[d].found /\ call'[d].found \subseteq procs'
    BY <2>2, <2>3, SetTyped
  <2>5. DOMAIN groups' \subseteq Groups /\ \A g \in DOMAIN groups' : groups'[g] \subseteq procs'
    BY <1>11, <2>1, <2>3 DEF Register, Members, Groups
  <2> QED BY <1>11, <2>1, <2>3, <2>4, <2>5 DEF Register
<1>12. ASSUME NEW c \in Callers, GroupReturns(c) PROVE Types'
  BY <1>12, SetTyped DEF GroupReturns
<1>13. ASSUME NEW c \in Callers, Return(c) PROVE Types'
  BY <1>13, NewCalls, SetTyped DEF Return
<1>14. ASSUME NEW c \in Callers, RestartWaits(c) PROVE Types'
  BY <1>14 DEF RestartWaits
<1>15. ASSUME NEW c \in Callers, RestartKills(c) PROVE Types'
  <2>1. call[c].proc \in Ids
    BY <1>15 DEF RestartKills, CallInv, HoldsAt, Ids
  <2>2. /\ os' \in [Ids -> {"unborn", "alive", "gone"}]
        /\ ended' \in [Ids -> Endings \cup {"none", "error"}]
        /\ waiter' = waiter
    BY <1>15, <2>1, SignalEnds DEF RestartKills
  <2> QED BY <1>15, <2>2 DEF RestartKills
<1>16. ASSUME NEW c \in Callers, RestartWaitsAgain(c) PROVE Types'
  <2> DEFINE a == [call[c] EXCEPT !.failed = TRUE]
  <2>1. a \in CallRecord /\ a.found = call[c].found /\ a.todo = call[c].todo
    <3>1. call[c] \in CallRecord
      BY <1>0
    <3> HIDE DEF Inv, Types, TypeOK
    <3> QED BY <3>1 DEF CallRecord
  <2>2. Set(c, a) \/ UNCHANGED call
    BY <1>16 DEF RestartWaitsAgain
  <2> HIDE DEF a
  <2>3. /\ call' \in [Callers -> CallRecord]
        /\ \A d \in Callers : call'[d].todo \subseteq call'[d].found /\ call'[d].found \subseteq procs'
    BY <1>16, <2>1, <2>2, SetTyped DEF RestartWaitsAgain
  <2> QED BY <1>16, <2>3 DEF RestartWaitsAgain
<1>17. ASSUME NEW c \in Callers, NEW p \in Ids, GroupSignals(c, p) PROVE Types'
  <2> DEFINE a == [call[c] EXCEPT !.todo = @ \ {p}]
  <2>1. a \in CallRecord /\ a.found = call[c].found /\ a.todo = call[c].todo \ {p}
    <3>1. call[c] \in CallRecord
      BY <1>0
    <3> HIDE DEF Inv, Types, TypeOK
    <3> QED BY <3>1 DEF CallRecord
  <2>2. Set(c, a)
    BY <1>17 DEF GroupSignals
  <2>3. /\ os' \in [Ids -> {"unborn", "alive", "gone"}]
        /\ ended' \in [Ids -> Endings \cup {"none", "error"}]
        /\ waiter' = waiter
    BY <1>17, SignalEnds DEF GroupSignals
  <2> HIDE DEF a
  <2> QED BY <1>17, <2>1, <2>2, <2>3, SetTyped DEF GroupSignals
<1>18. ASSUME NEW c \in Callers, NEW p \in Ids, GroupWaits(c, p) PROVE Types'
  <2>1. PICK f \in BOOLEAN : Set(c, [call[c] EXCEPT !.todo = @ \ {p}, !.failed = f])
    BY <1>18 DEF GroupWaits, CallRecord
  <2> DEFINE a == [call[c] EXCEPT !.todo = @ \ {p}, !.failed = f]
  <2>2. a \in CallRecord /\ a.found = call[c].found /\ a.todo = call[c].todo \ {p}
    <3>1. call[c] \in CallRecord
      BY <1>0
    <3> HIDE DEF Inv, Types, TypeOK
    <3> QED BY <3>1 DEF CallRecord
  <2>3. Set(c, a)
    BY <2>1
  <2> HIDE DEF a
  <2> QED BY <1>18, <2>2, <2>3, SetTyped DEF GroupWaits
<1>19. CASE UNCHANGED vars
  BY <1>19 DEF vars
<1> QED
  BY <1>1, <1>2, <1>3, <1>4, <1>5, <1>6, <1>7, <1>8, <1>9, <1>10, <1>11, <1>12, <1>13,
     <1>14, <1>15, <1>16, <1>17, <1>18, <1>19
     DEF Next, WaitStep, CallStep


LEMMA ProcStep ==
  ASSUME Inv, [Next]_vars
  PROVE  ProcInv'
<1> USE RegistryAssumption DEF Inv, Types, TypeOK, registry, system, Ids
<1>0. ASSUME UNCHANGED <<registry, system>> PROVE ProcInv'
  BY <1>0 DEF ProcInv
<1>1. ASSUME NEW p \in Ids, ExitByItself(p) PROVE ProcInv'
  <2>1. PICK how \in Endings : ended' = [ended EXCEPT ![p] = how]
    BY <1>1 DEF ExitByItself
  <2>2. how # "none" /\ ended[p] = "none"
    BY <1>1 DEF ExitByItself, ProcInv
  <2>3. \A q \in Ids : /\ ended'[q] = IF q = p THEN how ELSE ended[q]
                       /\ os'[q] = IF q = p THEN "gone" ELSE os[q]
    BY <1>1, <2>1 DEF ExitByItself
  <2>4. /\ os[p] = "alive"
        /\ next' = next /\ waiter' = waiter /\ procs' = procs /\ req' = req
    BY <1>1 DEF ExitByItself
  <2> QED BY <2>2, <2>3, <2>4 DEF ProcInv
<1>2. ASSUME NEW p \in Ids, WaitStep(p) PROVE ProcInv'
  BY <1>2 DEF WaitStep, Reap, RemoveFromGroup, CloseDone, ProcInv
<1>3. ASSUME NEW p \in Ids, NEW signal \in {"stop", "kill"}, Signalled(p, signal), p \in procs,
             UNCHANGED registry
      PROVE  ProcInv'
  <2>1. p \in 1..next
    BY <1>3
  <2>2. os[p] # "unborn"
    BY <2>1 DEF ProcInv
  <2> QED BY <1>3, <2>1, <2>2, SignalEnds DEF ProcInv
<1>4. ASSUME NEW c \in Callers, Spawn(c) PROVE ProcInv'
  <2>1. call[c].req \in Requests
    BY <1>4 DEF Spawn, CallInv, HoldsAt
  <2> QED BY <1>4, <2>1 DEF Spawn, ProcInv
<1>5. ASSUME NEW c \in Callers, Register(c) PROVE ProcInv'
  <2>1. call[c].proc \in (1..next) \ procs
    BY <1>5 DEF Register, CallInv, HoldsAt
  <2>2. os[call[c].proc] # "unborn"
    BY <2>1 DEF ProcInv
  <2> QED BY <1>5, <2>1, <2>2 DEF Register, ProcInv
<1>6. ASSUME NEW c \in Callers, NEW p \in Ids, Restart(c, p) PROVE ProcInv'
  BY <1>0, <1>3, <1>6 DEF Restart
<1>7. ASSUME NEW c \in Callers, RestartKills(c) PROVE ProcInv'
  <2>1. call[c].proc \in procs
    BY <1>7 DEF RestartKills, CallInv, HoldsAt
  <2> QED BY <1>3, <1>7, <2>1 DEF RestartKills
<1>8. ASSUME NEW c \in Callers, NEW p \in Ids, GroupSignals(c, p) PROVE ProcInv'
  <2>1. p \in procs
    BY <1>8 DEF GroupSignals
  <2> QED BY <1>0, <1>3, <1>8, <2>1 DEF GroupSignals
<1>9. ASSUME NEW c \in Callers,
             \/ \E r \in Requests : Ensure(c, r)
             \/ \E op \in {"kill", "wait"}, g \in Groups : GroupCall(c, op, g)
             \/ Cancel(c) \/ StartFails(c) \/ GroupReturns(c) \/ Return(c)
             \/ RestartWaits(c) \/ RestartWaitsAgain(c)
             \/ \E p \in Ids : GroupWaits(c, p)
      PROVE  ProcInv'
  <2>1. UNCHANGED <<registry, system>>
    BY <1>9 DEF Ensure, GroupCall, Cancel, StartFails, GroupReturns, Return, RestartWaits,
                RestartWaitsAgain, GroupWaits
  <2> QED BY <1>0, <2>1
<1>10. CASE UNCHANGED vars
  BY <1>0, <1>10 DEF vars
<1> QED
  BY <1>1, <1>2, <1>4, <1>5, <1>6, <1>7, <1>8, <1>9, <1>10 DEF Next, CallStep

(* What a step of anybody leaves true of processes and labels. *)
Persists ==
  /\ procs \subseteq procs' /\ next <= next'
  /\ \A p \in 1..next : req'[p] = req[p]
  /\ \A p \in Ids : os[p] = "gone" => os'[p] = "gone" /\ ended'[p] = ended[p]
  /\ \A p \in Ids : Done(p) => Done(p)'
  /\ \A p \in procs : ~Running(p) => ~Running(p)'
  /\ crossed \subseteq crossed'

LEMMA PersistsStep ==
  ASSUME Inv, [Next]_vars
  PROVE  Persists
<1> USE RegistryAssumption DEF Inv, Types, TypeOK, registry, system, Ids, Persists, Done, Running
<1>0. ASSUME UNCHANGED <<registry, system>>, crossed \subseteq crossed' PROVE Persists
  BY <1>0
<1>1. ASSUME NEW p \in Ids, ExitByItself(p) PROVE Persists
  BY <1>1 DEF ExitByItself
<1>2. ASSUME NEW p \in Ids, WaitStep(p) PROVE Persists
  BY <1>2 DEF WaitStep, Reap, RemoveFromGroup, CloseDone
<1>3. ASSUME NEW p \in Ids, NEW signal \in {"stop", "kill"}, Signalled(p, signal),
             UNCHANGED registry, crossed \subseteq crossed'
      PROVE  Persists
  BY <1>3, SignalEnds
<1>4. ASSUME NEW c \in Callers, Spawn(c) PROVE Persists
  BY <1>4 DEF Spawn, ProcInv
<1>5. ASSUME NEW c \in Callers, Register(c) PROVE Persists
  BY <1>5 DEF Register, CallInv, HoldsAt, ProcInv
<1>6. ASSUME NEW c \in Callers, NEW p \in Ids, Restart(c, p) PROVE Persists
  BY <1>0, <1>3, <1>6 DEF Restart
<1>7. ASSUME NEW c \in Callers, RestartKills(c) PROVE Persists
  <2>1. call[c].proc \in Ids
    BY <1>7 DEF RestartKills, CallInv, HoldsAt
  <2> QED BY <1>3, <1>7, <2>1 DEF RestartKills
<1>8. ASSUME NEW c \in Callers, NEW p \in Ids, GroupSignals(c, p) PROVE Persists
  BY <1>0, <1>3, <1>8 DEF GroupSignals
<1>9. ASSUME NEW c \in Callers,
             \/ \E r \in Requests : Ensure(c, r)
             \/ \E op \in {"kill", "wait"}, g \in Groups : GroupCall(c, op, g)
             \/ Cancel(c) \/ StartFails(c) \/ GroupReturns(c) \/ Return(c)
             \/ RestartWaits(c) \/ RestartWaitsAgain(c)
             \/ \E p \in Ids : GroupWaits(c, p)
      PROVE  Persists
  <2>1. UNCHANGED <<registry, system>> /\ crossed \subseteq crossed'
    BY <1>9 DEF Ensure, GroupCall, Cancel, StartFails, GroupReturns, Return, RestartWaits,
                RestartWaitsAgain, GroupWaits
  <2> QED BY <1>0, <2>1
<1>10. CASE UNCHANGED vars
  BY <1>0, <1>10 DEF vars
<1> QED
  BY <1>1, <1>2, <1>4, <1>5, <1>6, <1>7, <1>8, <1>9, <1>10 DEF Next, CallStep


(* Whoever takes no part in a step holds what he held. *)
LEMMA OthersHold ==
  ASSUME Inv, [Next]_vars, Persists, NEW d \in Callers, pc'[d] = pc[d], call'[d] = call[d],
         pc[d] = "register" => call[d].proc \notin procs'
  PROVE  HoldsAt(d)'
<1>1. HoldsAt(d) /\ call[d].found \subseteq Ids
  BY KnownIds DEF Inv, CallInv
<1>2. /\ procs \subseteq procs' /\ next \in Nat /\ next' \in Nat /\ next <= next'
      /\ \A p \in 1..next : req'[p] = req[p]
      /\ \A p \in Ids : os[p] = "gone" => os'[p] = "gone"
  BY TypesStep DEF Inv, Types, TypeOK, Persists
<1>3. pc[d] = "register" => /\ call[d].proc \in 1..next /\ call[d].proc \in 1..next'
                            /\ req'[call[d].proc] = req[call[d].proc]
  BY <1>1, <1>2 DEF HoldsAt
<1> QED BY <1>1, <1>2, <1>3 DEF HoldsAt

LEMMA CallInvStep ==
  ASSUME Inv, [Next]_vars
  PROVE  CallInv'
<1> USE DEF Inv, Types, TypeOK, registry, system, Goto, Set, Answer, Begin
<1>0. Persists
  BY PersistsStep
(* One caller moves and starts nothing. *)
<1>a. ASSUME NEW c \in Callers, HoldsAt(c)', procs' = procs, pc'[c] # "register",
             \A d \in Callers \ {c} : pc'[d] = pc[d] /\ call'[d] = call[d]
      PROVE  CallInv'
  <2>1. \A d \in Callers \ {c} : pc[d] = "register" => call[d].proc \notin procs
    BY DEF CallInv, HoldsAt
  <2>2. \A d \in Callers \ {c} : HoldsAt(d)'
    BY <1>0, <1>a, <2>1, OthersHold
  <2> QED BY <1>a, <2>2 DEF CallInv
<1>b. ASSUME UNCHANGED <<pc, call, procs>> PROVE CallInv'
  <2>1. \A d \in Callers : pc[d] = "register" => call[d].proc \notin procs
    BY DEF CallInv, HoldsAt
  <2>2. \A d \in Callers : HoldsAt(d)'
    BY <1>0, <1>b, <2>1, OthersHold
  <2> QED BY <1>b, <2>2 DEF CallInv
<1>1. ASSUME NEW p \in Ids, ExitByItself(p) \/ WaitStep(p) PROVE CallInv'
  BY <1>1, <1>b DEF ExitByItself, WaitStep, Reap, RemoveFromGroup, CloseDone
<1>2. ASSUME NEW c \in Callers, NEW r \in Requests, Ensure(c, r) PROVE CallInv'
  <2>1. pc' = [pc EXCEPT ![c] = "spawn"] \/ pc' = [pc EXCEPT ![c] = "answer"]
    BY <1>2 DEF Ensure
  <2>2. pc'[c] = "spawn" => call' = [call EXCEPT ![c] = [Idle EXCEPT !.op = "ensure", !.req = r]]
    BY <1>2 DEF Ensure
  <2>3. pc'[c] = "spawn" =>
          call'[c].op = "ensure" /\ call'[c].req = r /\ call'[c].found = {}
    BY <2>2 DEF Idle
  <2>5. HoldsAt(c)'
    BY <2>1, <2>3 DEF HoldsAt
  <2>4. \A d \in Callers \ {c} : pc'[d] = pc[d] /\ call'[d] = call[d]
    BY <1>2 DEF Ensure
  <2> QED BY <1>2, <1>a, <2>1, <2>4, <2>5 DEF Ensure
<1>3. ASSUME NEW c \in Callers, NEW op \in {"kill", "wait"}, NEW g \in Groups,
             GroupCall(c, op, g)
      PROVE  CallInv'
  <2>1. HoldsAt(c)' /\ pc'[c] = "each"
    BY <1>3 DEF GroupCall, HoldsAt, Idle
  <2> QED BY <1>3, <1>a, <2>1 DEF GroupCall
<1>4. ASSUME NEW c \in Callers, NEW p \in Ids, Restart(c, p) PROVE CallInv'
  <2>1. p \in procs /\ p <= next
    BY <1>4 DEF Restart, Ids
  <2>2. req[p] \in Requests
    BY <2>1 DEF ProcInv
  <2>3. ~Running(p) => os'[p] = "gone"
    BY <1>4, <2>1 DEF Restart, Running, ProcInv
  <2>4. /\ call'[c].op = "restart" /\ call'[c].req = req[p] /\ call'[c].proc = p
        /\ call'[c].found = {p}
        /\ procs' = procs
        /\ pc'[c] = IF Running(p) THEN "stopped" ELSE "spawn"
        /\ \A d \in Callers \ {c} : pc'[d] = pc[d] /\ call'[d] = call[d]
    BY <1>4 DEF Restart, Idle
  <2>5. HoldsAt(c)'
    BY <2>1, <2>2, <2>3, <2>4 DEF HoldsAt
  <2> QED BY <1>a, <2>4, <2>5
<1>5. ASSUME NEW c \in Callers, Cancel(c) PROVE CallInv'
  BY <1>5, <1>b DEF Cancel
<1>6. ASSUME NEW c \in Callers, Spawn(c) PROVE CallInv'
  <2>1. HoldsAt(c) /\ call[c] \in CallRecord
    BY DEF CallInv
  <2>8. call' = [call EXCEPT ![c] = [call[c] EXCEPT !.proc = next + 1]]
    BY <1>6 DEF Spawn
  <2>9. call'[c].op = call[c].op /\ call'[c].req = call[c].req /\ call'[c].proc = next + 1
    BY <2>1, <2>8 DEF CallRecord
  <2>2. /\ procs' = procs /\ next' = next + 1 /\ req'[next + 1] = call[c].req
        /\ pc[c] = "spawn" /\ pc'[c] = "register"
        /\ \A d \in Callers \ {c} : pc'[d] = pc[d] /\ call'[d] = call[d]
    <3>1. next + 1 \in Ids
      BY <1>6, RegistryAssumption, KnownIds DEF Spawn, Ids
    <3> QED BY <1>6, <3>1 DEF Spawn
  <2>3. next + 1 \in (1..next') \ procs
    BY <2>2
  <2>4. HoldsAt(c)'
    BY <2>1, <2>2, <2>3, <2>9 DEF HoldsAt
  <2>5. \A d \in Callers \ {c} : HoldsAt(d) /\ pc[d] = "register" => call[d].proc # next + 1
    BY DEF HoldsAt
  <2>6. \A d \in Callers \ {c} : HoldsAt(d)'
    <3> SUFFICES ASSUME NEW d \in Callers \ {c} PROVE HoldsAt(d)'
      OBVIOUS
    <3>1. pc[d] = "register" => call[d].proc \notin procs'
      BY <2>2 DEF CallInv, HoldsAt
    <3> QED BY <1>0, <2>2, <3>1, OthersHold
  <2>7. \A d, e \in Callers :
          (pc'[d] = "register" /\ pc'[e] = "register" /\ call'[d].proc = call'[e].proc) => d = e
    <3>1. \A d \in Callers : HoldsAt(d)
      BY DEF CallInv
    <3> QED BY <2>2, <2>5, <2>9, <3>1 DEF CallInv
  <2> QED BY <2>4, <2>6, <2>7 DEF CallInv
<1>7. ASSUME NEW c \in Callers, Register(c) PROVE CallInv'
  <2>1. /\ pc[c] = "register" /\ pc'[c] = "answer"
        /\ procs' = procs \cup {call[c].proc}
        /\ \A d \in Callers \ {c} : pc'[d] = pc[d]
        /\ \A d \in Callers : call'[d] = call[d]
    BY <1>7 DEF Register
  <2>2. \A d \in Callers \ {c} : pc[d] = "register" => call[d].proc \notin procs'
    BY <2>1 DEF CallInv, HoldsAt
  <2>3. \A d \in Callers \ {c} : HoldsAt(d)'
    BY <1>0, <2>1, <2>2, OthersHold
  <2>4. HoldsAt(c)'
    BY <2>1 DEF HoldsAt
  <2> QED BY <2>1, <2>3, <2>4 DEF CallInv
<1>8. ASSUME NEW c \in Callers, StartFails(c) \/ GroupReturns(c) \/ RestartWaitsAgain(c)
      PROVE  CallInv'
  <2>1. HoldsAt(c) /\ call[c] \in CallRecord
    BY DEF CallInv
  <2>2. CASE pc'[c] = "answer"
    BY <1>a, <1>8, <2>1, <2>2 DEF StartFails, GroupReturns, RestartWaitsAgain, HoldsAt
  <2>3. CASE pc'[c] # "answer"
    <3>1. /\ pc[c] = "killed" /\ pc'[c] = "spawn" /\ procs' = procs
          /\ call' = call /\ Done(call[c].proc) /\ os' = os
          /\ \A d \in Callers \ {c} : pc'[d] = pc[d]
      BY <1>8, <2>3 DEF StartFails, GroupReturns, RestartWaitsAgain
    <3>2. call[c].proc \in Ids /\ waiter[call[c].proc] = "over"
      BY <2>1, <3>1, KnownIds DEF HoldsAt, Done
    <3>3. os[call[c].proc] = "gone"
      BY <3>2 DEF ProcInv
    <3>4. HoldsAt(c)'
      BY <2>1, <3>1, <3>3 DEF HoldsAt
    <3> QED BY <1>a, <3>1, <3>4
  <2> QED BY <2>2, <2>3
<1>9. ASSUME NEW c \in Callers, Return(c) PROVE CallInv'
  <2>1. HoldsAt(c)' /\ pc'[c] = "idle"
    BY <1>9 DEF Return, HoldsAt
  <2> QED BY <1>9, <1>a, <2>1 DEF Return
<1>10. ASSUME NEW c \in Callers, RestartWaits(c) PROVE CallInv'
  <2>1. HoldsAt(c) /\ pc[c] = "stopped" /\ call' = call /\ os' = os /\ procs' = procs
    BY <1>10 DEF RestartWaits, CallInv
  <2>2. pc'[c] = "kill" \/ (pc'[c] = "spawn" /\ Done(call[c].proc))
    BY <1>10 DEF RestartWaits
  <2>4. call[c].proc \in Ids
    BY <2>1, KnownIds DEF HoldsAt
  <2>5. pc'[c] = "spawn" => os[call[c].proc] = "gone"
    BY <2>2, <2>4 DEF ProcInv, Done
  <2>3. HoldsAt(c)'
    BY <2>1, <2>2, <2>5 DEF HoldsAt
  <2> QED BY <1>10, <1>a, <2>1, <2>2, <2>3 DEF RestartWaits
<1>11. ASSUME NEW c \in Callers, RestartKills(c) PROVE CallInv'
  <2>1. HoldsAt(c) /\ pc[c] = "kill" /\ pc'[c] = "killed" /\ call' = call /\ procs' = procs
    BY <1>11 DEF RestartKills, CallInv
  <2>2. HoldsAt(c)'
    BY <2>1 DEF HoldsAt
  <2> QED BY <1>11, <1>a, <2>1, <2>2 DEF RestartKills
<1>12. ASSUME NEW c \in Callers, NEW p \in Ids, GroupSignals(c, p) \/ GroupWaits(c, p)
       PROVE  CallInv'
  <2>1. pc' = pc /\ pc[c] = "each" /\ procs' = procs
    BY <1>12 DEF GroupSignals, GroupWaits
  <2>2. HoldsAt(c) /\ call[c] \in CallRecord
    BY DEF CallInv
  <2>3. call'[c].op = call[c].op
    BY <1>12, LoopMoves
  <2>4. HoldsAt(c)'
    BY <2>1, <2>2, <2>3 DEF HoldsAt
  <2> QED BY <1>12, <1>a, <2>1, <2>4 DEF GroupSignals, GroupWaits
<1>13. CASE UNCHANGED vars
  BY <1>13, <1>b DEF vars
<1> QED
  BY <1>1, <1>2, <1>3, <1>4, <1>5, <1>6, <1>7, <1>8, <1>9, <1>10, <1>11, <1>12, <1>13
     DEF Next, CallStep


(* Which steps change the registry or the stage of a wait(). *)
LEMMA RegistryMoves ==
  ASSUME Inv, [Next]_vars
  PROVE  \/ UNCHANGED <<registry, waiter>>
         \/ \E p \in Ids : WaitStep(p)
         \/ \E c \in Callers : Spawn(c) \/ Register(c)
<1>1. ASSUME NEW c \in Callers, NEW p \in Ids, Restart(c, p) \/ GroupSignals(c, p) \/ GroupWaits(c, p)
      PROVE  UNCHANGED <<registry, waiter>>
  BY <1>1 DEF Restart, GroupSignals, GroupWaits, Signalled, system
<1>2. ASSUME NEW c \in Callers,
             \/ \E r \in Requests : Ensure(c, r)
             \/ \E op \in {"kill", "wait"}, g \in Groups : GroupCall(c, op, g)
             \/ Cancel(c) \/ StartFails(c) \/ GroupReturns(c) \/ Return(c)
             \/ RestartWaits(c) \/ RestartKills(c) \/ RestartWaitsAgain(c)
      PROVE  UNCHANGED <<registry, waiter>>
  BY <1>2 DEF Ensure, GroupCall, Cancel, StartFails, GroupReturns, Return, RestartWaits,
              RestartKills, RestartWaitsAgain, Signalled, system
<1>3. ASSUME NEW p \in Ids, ExitByItself(p) PROVE UNCHANGED <<registry, waiter>>
  BY <1>3 DEF ExitByItself
<1>4. CASE UNCHANGED vars
  BY <1>4 DEF vars, system
<1> QED BY <1>1, <1>2, <1>3, <1>4 DEF Next, CallStep

LEMMA GroupInvStep ==
  ASSUME Inv, [Next]_vars
  PROVE  GroupInv'
<1> USE DEF Inv, Types, TypeOK, registry
<1>0. CASE UNCHANGED <<registry, waiter>>
  BY <1>0 DEF GroupInv, Members
<1>1. ASSUME NEW p \in Ids, Reap(p) \/ CloseDone(p) PROVE GroupInv'
  <2>1. /\ UNCHANGED registry
        /\ \A q \in Ids : waiter'[q] \in {"reap", "leave"} <=> waiter[q] \in {"reap", "leave"}
    BY <1>1 DEF Reap, CloseDone
  <2> QED BY <2>1, KnownIds DEF GroupInv, Members
<1>2. ASSUME NEW p \in Ids, RemoveFromGroup(p) PROVE GroupInv'
  <2> DEFINE g == req[p].group
             others == Members(g) \ {p}
  <2>1. /\ waiter[p] = "leave" /\ waiter' = [waiter EXCEPT ![p] = "close"]
        /\ procs' = procs /\ req' = req
        /\ groups' = IF others # {} THEN [groups EXCEPT ![g] = others]
                     ELSE [h \in DOMAIN groups \ {g} |-> groups[h]]
    BY <1>2 DEF RemoveFromGroup
  <2>2. \A h : Members(h)' = Members(h) \ (IF h = g THEN {p} ELSE {})
    BY <2>1 DEF Members
  <2>3. p \in procs
    BY <2>1 DEF ProcInv
  <2>4. \A h \in DOMAIN groups' : groups'[h] # {}
    BY <2>1 DEF GroupInv
  <2>5. \A h \in DOMAIN groups' : \A q \in groups'[h] : req'[q].group = h
    BY <2>1 DEF GroupInv, Members
  <2>6. \A q \in procs' : req'[q].group # None =>
          (q \in Members(req[q].group)' <=> waiter'[q] \in {"reap", "leave"})
    <3> SUFFICES ASSUME NEW q \in procs, req[q].group # None
                 PROVE  q \in Members(req[q].group)' <=> waiter'[q] \in {"reap", "leave"}
      BY <2>1
    <3>1. q \in Members(req[q].group) <=> waiter[q] \in {"reap", "leave"}
      BY DEF GroupInv
    <3>2. CASE q = p
      BY <2>1, <2>2, <3>2
    <3>3. CASE q # p
      BY <2>1, <2>2, <3>1, <3>3, KnownIds
    <3> QED BY <3>2, <3>3
  <2> QED BY <2>1, <2>4, <2>5, <2>6 DEF GroupInv
<1>3. ASSUME NEW c \in Callers, Spawn(c) PROVE GroupInv'
  <2>1. /\ procs' = procs /\ groups' = groups /\ waiter' = waiter
        /\ \A p \in procs : req'[p] = req[p]
    BY <1>3, KnownIds DEF Spawn
  <2>2. \A h : Members(h)' = Members(h)
    BY <2>1 DEF Members
  <2>3. \A h \in DOMAIN groups : groups[h] # {} /\ \A p \in groups[h] : p \in procs /\ req[p].group = h
    BY DEF GroupInv
  <2>4. \A p \in procs : req[p].group # None =>
          (p \in Members(req[p].group) <=> waiter[p] \in {"reap", "leave"})
    BY DEF GroupInv
  <2> HIDE DEF Inv, Types, TypeOK
  <2> QED BY <2>1, <2>2, <2>3, <2>4 DEF GroupInv
<1>4. ASSUME NEW c \in Callers, Register(c) PROVE GroupInv'
  <2> DEFINE p == call[c].proc
             g == req[p].group
  <2>1. /\ p \in Ids /\ p \notin procs /\ procs' = procs \cup {p} /\ req' = req
        /\ waiter' = [waiter EXCEPT ![p] = "reap"]
        /\ groups' = IF g = None THEN groups
                     ELSE [h \in DOMAIN groups \cup {g} |->
                             IF h = g THEN Members(g) \cup {p} ELSE groups[h]]
    BY <1>4, RegistryAssumption DEF Register, CallInv, HoldsAt, Ids
  <2> HIDE DEF p
  <2>2. \A h : h # None => Members(h)' = Members(h) \cup (IF h = g THEN {p} ELSE {})
    BY <2>1 DEF Members
  <2>3. \A h \in DOMAIN groups' : groups'[h] # {}
    BY <2>1 DEF GroupInv, Members
  <2>4. \A h \in DOMAIN groups' : \A q \in groups'[h] : req'[q].group = h
    BY <2>1 DEF GroupInv, Members
  <2>5. \A q \in procs' : req'[q].group # None =>
          (q \in Members(req[q].group)' <=> waiter'[q] \in {"reap", "leave"})
    <3> SUFFICES ASSUME NEW q \in procs', req[q].group # None
                 PROVE  q \in Members(req[q].group)' <=> waiter'[q] \in {"reap", "leave"}
      BY <2>1
    <3>1. CASE q = p
      BY <2>1, <2>2, <3>1
    <3>2. CASE q # p
      <4>1. q \in procs
        BY <2>1, <3>2
      <4>2. q \in Members(req[q].group) <=> waiter[q] \in {"reap", "leave"}
        BY <4>1 DEF GroupInv
      <4> QED BY <2>1, <2>2, <3>2, <4>1, <4>2, KnownIds
    <3> QED BY <3>1, <3>2
  <2> QED BY <2>1, <2>3, <2>4, <2>5 DEF GroupInv
<1> QED BY <1>0, <1>1, <1>2, <1>3, <1>4, RegistryMoves DEF WaitStep

LEMMA LoopInvStep ==
  ASSUME Inv, [Next]_vars
  PROVE  LoopInv'
<1> SUFFICES ASSUME NEW d \in Callers PROVE PartDone(d)'
  BY DEF LoopInv
<1>0. Persists /\ PartDone(d) /\ call[d].found \subseteq Ids
  BY PersistsStep, KnownIds DEF Inv, LoopInv
<1>1. CASE /\ call'[d] = call[d] /\ pc'[d] = pc[d]
           /\ ctx'[d] = ctx[d] \/ ctx'[d] = "cancelled"
  <2> SUFFICES ASSUME pc[d] = "each", ctx[d] = "live"
               PROVE  /\ call[d].op = "kill" => \A p \in call[d].found \ call[d].todo : os'[p] = "gone"
                      /\ call[d].op = "wait" =>
                           /\ \A p \in call[d].found \ call[d].todo : Done(p)'
                           /\ call[d].failed <=>
                                \E p \in call[d].found \ call[d].todo : ended'[p] = "error"
    BY <1>1 DEF PartDone
  <2>1. CASE call[d].op = "kill"
    BY <1>0, <2>1 DEF PartDone, Persists
  <2>2. CASE call[d].op = "wait"
    <3>1. \A p \in call[d].found \ call[d].todo : Done(p) /\ os[p] = "gone"
      BY <1>0, <2>2 DEF PartDone, Inv, ProcInv, Done
    <3> QED BY <1>0, <2>2, <3>1 DEF PartDone, Persists
  <2> QED BY <2>1, <2>2
<1>2. CASE pc'[d] # "each"
  BY <1>2 DEF PartDone
<1>3. ASSUME NEW op \in {"kill", "wait"}, NEW g \in Groups, GroupCall(d, op, g)
      PROVE  PartDone(d)'
  <2>1. call'[d].found = Members(g) /\ call'[d].todo = Members(g) /\ call'[d].failed = FALSE
    BY <1>3 DEF GroupCall, Set, Idle, Inv, Types
  <2> QED BY <2>1 DEF PartDone
<1>4. ASSUME NEW p \in Ids, GroupSignals(d, p) PROVE PartDone(d)'
  <2>1. ctx[d] = "live" => os'[p] = "gone"
    <3>1. p \in procs /\ os[p] # "unborn" /\ os'[p] \in {"unborn", "alive", "gone"}
      <4>1. p \in call[d].todo /\ call[d].todo \subseteq procs
        BY <1>4 DEF GroupSignals, Inv, Types, TypeOK
      <4>2. procs \subseteq 1..next
        BY DEF Inv, Types, TypeOK
      <4>3. os[p] # "unborn"
        <5>1. next \in Nat /\ ProcInv
          BY KnownIds DEF Inv
        <5>3. p \in 1..next
          BY <4>1, <4>2
        <5>2. p <= next /\ p \in Nat
          BY <5>1, <5>3
        <5> QED BY <5>1, <5>2 DEF ProcInv
      <4>4. os' \in [Ids -> {"unborn", "alive", "gone"}]
        BY TypesStep DEF Types, TypeOK
      <4> QED BY <4>1, <4>3, <4>4
    <3>2. ctx[d] = "live" => Signalled(p, "kill")
      BY <1>4 DEF GroupSignals
    <3> QED BY <3>1, <3>2, SignalEnds DEF Inv
  <2>2. call[d].op = "kill"
    BY <1>4 DEF GroupSignals
  <2> QED BY <1>0, <1>4, <2>1, <2>2, LoopMoves DEF Inv, PartDone, Persists
<1>5. ASSUME NEW p \in Ids, GroupWaits(d, p) PROVE PartDone(d)'
  <2> SUFFICES ASSUME ctx[d] = "live"
               PROVE  /\ \A q \in call'[d].found \ call'[d].todo : Done(q)'
                      /\ call'[d].failed <=>
                           \E q \in call'[d].found \ call'[d].todo : ended'[q] = "error"
    BY <1>5, LoopMoves DEF PartDone, Inv, GroupWaits
  <2>1. /\ pc[d] = "each" /\ call[d].op = "wait" /\ ended' = ended /\ waiter' = waiter
        /\ p \in call[d].found
    BY <1>5 DEF GroupWaits, system, Inv, Types, TypeOK
  <2>2. /\ Done(p) /\ (call'[d].failed <=> (call[d].failed \/ ended[p] = "error"))
        /\ call'[d].found \ call'[d].todo = (call[d].found \ call[d].todo) \cup {p}
    BY <1>5, <2>1, LoopMoves DEF Inv
  <2>3. /\ \A q \in call[d].found \ call[d].todo : Done(q)
        /\ call[d].failed <=> \E q \in call[d].found \ call[d].todo : ended[q] = "error"
    BY <1>0, <2>1 DEF PartDone
  <2> QED BY <2>1, <2>2, <2>3 DEF Done
<1>6. ASSUME NEW c \in Callers \ {d}, NEW p \in Ids, GroupSignals(c, p) \/ GroupWaits(c, p)
      PROVE  call'[d] = call[d] /\ pc'[d] = pc[d] /\ ctx'[d] = ctx[d]
  BY <1>6, LoopMoves DEF Inv
<1>7. ASSUME NEW c \in Callers,
             \/ \E r \in Requests : Ensure(c, r)
             \/ \E p \in Ids : Restart(c, p)
             \/ Cancel(c) \/ Spawn(c) \/ StartFails(c) \/ Register(c) \/ GroupReturns(c)
             \/ Return(c) \/ RestartWaits(c) \/ RestartKills(c) \/ RestartWaitsAgain(c)
             \/ c # d /\ \E op \in {"kill", "wait"}, g \in Groups : GroupCall(c, op, g)
      PROVE  \/ pc'[d] # "each"
             \/ /\ call'[d] = call[d] /\ pc'[d] = pc[d]
                /\ ctx'[d] = ctx[d] \/ ctx'[d] = "cancelled"
  <2>1. /\ pc \in [Callers -> {"idle", "spawn", "register", "each", "stopped", "kill", "killed",
                               "answer"}]
        /\ call \in [Callers -> CallRecord]
        /\ ctx \in [Callers -> {"live", "cancelled"}]
    BY DEF Inv, Types, TypeOK
  <2> USE DEF Goto, Set, Answer, Begin
  <2>2. CASE (\E r \in Requests : Ensure(c, r)) \/ (\E p \in Ids : Restart(c, p))
    BY <2>1, <2>2 DEF Ensure, Restart
  <2>3. CASE Cancel(c)
    BY <2>1, <2>3 DEF Cancel
  <2>4. CASE Spawn(c) \/ StartFails(c) \/ Register(c)
    BY <2>1, <2>4 DEF Spawn, StartFails, Register
  <2>5. CASE GroupReturns(c) \/ Return(c)
    BY <2>1, <2>5 DEF GroupReturns, Return
  <2>6. CASE RestartWaits(c) \/ RestartKills(c) \/ RestartWaitsAgain(c)
    BY <2>1, <2>6 DEF RestartWaits, RestartKills, RestartWaitsAgain
  <2>7. CASE c # d /\ \E op \in {"kill", "wait"}, g \in Groups : GroupCall(c, op, g)
    BY <2>1, <2>7 DEF GroupCall
  <2> QED BY <1>7, <2>2, <2>3, <2>4, <2>5, <2>6, <2>7
<1>8. ASSUME NEW p \in Ids, ExitByItself(p) \/ WaitStep(p)
      PROVE  call'[d] = call[d] /\ pc'[d] = pc[d] /\ ctx'[d] = ctx[d]
  BY <1>8 DEF ExitByItself, WaitStep, Reap, RemoveFromGroup, CloseDone
<1>9. CASE UNCHANGED vars
  BY <1>1, <1>9 DEF vars
<1> QED
  BY <1>1, <1>2, <1>3, <1>4, <1>5, <1>6, <1>7, <1>8, <1>9 DEF Next, CallStep


(* A caller is about to start a label only if it was before, or begins to. *)
LEMMA StartsMoves ==
  ASSUME Inv, [Next]_vars, NEW d \in Callers, pc'[d] \in {"spawn", "register"}
  PROVE  \/ pc[d] \in {"spawn", "register"} /\ call'[d].req = call[d].req
         \/ call'[d].req.label \in crossed'
         \/ \E r \in Requests : /\ Ensure(d, r) /\ call'[d].req = r
                                /\ Labelled(r.label) = {}
<1>0. /\ pc \in [Callers -> {"idle", "spawn", "register", "each", "stopped", "kill", "killed",
                             "answer"}]
      /\ call \in [Callers -> CallRecord]
      /\ HoldsAt(d)
      /\ call[d].op = "restart" => call[d].req.label \in crossed
  BY DEF Inv, Types, TypeOK, CallInv, LabelInv
<1> USE DEF Goto, Set, Answer, Begin
<1>1. CASE call'[d] = call[d] /\ pc'[d] = pc[d]
  BY <1>1
<1>2. ASSUME NEW r \in Requests, Ensure(d, r)
      PROVE  Labelled(r.label) = {} /\ call'[d].req = r
  BY <1>0, <1>2 DEF Ensure, Idle
<1>3. ASSUME NEW p \in Ids, Restart(d, p) PROVE call'[d].req.label \in crossed'
  BY <1>0, <1>3 DEF Restart, Idle
<1>4. CASE Spawn(d)
  BY <1>0, <1>4 DEF Spawn, CallRecord
<1>5. CASE RestartWaits(d) \/ RestartWaitsAgain(d)
  <2>1. pc[d] \in {"stopped", "killed"} /\ call' = call /\ crossed' = crossed
    BY <1>0, <1>5 DEF RestartWaits, RestartWaitsAgain
  <2> QED BY <1>0, <2>1 DEF HoldsAt
<1>6. CASE StartFails(d) \/ Register(d) \/ GroupReturns(d) \/ Return(d) \/ RestartKills(d)
  BY <1>0, <1>6 DEF StartFails, Register, GroupReturns, Return, RestartKills
<1>7. ASSUME NEW p \in Ids, GroupSignals(d, p) \/ GroupWaits(d, p) PROVE FALSE
  BY <1>7, LoopMoves DEF Inv
<1>8. ASSUME NEW op \in {"kill", "wait"}, NEW g \in Groups, GroupCall(d, op, g) PROVE FALSE
  BY <1>0, <1>8 DEF GroupCall
<1>9. ASSUME NEW c \in Callers \ {d},
             \/ \E r \in Requests : Ensure(c, r)
             \/ \E op \in {"kill", "wait"}, g \in Groups : GroupCall(c, op, g)
             \/ \E p \in Ids : Restart(c, p)
             \/ Spawn(c) \/ StartFails(c) \/ Register(c)
      PROVE  call'[d] = call[d] /\ pc'[d] = pc[d]
  BY <1>0, <1>9 DEF Ensure, GroupCall, Restart, Spawn, StartFails, Register
<1>10. ASSUME NEW c \in Callers \ {d},
              GroupReturns(c) \/ Return(c) \/ RestartWaits(c) \/ RestartKills(c) \/ RestartWaitsAgain(c)
       PROVE  call'[d] = call[d] /\ pc'[d] = pc[d]
  BY <1>0, <1>10 DEF GroupReturns, Return, RestartWaits, RestartKills, RestartWaitsAgain
<1>11. ASSUME NEW c \in Callers \ {d}, NEW p \in Ids, GroupSignals(c, p) \/ GroupWaits(c, p)
       PROVE  call'[d] = call[d] /\ pc'[d] = pc[d]
  BY <1>11, LoopMoves DEF Inv
<1>12. ASSUME NEW c \in Callers, Cancel(c) PROVE call'[d] = call[d] /\ pc'[d] = pc[d]
  BY <1>12 DEF Cancel
<1>13. ASSUME NEW p \in Ids, ExitByItself(p) \/ WaitStep(p)
       PROVE  call'[d] = call[d] /\ pc'[d] = pc[d]
  BY <1>13 DEF ExitByItself, WaitStep, Reap, RemoveFromGroup, CloseDone
<1>14. CASE UNCHANGED vars
  BY <1>1, <1>14 DEF vars
<1> QED
  BY <1>1, <1>2, <1>3, <1>4, <1>5, <1>6, <1>7, <1>8, <1>9, <1>10, <1>11, <1>12, <1>13, <1>14
     DEF Next, CallStep


(* Whoever restarts a process has crossed its label. *)
LEMMA RestartsCross ==
  ASSUME Inv, [Next]_vars, NEW d \in Callers, call'[d].op = "restart"
  PROVE  call'[d].req.label \in crossed'
<1>0. /\ call \in [Callers -> CallRecord] /\ call[d] \in CallRecord
      /\ call[d].op = "restart" => call[d].req.label \in crossed
      /\ crossed \subseteq crossed'
  BY PersistsStep DEF Inv, Types, LabelInv, Persists
<1> USE DEF Goto, Set, Answer, Begin
<1>1. ASSUME call'[d].op = call[d].op, call'[d].req = call[d].req
      PROVE  call'[d].req.label \in crossed'
  BY <1>0, <1>1
<1>2. ASSUME NEW c \in Callers, NEW r \in Requests, Ensure(c, r)
      PROVE  call'[d] = call[d] \/ call'[d].op = "ensure"
  <2>1. \/ call' = [call EXCEPT ![c] = [Idle EXCEPT !.op = "ensure", !.req = r]]
        \/ \E p : call' = [call EXCEPT ![c] =
                             [Idle EXCEPT !.op = "ensure", !.req = r, !.proc = p, !.found = {p}]]
    BY <1>2 DEF Ensure
  <2> QED BY <1>0, <2>1 DEF Idle
<1>3. ASSUME NEW c \in Callers, NEW op \in {"kill", "wait"}, NEW g \in Groups, GroupCall(c, op, g)
      PROVE  call'[d] = call[d] \/ call'[d].op = op
  BY <1>0, <1>3 DEF GroupCall, Idle
<1>4. ASSUME NEW c \in Callers, NEW p \in Ids, Restart(c, p)
      PROVE  call'[d] = call[d] \/ call'[d].req.label \in crossed'
  BY <1>0, <1>4 DEF Restart, Idle
<1>5. ASSUME NEW c \in Callers, Spawn(c) \/ StartFails(c) \/ RestartWaitsAgain(c)
      PROVE  call'[d].op = call[d].op /\ call'[d].req = call[d].req
  <2>1. CASE Spawn(c)
    <3>1. call' = [call EXCEPT ![c] = [call[c] EXCEPT !.proc = next + 1]]
      BY <2>1 DEF Spawn
    <3>2. call[c] \in CallRecord
      BY <1>0
    <3>3. call'[c].op = call[c].op /\ call'[c].req = call[c].req
      BY <1>0, <3>1, <3>2 DEF CallRecord
    <3> QED BY <1>0, <3>1, <3>3
  <2>2. CASE StartFails(c)
    <3>1. call' = [call EXCEPT ![c] = [call[c] EXCEPT !.proc = Nobody, !.failed = TRUE]]
      BY <2>2 DEF StartFails
    <3>2. call[c] \in CallRecord
      BY <1>0
    <3>3. call'[c].op = call[c].op /\ call'[c].req = call[c].req
      BY <1>0, <3>1, <3>2 DEF CallRecord
    <3> QED BY <1>0, <3>1, <3>3
  <2>3. CASE RestartWaitsAgain(c)
    <3>1. call' = call \/ call' = [call EXCEPT ![c] = [call[c] EXCEPT !.failed = TRUE]]
      BY <2>3 DEF RestartWaitsAgain
    <3>2. call[c] \in CallRecord
      BY <1>0
    <3>3. call'[c].op = call[c].op /\ call'[c].req = call[c].req
      BY <1>0, <3>1, <3>2 DEF CallRecord
    <3> QED BY <1>0, <3>1, <3>3
  <2> QED BY <1>5, <2>1, <2>2, <2>3
<1>6. ASSUME NEW c \in Callers, Register(c) \/ GroupReturns(c) \/ RestartWaits(c) \/ RestartKills(c) \/ Cancel(c)
      PROVE  call'[d] = call[d]
  BY <1>0, <1>6 DEF Register, GroupReturns, RestartWaits, RestartKills, Cancel
<1>7. ASSUME NEW c \in Callers, Return(c)
      PROVE  call'[d] = call[d] \/ call'[d].op = "none"
  BY <1>0, <1>7 DEF Return, Idle
<1>8. ASSUME NEW c \in Callers, NEW p \in Ids, GroupSignals(c, p) \/ GroupWaits(c, p)
      PROVE  call'[d].op = call[d].op /\ call'[d].req = call[d].req
  BY <1>8, LoopMoves DEF Inv
<1>9. ASSUME NEW p \in Ids, ExitByItself(p) \/ WaitStep(p) PROVE call'[d] = call[d]
  BY <1>9 DEF ExitByItself, WaitStep, Reap, RemoveFromGroup, CloseDone
<1>10. CASE UNCHANGED vars
  BY <1>1, <1>10 DEF vars
<1> QED
  BY <1>1, <1>2, <1>3, <1>4, <1>5, <1>6, <1>7, <1>8, <1>9, <1>10 DEF Next, CallStep

(* A process comes to run under a label when it is registered, no earlier. *)
LEMMA LabelledMoves ==
  ASSUME Inv, [Next]_vars, NEW label, NEW p \in Labelled(label)', p \notin Labelled(label)
  PROVE  \E c \in Callers : /\ pc[c] = "register" /\ p = call[c].proc /\ call[c].req.label = label
                            /\ pc'[c] = "answer"
<1>1. /\ p \in procs' /\ label # None /\ req'[p].label = label /\ waiter'[p] \in {"off", "reap"}
  BY DEF Labelled, Running
<1>2. p \in procs => p \in 1..next /\ req'[p] = req[p] /\ p \in Ids
  BY PersistsStep, KnownIds DEF Persists, Inv, Types, TypeOK
<1>3. p \in procs => waiter[p] \in {"off", "reap"}
  BY <1>1, PersistsStep DEF Persists, Running
<1>4. p \notin procs
  BY <1>1, <1>2, <1>3 DEF Labelled, Running
<1>5. PICK c \in Callers : Register(c)
  BY <1>1, <1>4, RegistryMoves
     DEF registry, WaitStep, Reap, RemoveFromGroup, CloseDone, Spawn
<1>6. p = call[c].proc /\ pc[c] = "register" /\ req' = req /\ pc'[c] = "answer"
  BY <1>1, <1>4, <1>5 DEF Register, Answer, Goto, Inv, Types, TypeOK
<1>7. call[c].req = req[p]
  BY <1>6 DEF Inv, CallInv, HoldsAt
<1> QED BY <1>1, <1>6, <1>7

(* Whoever is about to start a label that nobody crossed was so before, or *)
(* begins to when nobody else is and nothing runs under it.                *)
LEMMA LabelInvStep ==
  ASSUME Inv, [Next]_vars
  PROVE  LabelInv'
<1>0. Persists /\ Types /\ CallInv /\ LabelInv
  BY PersistsStep DEF Inv
<1>1. \A c \in Callers : call'[c].op = "restart" => call'[c].req.label \in crossed'
  BY RestartsCross
<1>2. ASSUME NEW label \in Labels \ ({None} \cup crossed')
      PROVE  /\ \A c, d \in Callers : Starts(c, label)' /\ Starts(d, label)' => c = d
             /\ \A c \in Callers : Starts(c, label)' => Labelled(label)' = {}
             /\ \A p, q \in Labelled(label)' : p = q
  <2>1. label \notin crossed
    BY <1>0, <1>2 DEF Persists
  <2>2. /\ \A c, d \in Callers : Starts(c, label) /\ Starts(d, label) => c = d
        /\ \A c \in Callers : Starts(c, label) => Labelled(label) = {}
        /\ \A p, q \in Labelled(label) : p = q
    BY <1>0, <1>2, <2>1 DEF LabelInv
  (* A caller that begins to start the label is alone. *)
  <2>3. ASSUME NEW d \in Callers, NEW r \in Requests, Ensure(d, r), r.label = label,
               Starts(d, label)', NEW c \in Callers \ {d}
        PROVE  ~Starts(c, label) /\ ~Starts(c, label)'
    <3>1. ~Starts(c, label)
      BY <1>2, <2>3 DEF Ensure, Starting, Starts
    <3>2. pc'[c] = pc[c] /\ call'[c] = call[c]
      BY <1>0, <2>3 DEF Ensure, Begin, Answer, Goto, Set, Types, TypeOK
    <3> QED BY <3>1, <3>2 DEF Starts
  <2>4. ASSUME NEW d \in Callers, Starts(d, label)'
        PROVE  \/ Starts(d, label)
               \/ \E r \in Requests : Ensure(d, r) /\ r.label = label /\ Labelled(label) = {}
    BY <1>2, <2>4, StartsMoves DEF Starts
  <2>5. ASSUME NEW c \in Callers, NEW d \in Callers, Starts(c, label)', Starts(d, label)'
        PROVE  c = d
    BY <2>2, <2>3, <2>4, <2>5
  <2>6. ASSUME NEW p \in Labelled(label)', p \notin Labelled(label)
        PROVE  \E c \in Callers : /\ Starts(c, label) /\ pc[c] = "register" /\ pc'[c] = "answer"
                                  /\ p = call[c].proc
    BY <2>6, LabelledMoves DEF Inv, Starts
  <2>7. ASSUME NEW d \in Callers, Starts(d, label)', NEW p \in Labelled(label)'
        PROVE  FALSE
    <3>1. Labelled(label) = {}
      BY <2>2, <2>4, <2>7
    <3>2. PICK c \in Callers : Starts(c, label) /\ pc[c] = "register" /\ pc'[c] = "answer"
      BY <2>6, <2>7, <3>1
    <3>3. c # d
      BY <2>7, <3>2 DEF Starts
    <3>4. ~Starts(d, label)
      BY <2>2, <3>2, <3>3
    <3> QED BY <2>3, <2>4, <2>7, <3>2, <3>3, <3>4
  <2>8. ASSUME NEW p \in Labelled(label)', NEW q \in Labelled(label)'
        PROVE  p = q
    <3>1. CASE p \in Labelled(label) /\ q \in Labelled(label)
      BY <2>2, <3>1
    <3>2. CASE p \notin Labelled(label)
      <4>1. PICK c \in Callers : Starts(c, label) /\ p = call[c].proc
        BY <2>6, <2>8, <3>2
      <4>2. q \notin Labelled(label)
        BY <2>2, <4>1
      <4>3. PICK d \in Callers : Starts(d, label) /\ q = call[d].proc
        BY <2>6, <2>8, <4>2
      <4> QED BY <2>2, <4>1, <4>3
    <3>3. CASE q \notin Labelled(label)
      <4>1. PICK c \in Callers : Starts(c, label) /\ q = call[c].proc
        BY <2>6, <2>8, <3>3
      <4>2. p \notin Labelled(label)
        BY <2>2, <4>1
      <4> QED BY <3>2, <4>2
    <3> QED BY <3>1, <3>2, <3>3
  <2> QED BY <2>5, <2>7, <2>8
<1> QED BY <1>1, <1>2 DEF LabelInv


(* Of the calls that answer, those on a group come from the loop's end. *)
LEMMA GroupAnswers ==
  ASSUME Inv, [Next]_vars, NEW d \in Callers, pc[d] # "answer", pc'[d] = "answer"
  PROVE  call'[d].op \notin {"kill", "wait"} \/ GroupReturns(d)
<1>0. /\ pc \in [Callers -> {"idle", "spawn", "register", "each", "stopped", "kill", "killed",
                             "answer"}]
      /\ call \in [Callers -> CallRecord] /\ call[d] \in CallRecord
      /\ HoldsAt(d)
  BY DEF Inv, Types, TypeOK, CallInv
<1> USE DEF Goto, Set, Answer, Begin
<1>1. ASSUME NEW r \in Requests, Ensure(d, r) PROVE call'[d].op = "ensure"
  <2>1. PICK p : call' = [call EXCEPT ![d] =
                            [Idle EXCEPT !.op = "ensure", !.req = r, !.proc = p, !.found = {p}]]
    BY <1>0, <1>1 DEF Ensure
  <2> QED BY <1>0, <2>1 DEF Idle
<1>2. CASE StartFails(d)
  BY <1>0, <1>2 DEF StartFails, HoldsAt, CallRecord
<1>3. CASE Register(d)
  BY <1>0, <1>3 DEF Register, HoldsAt
<1>4. CASE RestartWaitsAgain(d)
  BY <1>0, <1>4 DEF RestartWaitsAgain, HoldsAt, CallRecord
<1>5. ASSUME NEW p \in Ids, Restart(d, p) PROVE FALSE
  BY <1>0, <1>5 DEF Restart
<1>6. CASE Spawn(d) \/ Return(d) \/ RestartWaits(d) \/ RestartKills(d)
  BY <1>0, <1>6 DEF Spawn, Return, RestartWaits, RestartKills
<1>7. ASSUME NEW op \in {"kill", "wait"}, NEW g \in Groups, GroupCall(d, op, g) PROVE FALSE
  BY <1>0, <1>7 DEF GroupCall
<1>8. ASSUME NEW c \in Callers \ {d},
             \/ \E r \in Requests : Ensure(c, r)
             \/ \E op \in {"kill", "wait"}, g \in Groups : GroupCall(c, op, g)
             \/ \E p \in Ids : Restart(c, p)
             \/ Spawn(c) \/ StartFails(c) \/ Register(c)
      PROVE  pc'[d] = pc[d]
  BY <1>0, <1>8 DEF Ensure, GroupCall, Restart, Spawn, StartFails, Register
<1>9. ASSUME NEW c \in Callers \ {d},
             GroupReturns(c) \/ Return(c) \/ RestartWaits(c) \/ RestartKills(c) \/ RestartWaitsAgain(c)
      PROVE  pc'[d] = pc[d]
  BY <1>0, <1>9 DEF GroupReturns, Return, RestartWaits, RestartKills, RestartWaitsAgain
<1>10. ASSUME NEW c \in Callers, NEW p \in Ids, GroupSignals(c, p) \/ GroupWaits(c, p)
       PROVE  pc'[d] = pc[d]
  BY <1>10, LoopMoves DEF Inv
<1>11. ASSUME NEW c \in Callers, Cancel(c) PROVE pc'[d] = pc[d]
  BY <1>11 DEF Cancel
<1>12. ASSUME NEW p \in Ids, ExitByItself(p) \/ WaitStep(p) PROVE pc'[d] = pc[d]
  BY <1>12 DEF ExitByItself, WaitStep, Reap, RemoveFromGroup, CloseDone
<1>13. CASE UNCHANGED vars
  BY <1>13 DEF vars
<1> QED
  BY <1>1, <1>2, <1>3, <1>4, <1>5, <1>6, <1>7, <1>8, <1>9, <1>10, <1>11, <1>12, <1>13
     DEF Next, CallStep

-----------------------------------------------------------------------------
LEMMA InvInit == Init => Inv
<1> SUFFICES ASSUME Init PROVE Inv
  OBVIOUS
<1> USE RegistryAssumption DEF Init
<1>1. Types
  <2>1. call \in [Callers -> CallRecord] /\ ctx \in [Callers -> {"live", "cancelled"}]
    BY NewCalls
  <2>2. next \in 0..MaxProcs /\ procs \subseteq 1..next /\ DOMAIN groups = {}
    OBVIOUS
  <2>3. /\ req \in [Ids -> Requests \cup {NoRequest}]
        /\ os \in [Ids -> {"unborn", "alive", "gone"}]
        /\ ended \in [Ids -> Endings \cup {"none", "error"}]
        /\ waiter \in [Ids -> {"off", "reap", "leave", "close", "over"}]
        /\ pc \in [Callers -> {"idle", "spawn", "register", "each", "stopped", "kill", "killed",
                               "answer"}]
    OBVIOUS
  <2>4. \A c \in Callers : call[c].todo \subseteq call[c].found /\ call[c].found \subseteq procs
    BY NewCalls
  <2> QED BY <2>1, <2>2, <2>3, <2>4 DEF Types, TypeOK
<1>2. ProcInv
  BY DEF ProcInv, Ids
<1>3. CallInv /\ LoopInv
  BY DEF CallInv, HoldsAt, LoopInv, PartDone
<1>4. GroupInv
  BY DEF GroupInv
<1>5. LabelInv
  BY DEF LabelInv, Idle, Starts, Labelled
<1> QED BY <1>1, <1>2, <1>3, <1>4, <1>5 DEF Inv

LEMMA InvAlways == Spec => []Inv
<1>1. Inv /\ [Next]_vars => Inv'
  BY TypesStep, ProcStep, CallInvStep, GroupInvStep, LoopInvStep, LabelInvStep DEF Inv
<1> QED BY <1>1, InvInit, PTL DEF Spec

(* Whoever joins and leaves a group, and in whatever order processes end,  *)
(* p.groups holds exactly the registered members that are still running,   *)
(* and no name without members.                                            *)
THEOREM GroupsStayRight == Spec => []GroupsAgree
<1>1. Inv => GroupsAgree
  BY DEF Inv, Types, GroupInv, GroupsAgree
<1> QED BY <1>1, InvAlways, PTL

(* However many callers ensure a label, one after the other, one process   *)
(* runs under it.                                                          *)
THEOREM EnsureStartsOne == Spec => []EnsureIsUnique
<1>1. Inv => EnsureIsUnique
  <2> SUFFICES ASSUME Inv, NEW label \in Labels \ ({None} \cup crossed)
               PROVE  Cardinality({p \in procs : req[p].label = label /\ os[p] = "alive"}) <= 1
    BY DEF EnsureIsUnique
  <2> DEFINE S == {p \in procs : req[p].label = label /\ os[p] = "alive"}
  <2>1. S \subseteq Labelled(label)
    BY KnownIds DEF Inv, ProcInv, Labelled, Running, Types, TypeOK
  <2>2. \A p, q \in S : p = q
    BY <2>1 DEF Inv, LabelInv
  <2>3. ASSUME S = {} PROVE Cardinality(S) <= 1
    <3> HIDE DEF S
    <3>1. Cardinality(S) = 0
      BY <2>3, FS_EmptySet
    <3> QED BY <3>1
  <2>4. ASSUME NEW p \in S PROVE Cardinality(S) <= 1
    <3>1. S = {p}
      BY <2>2
    <3> HIDE DEF S
    <3> QED BY <3>1, FS_Singleton
  <2> QED BY <2>3, <2>4
<1> QED BY <1>1, InvAlways, PTL

(* A Restart never has two processes running: the one it replaces has      *)
(* ended before its successor is started, whether the wait for it ended    *)
(* with it, with an error, or with the context.                            *)
THEOREM RestartReplaces == Spec => []RestartNeverDoubles
<1>1. Inv => RestartNeverDoubles
  BY DEF Inv, CallInv, HoldsAt, RestartNeverDoubles
<1> QED BY <1>1, InvAlways, PTL

(* A group's Kill and Wait answer for every member they found, although    *)
(* they go through them one by one while members end, leave and join.      *)
THEOREM GroupCallsAnswerForAll == Spec => GroupCallsAreWhole
<1> DEFINE Whole(c) ==
      LET a == call'[c] IN
      (Answers(c) /\ ctx[c] = "live") =>
        /\ a.op = "kill" => \A p \in a.found : os[p] = "gone"
        /\ a.op = "wait" =>
             /\ \A p \in a.found : Done(p)
             /\ a.failed <=> \E p \in a.found : ended[p] = "error"
<1>1. Inv /\ [Next]_vars => \A c \in Callers : Whole(c)
  <2> SUFFICES ASSUME Inv, [Next]_vars, NEW c \in Callers, Answers(c), ctx[c] = "live"
               PROVE  LET a == call'[c] IN
                      /\ a.op = "kill" => \A p \in a.found : os[p] = "gone"
                      /\ a.op = "wait" =>
                           /\ \A p \in a.found : Done(p)
                           /\ a.failed <=> \E p \in a.found : ended[p] = "error"
    OBVIOUS
  <2>1. \/ call'[c].op \notin {"kill", "wait"}
        \/ GroupReturns(c)
    BY GroupAnswers DEF Answers
  <2>2. CASE GroupReturns(c)
    <3>1. pc[c] = "each" /\ call[c].todo = {} /\ call'[c] = call[c] /\ PartDone(c)
      BY <2>2 DEF GroupReturns, Answer, Set, Inv, Types, LoopInv
    <3>2. call[c].found \ call[c].todo = call[c].found
      BY <3>1
    <3> QED BY <3>1, <3>2 DEF PartDone
  <2> QED BY <2>1, <2>2
<1>2. Inv /\ [Next]_vars => [\A c \in Callers : Whole(c)]_vars
  BY <1>1
<1> QED BY <1>2, InvAlways, PTL DEF Spec, GroupCallsAreWhole

=============================================================================
