----------------------------- MODULE MCEventBus -----------------------------
(* Instances of EventBus for TLC: two emitters of one process, one of      *)
(* another, subscribers by process, by group or of everything.             *)
EXTENDS EventBus, TLC

CONSTANTS p1, p2, stdout, stderr, other, s1, s2, web

Group == [p \in Procs |-> web]
Proc == [e \in Emitters |-> IF e = other THEN p2 ELSE p1]
OneOrAll == {[ids |-> {p1}, groups |-> {}], [ids |-> {}, groups |-> {web}]}
=============================================================================
