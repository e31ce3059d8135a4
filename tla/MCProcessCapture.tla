-------------------------- MODULE MCProcessCapture --------------------------
(* Instances of ProcessCapture for TLC: one process, in a private group or *)
(* in one it shares with a neighbour.                                      *)
EXTENDS ProcessCapture, TLC

CONSTANTS neighbour, stdout, stderr, noise, private, shared

PrivateGroup == [p \in Procs |-> IF p = proc THEN private ELSE shared]
SharedGroup == [p \in Procs |-> shared]
Proc == [e \in Emitters |-> IF e = noise THEN neighbour ELSE proc]
OfGroup == {[ids |-> {}, groups |-> {g}] : g \in Groups}
=============================================================================
