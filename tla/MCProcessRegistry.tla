-------------------------- MODULE MCProcessRegistry --------------------------
(* Instances of ProcessRegistry for TLC. *)
EXTENDS ProcessRegistry

CONSTANTS c1, c2, web, pool

(* One labelled member of a group, one other member without a label. *)
Pool == {[label |-> web, group |-> pool], [label |-> None, group |-> pool]}
OneLabel == {[label |-> web, group |-> pool]}
=============================================================================
