-------------------------- MODULE MCManagedProcess --------------------------
(* Instances of ManagedProcess for TLC. *)
EXTENDS ManagedProcess, TLC

CONSTANTS leader, child, c1, c2

Family == {leader, child}
CallersSymmetry == Permutations(Callers)

Request(withTimeout, isDetached, inAGroup, isInteractive, withChild, quiet,
        plan) ==
  [timeout |-> withTimeout, detached |-> isDetached, group |-> inAGroup,
   interactive |-> isInteractive, forks |-> withChild, redirects |-> quiet,
   script |-> plan]

(* A program with a child that may redirect its output, and one caller     *)
(* with two calls.                                                         *)
Once(c, op1, op2) == [d \in Callers |-> IF d = c THEN <<op1, op2>> ELSE << >>]
OneCaller ==
  LET ops == {"terminate", "pause", "resume"} IN
  {Request(TRUE, FALSE, TRUE, TRUE, TRUE, {child}, Once(c, ops, ops)) : c \in Callers}

(* A program without one and two callers with one call each, by Start with *)
(* a group and a deadline, and by Run with neither and the output closed   *)
(* by the program itself.                                                  *)
TwoCallers ==
  LET ops == {"terminate", "kill", "pause", "detach", "close_input"}
      each == [c \in Callers |-> <<ops>>] IN
  {Request(TRUE, FALSE, TRUE, TRUE, FALSE, {}, each),
   Request(FALSE, FALSE, FALSE, FALSE, FALSE, {leader}, each)}
OneOrTwoCallers == OneCaller \cup TwoCallers

(* One caller that kills, pauses and waits; or detaches and pauses. *)
Ending ==
  LET ops == {"kill", "pause", "wait"}
      each == [c \in Callers |-> <<ops, ops>>]
      detaching == [c \in Callers |-> <<{"detach"}, {"pause"}>>] IN
  {Request(TRUE, FALSE, TRUE, TRUE, TRUE, {child}, each),
   Request(FALSE, FALSE, FALSE, FALSE, TRUE, {}, each),
   Request(TRUE, FALSE, FALSE, FALSE, FALSE, {}, detaching)}

(* Nobody's context can end this process; it is asked to stop. *)
DetachedStop ==
  {Request(TRUE, TRUE, FALSE, TRUE, FALSE, {}, [c \in Callers |-> <<{"terminate"}>>])}
=============================================================================
