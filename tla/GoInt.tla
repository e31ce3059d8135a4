--------------------------------- MODULE GoInt ---------------------------------
(* The int and int64 of Go: two's complement, a sum that does not fit wraps. *)
EXTENDS Integers

CONSTANT MaxInt  \* the greatest of them

ASSUME MaxIntAssumption == MaxInt \in Nat

Ints == (-MaxInt - 1)..MaxInt

(* The sum of two that are not negative. *)
Plus(a, b) == IF a + b > MaxInt THEN a + b - 2 * (MaxInt + 1) ELSE a + b
=============================================================================
