---------------------------- MODULE MCProcessInput -----------------------------
(* ProcessInput for TLC. *)
EXTENDS ProcessInput

Three == [v |-> 2, w |-> 1]
================================================================================
