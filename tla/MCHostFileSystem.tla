--------------------------- MODULE MCHostFileSystem ----------------------------
(* Instances of HostFileSystem for TLC. *)
EXTENDS HostFileSystem, TLC

CONSTANTS c1, c2

CallersSymmetry == Permutations(Callers)

Tree == {<< >>, <<"a">>, <<"b">>, <<"a", "t">>}

(* Two writes of different lengths, so that one does not cover the other.  *)
Short == <<"s">>
Long == <<"l", "l">>
Blocks == {Short, Long}

D(op, from, to, overwrite, data) ==
  [op |-> op, from |-> from, to |-> to, overwrite |-> overwrite, data |-> data]
Made ==
  { D("write", Root, <<"b">>, FALSE, Long), D("write", Root, <<"b">>, TRUE, Short),
    D("write", Root, <<"a", "t">>, TRUE, Short), D("write", Root, <<"a">>, FALSE, Short),
    D("temp", Root, <<"a">>, FALSE, Long), D("scratch", Root, <<"a", "t">>, FALSE, Short),
    D("rename", <<"b">>, <<"a">>, FALSE, << >>), D("rename", <<"a", "t">>, <<"b">>, TRUE, << >>),
    D("rename", <<"a">>, <<"b">>, FALSE, << >>),
    D("copy", <<"b">>, <<"a">>, FALSE, << >>), D("copy", <<"a", "t">>, <<"b">>, TRUE, << >>),
    D("copy", <<"b">>, <<"b">>, TRUE, << >>),
    D("remove", Root, <<"a">>, FALSE, << >>), D("remove", Root, <<"b">>, FALSE, << >>),
    D("mkdir", Root, <<"a">>, FALSE, << >>) }
=============================================================================
