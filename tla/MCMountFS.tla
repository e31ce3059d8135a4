------------------------------- MODULE MCMountFS -------------------------------
(* Instances of MountFS for TLC. *)
EXTENDS MountFS

(* A directory with a file, another beside it, and an entry of the base   *)
(* that has a mount's name.                                                *)
Tree == {<< >>, <<"@w">>, <<"a">>, <<"a", "a">>, <<"a", "b">>, <<"b">>}
Twice == <<"a", "b">>
Order == <<"@w", "@x", "a", "b">>

At == [x \in {"@w", "@x", "@"} |->
         CASE x = "@w" -> "w" [] x = "@x" -> "x" [] x = "@" -> "none"]
Visible ==
  {<<".">>, <<"@w">>, <<"@w", "">>, <<"@w", "a">>, <<"@w", "..", "b">>, <<"@x">>,
   <<"a", "b">>, <<"b">>, <<"..">>}

(* Nothing a step may do depends on the history. *)
View == <<nodes, roots, dir, read>>

R(name, path, access) == [name |-> name, path |-> path, access |-> access]
Tables ==
  { \* a read-write root within the read-only primary root
    <<R("", << >>, ""), R("w", <<"a">>, "read_write")>>,
    \* the other way round
    <<R("", << >>, "read_write"), R("w", <<"a">>, "read_only")>>,
    \* no primary root, two mounts
    <<R("x", <<"b">>, "read_only"), R("w", <<"a">>, "read_write")>>,
    \* the primary root is a part of the base
    <<R("", <<"a">>, "read_write")>>,
    \* refused: a name twice
    <<R("w", <<"a">>, "read_write"), R("w", <<"b">>, "read_only")>> }
=============================================================================
