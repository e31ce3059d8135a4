----------------------------- MODULE MCFileReads -------------------------------
(* Instances of FileReads, and of the walks below it, for TLC. *)
EXTENDS FileReads

(* A directory with a directory in it, and beside that a hidden entry.     *)
Tree == {<< >>, <<"a">>, <<"a", "a">>, <<"a", ".b">>, <<"a", "a", "c">>}
Twice == <<"a", ".b">>

(* One line, and two of which the last is not ended. *)
Texts == {<<"t", "end">>, <<"end", "t", "t">>}

All == [kind |-> "walk", root |-> << >>, depth |-> 0, hidden |-> TRUE, limit |-> 0,
        filesOnly |-> FALSE, skip |-> {}, filter |-> << >>]
Pattern(before, braces, after) == [before |-> before, braces |-> braces, after |-> after]
Find(pattern) == [kind |-> "glob", root |-> << >>, skip |-> {}, scan |-> 0, limit |-> 0,
                  pattern |-> pattern]

View == <<nodes, walk, ctx, stable, seen, changes, reading>>

Asked ==
  { [All EXCEPT !.hidden = FALSE],
    [All EXCEPT !.limit = 2],
    [All EXCEPT !.depth = 2, !.filesOnly = TRUE],
    [All EXCEPT !.skip = {"a"}, !.root = <<"a", ".">>],
    [All EXCEPT !.filter = <<"a", "*">>],
    Find(Pattern(<<"**", "a">>, << >>, <<"**">>)),
    Find(Pattern(<<"a">>, <<<<".b">>, <<"..">>, <<"a", "c">>>>, << >>)),
    [All EXCEPT !.root = <<"", "a">>],
    Find(Pattern(<<"a">>, << >>, <<"..", "a">>)),
    [Find(Pattern(<<"**">>, << >>, <<"*">>)) EXCEPT !.limit = 1, !.root = <<"x", "..", "a">>] }

Read ==
  [kind : {"limit"}, name : {<<"a">>}, max : {0, 1, 2, MaxInt}]
  \cup [kind : {"lines"}, name : {<<"a">>}, start : 0..3, end : 0..2, max : 0..3]
=============================================================================
