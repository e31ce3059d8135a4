---------------------------- MODULE MemFileSystem ----------------------------
(***************************************************************************)
(* memsystem.FileSystem: a filesystem kept as a map from path to node.     *)
(* Every operation holds the mutex from beginning to end, so it is one     *)
(* action; what can go wrong is what a sequence of calls makes of the map. *)
(* A path is the sequence of its names, the root the empty one.  An        *)
(* operation that refuses its arguments is a step too, because it may have *)
(* touched the map before it refused.                                      *)
(***************************************************************************)
EXTENDS Naturals, Sequences, FiniteSets

CONSTANTS
  Paths,      \* bound: the paths that are named, with all their prefixes
  TempNames,  \* sequence: the names one pattern of WriteTempFile yields
  Contents,   \* what files may hold
  Modes,      \* permissions of directories
  Default,    \* the one of them that is used when none is asked for
  Ops,        \* operations that are called
  Avoids      \* what callers keep away from, see MayWrite and below

Root == << >>
Node == [dir : {TRUE}, mode : Modes] \cup [dir : {FALSE}, data : Contents]

ASSUME PathsAssumption ==
  /\ Root \in Paths /\ Paths \subseteq Seq(STRING)
  /\ \A p \in Paths : \A n \in 0..Len(p) : SubSeq(p, 1, n) \in Paths
ASSUME ModesAssumption == Default \in Modes
ASSUME NamesAssumption == TempNames \in Seq(STRING)

VARIABLES
  nodes,  \* f.nodes
  last    \* history: the last call, the paths it may replace, its success

vars == <<nodes, last>>

IsPrefix(p, q) == Len(p) <= Len(q) /\ SubSeq(q, 1, Len(p)) = p
Exists(p) == p \in DOMAIN nodes
IsDir(p) == Exists(p) /\ nodes[p].dir
IsFile(p) == Exists(p) /\ ~nodes[p].dir
Below(p) == {q \in DOMAIN nodes : Len(q) > Len(p) /\ SubSeq(q, 1, Len(p)) = p}

(* prefixes(rel): the root is not among them. *)
Prefixes(p) == {SubSeq(p, 1, n) : n \in 1..Len(p)}
Parents(p) == Prefixes(p) \ {p}
Parent(p) == SubSeq(p, 1, Len(p) - 1)

NewDir(mode) == [dir |-> TRUE, mode |-> mode]
NewFile(data) == [dir |-> FALSE, data |-> data]

TypeOK ==
  /\ DOMAIN nodes \subseteq Paths
  /\ \A p \in DOMAIN nodes : nodes[p] \in Node
  /\ IsDir(Root)
  /\ last.ok \in BOOLEAN

Init ==
  /\ nodes = [p \in {Root} |-> NewDir(Default)]
  /\ last = [op |-> "new", to |-> {}, ok |-> TRUE]

-----------------------------------------------------------------------------
(* ensureParents walks from the root down and writes a fresh directory     *)
(* over every parent, until it meets one that is a file.                   *)
Refused(p) == \E q \in Parents(p) : IsFile(q)
Refreshed(p) == {q \in Parents(p) : \A r \in Prefixes(q) : ~IsFile(r)}

WithParents(p) ==
  [q \in DOMAIN nodes \cup Refreshed(p) |->
     IF q \in Refreshed(p) THEN NewDir(Default) ELSE nodes[q]]

Put(map, p, node) == [q \in DOMAIN map \cup {p} |-> IF q = p THEN node ELSE map[q]]
Drop(map, p) == [q \in DOMAIN map \ {p} |-> map[q]]

Answer(op, paths, success) == last' = [op |-> op, to |-> paths, ok |-> success]
Refuse(op) == Answer(op, {}, FALSE) /\ UNCHANGED nodes

(* The tail WriteFile and WriteTempFile share.                             *)
Store(op, p, paths, data) ==
  IF Refused(p)
    THEN Answer(op, {}, FALSE) /\ nodes' = WithParents(p)
    ELSE Answer(op, paths, TRUE) /\ nodes' = Put(WithParents(p), p, NewFile(data))

WriteFile(p, data, overwrite) ==
  IF p = Root \/ (Exists(p) /\ ~overwrite)
    THEN Refuse("write")
    ELSE Store("write", p, IF overwrite THEN {p} ELSE {}, data)

(* Faulty variant: names that are taken are not skipped. *)
FreeTempName_First(dir) == TempNames[1]

(* The first name of the pattern that is free; TempNames is long enough.   *)
FreeTempName(dir) ==
  LET free(i) == ~Exists(Append(dir, TempNames[i]))
      i == CHOOSE i \in 1..Len(TempNames) : free(i) /\ \A j \in 1..(i - 1) : ~free(j)
  IN TempNames[i]

WriteTempFile(dir, data) ==
  /\ \A i \in 1..Len(TempNames) : Append(dir, TempNames[i]) \in Paths
  /\ \E i \in 1..Len(TempNames) : ~Exists(Append(dir, TempNames[i]))
  /\ IF IsFile(dir)
       THEN Refuse("temp")
       ELSE Store("temp", Append(dir, FreeTempName(dir)), {}, data)

(* Every prefix becomes a fresh directory, whatever it was before. *)
MkdirAll(p, mode) ==
  /\ nodes' = [q \in DOMAIN nodes \cup Prefixes(p) |->
                 IF q \in Prefixes(p) THEN NewDir(mode) ELSE nodes[q]]
  /\ Answer("mkdir", {}, TRUE)

(* Faulty variant: a full directory can be removed. *)
Remove_Full(p) ==
  IF p = Root \/ ~Exists(p)
    THEN Refuse("remove")
    ELSE nodes' = Drop(nodes, p) /\ Answer("remove", {p}, TRUE)

Remove(p) ==
  IF p = Root \/ ~Exists(p) \/ Below(p) # {}
    THEN Refuse("remove")
    ELSE nodes' = Drop(nodes, p) /\ Answer("remove", {p}, TRUE)

(* The node is entered under its new name and taken out under the old one; *)
(* what lies below it stays where it is.                                   *)
Rename(from, to, overwrite) ==
  IF ~Exists(from) \/ (Exists(to) /\ ~overwrite)
    THEN Refuse("rename")
    ELSE IF Refused(to)
      THEN nodes' = WithParents(to) /\ Answer("rename", {}, FALSE)
      ELSE /\ nodes' = Drop(Put(WithParents(to), to, nodes[from]), from)
           /\ Answer("rename", {from} \cup (IF overwrite THEN {to} ELSE {}), TRUE)

(* ReadDir(p): the first name of every path below p. *)
Listing(p) == {q[Len(p) + 1] : q \in Below(p)}

-----------------------------------------------------------------------------
(* What callers keep away from: writing a file or renaming an entry over a *)
(* directory, renaming a directory, the root, or an entry to its own name, *)
(* and making directories where there is a file.                           *)
MayWrite(p) == "write_directory" \in Avoids => ~IsDir(p)
MayMkdir(p) == "mkdir_file" \in Avoids => \A q \in Prefixes(p) : ~IsFile(q)
MayRename(from, to) ==
  /\ "rename_directory" \in Avoids => ~IsDir(from) /\ ~IsDir(to)
  /\ "root" \in Avoids => Root \notin {from, to}
  /\ "same_name" \in Avoids => from # to

Next ==
  \/ /\ "write" \in Ops
     /\ \E p \in Paths, data \in Contents, overwrite \in BOOLEAN :
          MayWrite(p) /\ WriteFile(p, data, overwrite)
  \/ /\ "temp" \in Ops
     /\ \E dir \in Paths, data \in Contents : WriteTempFile(dir, data)
  \/ /\ "mkdir" \in Ops
     /\ \E p \in Paths, mode \in Modes : MayMkdir(p) /\ MkdirAll(p, mode)
  \/ /\ "remove" \in Ops
     /\ \E p \in Paths : Remove(p)
  \/ /\ "rename" \in Ops
     /\ \E from, to \in Paths, overwrite \in BOOLEAN :
          MayRename(from, to) /\ Rename(from, to, overwrite)

Spec == Init /\ [][Next]_vars

-----------------------------------------------------------------------------
(* Stat and ReadDir agree: what can be looked up by its path is found by   *)
(* listing directories from the root down, and the other way round, after  *)
(* any sequence of calls, and the root is always there.                    *)
ListingAgrees ==
  /\ TypeOK
  /\ \A p \in DOMAIN nodes \ {Root} :
       /\ IsDir(Parent(p)) /\ p[Len(p)] \in Listing(Parent(p))
       /\ IsDir(p) => \A name \in Listing(p) : Exists(Append(p, name))

(* A call that meets the file f among the parents of its path has reset    *)
(* the directories on the way to it, which it does not undo.               *)
ParentsReset(map, f) ==
  /\ IsFile(f)
  /\ DOMAIN map = DOMAIN nodes
  /\ \A p \in DOMAIN nodes : map[p] # nodes[p] => p \in Parents(f) /\ map[p] = NewDir(Default)

(* A file is kept as it is by every call that was not given leave to       *)
(* replace it: WriteFile without Overwrite, WriteTempFile and MkdirAll     *)
(* never, Rename only under the names it was given.  A call that fails     *)
(* adds and removes nothing and leaves every entry what it was, except for *)
(* the permissions (and the times, which are not modelled) of directories  *)
(* on the way to a file it stumbled over.                                  *)
FilesAreKept ==
  [][ /\ \A p \in DOMAIN nodes :
           (IsFile(p) /\ p \notin last'.to) =>
             p \in DOMAIN nodes' /\ nodes'[p] = nodes[p]
      /\ ~last'.ok => nodes' = nodes \/ \E f \in DOMAIN nodes : ParentsReset(nodes', f) ]_vars

=============================================================================
