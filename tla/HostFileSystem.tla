---------------------------- MODULE HostFileSystem -----------------------------
(***************************************************************************)
(* hostsystem.FileSystem, CopyRegularFile and HostScratchDir.WriteFile: a  *)
(* call is a sequence of system calls, and other callers' system calls     *)
(* come between them.  Every action is one system call, or one that        *)
(* decides something with the calls that only look before it.              *)
(*                                                                         *)
(* The host is a tree of names over inodes; a file that is open keeps its  *)
(* inode when it is renamed, removed or replaced.  There are no links: a   *)
(* name and the path it resolves to are the same.  CreateTemp's random     *)
(* names are taken by nobody else.                                         *)
(***************************************************************************)
EXTENDS Naturals, Sequences, FiniteSets

CONSTANTS
  Paths,      \* bound: the paths that are named, with all their prefixes
  TempNames,  \* bound: the names CreateTemp picks from
  Contents,   \* what is written: sequences of blocks
  Callers,    \* goroutines and other programs
  Calls,      \* the calls they make: see CallSet
  MaxCalls,   \* bound: calls of all callers
  MaxInodes   \* bound: files that are ever made

Root == << >>
Directory == 0
Inodes == 1..MaxInodes
Unknown == <<"unknown">>

(* to is what is written, from what is renamed or copied. *)
CallSet ==
  [op : {"write", "temp", "scratch"}, from : {Root}, to : Paths, overwrite : BOOLEAN,
   data : Contents]
  \cup [op : {"rename", "copy"}, from : Paths, to : Paths \ {Root}, overwrite : BOOLEAN,
        data : {<< >>}]
  \cup [op : {"remove", "mkdir"}, from : {Root}, to : Paths, overwrite : {FALSE},
        data : {<< >>}]

ASSUME HostAssumption ==
  /\ Root \in Paths /\ Paths \subseteq Seq(STRING)
  /\ \A p \in Paths : \A n \in 0..Len(p) : SubSeq(p, 1, n) \in Paths
  /\ Calls \subseteq CallSet
  /\ MaxCalls \in Nat /\ MaxInodes \in Nat
  /\ Contents \subseteq Seq(STRING) /\ Unknown \notin Contents

VARIABLES
  tree,     \* every name that is taken: Directory or an inode
  content,  \* each inode's blocks
  pc,       \* each caller
  call,     \* what it is doing: call, inode it writes, inode it reads, success
  calls,    \* how many calls have been made
  maker,    \* history: the caller and number of the call that made each inode
  moved,    \* history: inodes that were renamed
  shared,   \* history: inodes that two calls had open for writing at once
  expected, \* history: what each inode should hold, or Unknown
  late      \* history: what came under each call's destination while it ran

host == <<tree, content>>
history == <<maker, moved, shared, expected>>
vars == <<host, pc, call, calls, history, late>>

NoCall == [op |-> "none", from |-> Root, to |-> Root, overwrite |-> FALSE, data |-> << >>]
Idle == [do |-> NoCall, number |-> 0, name |-> Root, out |-> 0, in |-> 0, ok |-> FALSE]

Parent(p) == SubSeq(p, 1, Len(p) - 1)
Prefixes(p) == {SubSeq(p, 1, n) : n \in 1..Len(p)}
IsPrefix(p, q) == Len(p) <= Len(q) /\ SubSeq(q, 1, Len(p)) = p
Present(p) == p \in DOMAIN tree
IsDir(p) == Present(p) /\ tree[p] = Directory
IsFile(p) == Present(p) /\ tree[p] # Directory
Linked(i) == \E p \in DOMAIN tree : tree[p] = i
Writers(i) == {c \in Callers : pc[c] = "write" /\ call[c].out = i}
Fresh == {i \in Inodes : maker[i] = << >>}

(* The names form a tree, and no two of them share an inode.               *)
HostTypeOK ==
  /\ DOMAIN tree \subseteq Paths
  /\ IsDir(Root) /\ \A p \in DOMAIN tree \ {Root} : IsDir(Parent(p))
  /\ \A p, q \in DOMAIN tree : tree[p] = tree[q] /\ tree[p] # Directory => p = q
  /\ \A p \in DOMAIN tree : tree[p] # Directory => maker[tree[p]] # << >>
  /\ pc \in [Callers -> {"idle", "look", "parents", "open", "source", "write", "undo",
                         "check", "rename", "answer"}]
  /\ calls \in 0..MaxCalls

Init ==
  /\ tree = [p \in {Root} |-> Directory]
  /\ content = [i \in Inodes |-> << >>]
  /\ pc = [c \in Callers |-> "idle"]
  /\ call = [c \in Callers |-> Idle]
  /\ calls = 0
  /\ maker = [i \in Inodes |-> << >>]
  /\ moved = {}
  /\ shared = {}
  /\ expected = [i \in Inodes |-> Unknown]
  /\ late = [c \in Callers |-> {}]

-----------------------------------------------------------------------------
Goto(c, where) == pc' = [pc EXCEPT ![c] = where]
Fails(c) == Goto(c, "answer") /\ UNCHANGED <<host, call, calls, history>>
Succeeds(c) == Goto(c, "answer") /\ call' = [call EXCEPT ![c].ok = TRUE]
Do(c) == call[c].do

(* A call begins with the resolution of its names.  Lstat of a name below  *)
(* a file fails otherwise than with ErrNotExist; what is renamed, copied   *)
(* or removed must be there; a scratch directory wants the parent there    *)
(* (EvalSymlinks), so its own MkdirAll finds nothing left to make.         *)
BelowFile(p) == \E q \in Prefixes(p) \ {p} : IsFile(q)
Resolves(d) ==
  /\ ~BelowFile(d.to)
  /\ d.op \in {"rename", "copy"} => Present(d.from)
  /\ d.op = "copy" => IsFile(d.from)
  /\ d.op = "remove" => Present(d.to)
  /\ d.op = "scratch" => IsDir(Parent(d.to))

Looks(d) == ~d.overwrite /\ d.op \in {"write", "rename", "copy"}

Begin(c, d) ==
  /\ pc[c] = "idle"
  /\ calls < MaxCalls
  /\ d.op \in {"write", "scratch"} => d.to # Root
  /\ calls' = calls + 1
  /\ call' = [call EXCEPT ![c] =
                [Idle EXCEPT !.do = d, !.number = calls + 1, !.name = d.to,
                             !.ok = Resolves(d) /\ d.op = "copy" /\ d.from = d.to]]
  /\ Goto(c, IF ~Resolves(d) \/ (d.op = "copy" /\ d.from = d.to) THEN "answer"
             ELSE IF Looks(d) THEN "look"
             ELSE IF d.op = "rename" THEN "rename"
             ELSE "parents")
  /\ UNCHANGED <<host, history>>

(* os.Lstat of the destination, without Overwrite. *)
Look(c) ==
  /\ pc[c] = "look"
  /\ IF Present(Do(c).to) \/ BelowFile(Do(c).to) THEN Fails(c)
     ELSE /\ Goto(c, IF Do(c).op = "rename" THEN "rename" ELSE "parents")
          /\ UNCHANGED <<host, call, calls, history>>

(* os.MkdirAll: of the parent, or of the directory that was asked for. *)
ToMake(d) == Prefixes(IF d.op \in {"temp", "mkdir"} THEN d.to ELSE Parent(d.to))
Parents(c) ==
  LET dirs == ToMake(Do(c)) IN
  /\ pc[c] = "parents"
  /\ Do(c).op # "remove"
  /\ IF \E q \in dirs : IsFile(q) THEN Fails(c)
     ELSE /\ tree' = [q \in DOMAIN tree \cup dirs |-> IF q \in dirs THEN Directory ELSE tree[q]]
          /\ IF Do(c).op = "mkdir" THEN Succeeds(c)
             ELSE /\ Goto(c, IF Do(c).op = "copy" THEN "source" ELSE "open")
                  /\ UNCHANGED call
          /\ UNCHANGED <<content, calls, history>>

(* CopyRegularFile opens its source; a directory opens too, and fails to   *)
(* be read.                                                                *)
OpenSource(c) ==
  /\ pc[c] = "source"
  /\ IF ~Present(Do(c).from) THEN Fails(c)
     ELSE /\ call' = [call EXCEPT ![c].in = tree[Do(c).from]]
          /\ Goto(c, "open")
          /\ UNCHANGED <<host, calls, history>>

(* os.OpenFile.  A new inode, or the one that is there, made empty. *)
Opened(c, p, i) ==
  /\ tree' = [q \in DOMAIN tree \cup {p} |-> IF q = p THEN i ELSE tree[q]]
  /\ content' = [content EXCEPT ![i] = << >>]
  /\ expected' = [expected EXCEPT ![i] = Unknown]
  /\ shared' = IF Writers(i) = {} THEN shared \ {i} ELSE shared \cup {i}
  /\ maker' = IF maker[i] = << >> THEN [maker EXCEPT ![i] = <<c, call[c].number>>] ELSE maker
  /\ call' = [call EXCEPT ![c].out = i, ![c].name = p]
  /\ Goto(c, "write")
  /\ UNCHANGED <<calls, moved>>

Exclusive(d) == d.op = "temp" \/ (d.op \in {"write", "copy"} /\ ~d.overwrite)

(* Faulty variants: the look before is trusted instead of O_EXCL; what is  *)
(* there is not made empty.                                                *)
Open_Trusting(c) ==
  /\ pc[c] = "open"
  /\ Do(c).op # "temp"
  /\ LET p == Do(c).to IN
     IF ~IsDir(Parent(p)) \/ IsDir(p) THEN Fails(c)
     ELSE IF Present(p) THEN Opened(c, p, tree[p])
     ELSE \E i \in Fresh : Opened(c, p, i)

Open_Untruncated(c) ==
  /\ pc[c] = "open"
  /\ Do(c).op # "temp"
  /\ LET p == Do(c).to IN
     IF ~IsDir(Parent(p)) \/ IsDir(p) \/ (Present(p) /\ Exclusive(Do(c))) THEN Fails(c)
     ELSE IF Present(p)
       THEN /\ call' = [call EXCEPT ![c].out = tree[p]]
            /\ shared' = IF Writers(tree[p]) = {} THEN shared \ {tree[p]} ELSE shared \cup {tree[p]}
            /\ expected' = [expected EXCEPT ![tree[p]] = Unknown]
            /\ Goto(c, "write")
            /\ UNCHANGED <<host, calls, maker, moved>>
     ELSE \E i \in Fresh : Opened(c, p, i)

Open(c) ==
  /\ pc[c] = "open"
  /\ Do(c).op # "temp"
  /\ LET p == Do(c).to IN
     IF ~IsDir(Parent(p)) \/ IsDir(p) \/ (Present(p) /\ Exclusive(Do(c))) THEN Fails(c)
     ELSE IF Present(p) THEN Opened(c, p, tree[p])
     ELSE \E i \in Fresh : i = Cardinality(Inodes \ Fresh) + 1 /\ Opened(c, p, i)

(* os.CreateTemp: the first random name that is free, with O_EXCL. *)
CreateTemp(c) ==
  /\ pc[c] = "open"
  /\ Do(c).op = "temp"
  /\ \/ ~IsDir(Do(c).to) /\ Fails(c)
     \/ /\ IsDir(Do(c).to)
        /\ \E x \in TempNames, i \in Fresh :
             /\ i = Cardinality(Inodes \ Fresh) + 1
             /\ Append(Do(c).to, x) \in Paths \ DOMAIN tree
             /\ Opened(c, Append(Do(c).to, x), i)

(* file.Write from the beginning of the file, and Close; what was there    *)
(* beyond stays.  It may fail half way.                                    *)
Data(c) == IF Do(c).op = "copy" THEN content[call[c].in] ELSE Do(c).data
Stored(i, data) ==
  content' = [content EXCEPT ![i] = data \o SubSeq(@, Len(data) + 1, Len(@))]

Write(c) ==
  LET i == call[c].out
      alone == i \notin shared IN
  /\ pc[c] = "write"
  /\ Do(c).op = "copy" => call[c].in # Directory
  /\ Stored(i, Data(c))
  /\ expected' = [expected EXCEPT ![i] = IF alone THEN Data(c) ELSE Unknown]
  /\ IF Do(c).op = "temp" THEN Goto(c, "check") /\ UNCHANGED call ELSE Succeeds(c)
  /\ UNCHANGED <<tree, calls, maker, moved, shared>>

(* Faulty variant: the temporary file is left when the write fails. *)
WriteFails_Leaves(c) ==
  /\ pc[c] = "write"
  /\ UNCHANGED content
  /\ Goto(c, "answer")
  /\ UNCHANGED <<tree, call, calls, history>>

WriteFails(c) ==
  /\ pc[c] = "write"
  /\ \/ UNCHANGED content
     \/ /\ Do(c).op = "copy" => call[c].in # Directory
        /\ \E n \in 1..(Len(Data(c)) - 1) : Stored(call[c].out, SubSeq(Data(c), 1, n))
  /\ Goto(c, IF Do(c).op = "temp" THEN "undo" ELSE "answer")
  /\ UNCHANGED <<tree, call, calls, history>>

(* WriteTempFile's last steps: Chmod may fail, and EvalSymlinks does if    *)
(* the file has gone; then what has its name is removed.                   *)
Checked(c) ==
  /\ pc[c] = "check"
  /\ Present(call[c].name)
  /\ Succeeds(c)
  /\ UNCHANGED <<host, calls, history>>

CheckFails(c) ==
  /\ pc[c] = "check"
  /\ Goto(c, "undo")
  /\ UNCHANGED <<host, call, calls, history>>

Removable(p) == p # Root /\ Present(p) /\ ~\E q \in DOMAIN tree : q # p /\ IsPrefix(p, q)
Drop(p) == tree' = [q \in DOMAIN tree \ {p} |-> tree[q]]

Undo(c) ==
  /\ pc[c] = "undo"
  /\ IF Removable(call[c].name) THEN Drop(call[c].name) ELSE UNCHANGED tree
  /\ Goto(c, "answer")
  /\ UNCHANGED <<content, call, calls, history>>

(* os.Remove: a file or an empty directory. *)
Remove(c) ==
  /\ pc[c] = "parents"
  /\ Do(c).op = "remove"
  /\ IF ~Removable(Do(c).to) THEN Fails(c)
     ELSE /\ Drop(Do(c).to)
          /\ Succeeds(c)
          /\ UNCHANGED <<content, calls, history>>

(* os.Rename refuses a directory as destination and the move of a          *)
(* directory over a file or into itself; what lies below moves along.      *)
Renames(from, to) ==
  /\ Present(from) /\ from # Root /\ IsDir(Parent(to))
  /\ \/ from = to
     \/ ~IsDir(to) /\ ~(IsDir(from) /\ Present(to)) /\ ~IsPrefix(from, to)
Landing(from, to, q) == to \o SubSeq(q, Len(from) + 1, Len(q))

Rename(c) ==
  LET from == Do(c).from
      to == Do(c).to
      moving == {q \in DOMAIN tree : IsPrefix(from, q)}
      landed == {Landing(from, to, q) : q \in moving} IN
  /\ pc[c] = "rename"
  /\ IF ~Renames(from, to) THEN Fails(c)
     ELSE /\ landed \subseteq Paths
          /\ tree' = [q \in (DOMAIN tree \ moving) \cup landed |->
                        IF q \in landed THEN tree[Landing(to, from, q)] ELSE tree[q]]
          /\ moved' = moved \cup {tree[q] : q \in moving}
          /\ Succeeds(c)
          /\ UNCHANGED <<content, calls, maker, shared, expected>>

Return(c) ==
  /\ pc[c] = "answer"
  /\ Goto(c, "idle")
  /\ call' = [call EXCEPT ![c] = Idle]
  /\ UNCHANGED <<host, calls, history>>

Step ==
  \E c \in Callers :
    \/ \E d \in Calls : Begin(c, d)
    \/ Look(c) \/ Parents(c) \/ OpenSource(c) \/ Open(c) \/ CreateTemp(c)
    \/ Write(c) \/ WriteFails(c) \/ Checked(c) \/ CheckFails(c) \/ Undo(c)
    \/ Remove(c) \/ Rename(c) \/ Return(c)

Came(p) == {tree'[q] : q \in {q \in DOMAIN tree' \cap {p} : ~Present(q) \/ tree[q] # tree'[q]}}
Next ==
  /\ Step
  /\ late' = [c \in Callers |-> IF pc'[c] \in {"idle", "answer"} THEN {}
                                ELSE late[c] \cup Came(Do(c).to)]

Spec == Init /\ [][Next]_vars

-----------------------------------------------------------------------------
(* A file holds exactly what the last successful write gave it, unless two *)
(* calls wrote it at once or a later one failed.                           *)
WritesAreWhole ==
  /\ HostTypeOK
  /\ \A i \in Inodes :
       (expected[i] # Unknown /\ Writers(i) = {}) => content[i] = expected[i]

(* A call without Overwrite writes into no file but the one it made,       *)
(* whoever makes a file of that name between its look and its open.  A     *)
(* file loses its name only to a call that was asked to remove or to       *)
(* replace it, to a Rename without Overwrite if it came under the name     *)
(* while that was under way, and to a WriteTempFile that failed: its own   *)
(* file, or what took its name after somebody had renamed or removed that. *)
FilesStay ==
  [][ \A c \in {c \in Callers : pc'[c] # pc[c]}, i \in Inodes :
        LET d == Do(c) IN
        /\ (content'[i] # content[i] /\ Exclusive(d)) => maker'[i] = <<c, call[c].number>>
        /\ (Linked(i) /\ ~Linked(i)') =>
             \/ d.op = "remove" /\ tree[d.to] = i
             \/ d.op = "rename" /\ tree[d.to] = i /\ (d.overwrite \/ i \in late[c])
             \/ d.op = "temp" /\ (call[c].out = i \/ ~Linked(call[c].out) \/ call[c].out \in moved)
    ]_vars

(* A WriteTempFile that fails leaves its file nowhere, unless somebody has *)
(* renamed it.                                                             *)
FailedTempsVanish ==
  \A c \in Callers :
    (pc[c] = "answer" /\ Do(c).op = "temp" /\ ~call[c].ok /\ call[c].out # 0) =>
      ~Linked(call[c].out) \/ call[c].out \in moved

=============================================================================
