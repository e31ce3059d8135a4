-------------------------------- MODULE MountFS --------------------------------
(***************************************************************************)
(* mountfs.FileSystem over a memory filesystem: visible names are resolved *)
(* to paths of the base through a table of roots, each read-only or        *)
(* read-write, and the virtual root lists the primary root's entries with  *)
(* the mounts among them.  Others use the base directly (Base()), so its   *)
(* own operations are steps too.                                           *)
(*                                                                         *)
(* A visible name is the sequence of its elements after cleanInput.  Some  *)
(* elements begin with @ and address a root if they come first; ".." and   *)
(* the like are elements fs.ValidPath refuses.                             *)
(***************************************************************************)
EXTENDS MemFileSystem, GoInt

CONSTANTS
  Specs,      \* Spec.Roots, each a sequence of [name, path, access]
  Primary,    \* the empty root name
  RootNamed,  \* function: elements that begin with @ to the names they address
  Collation,  \* sequence: the names of all entries in their order as strings
  Names,      \* bound: visible names that calls are made with
  Pages       \* sizes that a directory is read in; 0 stands for all of it

Dot == "."
Malformed == {"", Dot, ".."}
VirtualRoot == {<< >>, <<Dot>>}

(* Roots as New checks them one by one; @ and a name address one root, and *)
(* @ alone none, the primary one least of all.                             *)
ASSUME RootsAssumption ==
  /\ Specs \subseteq Seq([name : STRING, path : Paths, access : {"", "read_only", "read_write"}])
  /\ \A spec \in Specs : \A i \in DOMAIN spec :
       spec[i].name # Primary => \E x \in DOMAIN RootNamed : RootNamed[x] = spec[i].name
  /\ \A x, y \in DOMAIN RootNamed : RootNamed[x] = RootNamed[y] => x = y
  /\ \A x \in DOMAIN RootNamed : x \in STRING /\ RootNamed[x] # Primary

(* The empty name has no elements; entries of the base have proper names.  *)
ASSUME ElementsAssumption ==
  /\ Names \subseteq Seq(STRING) \ {<<"">>}
  /\ \A i \in DOMAIN TempNames : TempNames[i] \notin Malformed
  /\ \A p \in Paths : \A i \in DOMAIN p : p[i] \notin Malformed

ASSUME CollationAssumption ==
  /\ Collation \in Seq(STRING)
  /\ \A p \in Paths : \A i \in DOMAIN p : \E j \in DOMAIN Collation : Collation[j] = p[i]
  /\ \A spec \in Specs : \A i \in DOMAIN spec : \A x \in DOMAIN RootNamed :
       RootNamed[x] = spec[i].name => \E j \in DOMAIN Collation : Collation[j] = x

ASSUME PagesAssumption == Pages \subseteq 0..MaxInt

VARIABLES
  roots,  \* f.order, and with it f.roots; never changed
  via,    \* history: who made the last call, the names WriteTempFile answered
  dir,    \* an open virtualDirFile: its entries and offset
  read    \* history: what was read from it, whether it said EOF, and the
          \* size of the page that the last read panicked at, or 0

mountVars == <<nodes, last, roots, via, dir, read>>

Closed == [open |-> FALSE, entries |-> << >>, offset |-> 0]
Unread == [entries |-> << >>, eof |-> FALSE, panic |-> 0]

Roots == {roots[i] : i \in DOMAIN roots}

NormalizeRoot(root) ==
  [root EXCEPT !.access = IF @ = "" THEN "read_only" ELSE @]

CanWrite(root) == root.access = "read_write"

(* New refuses two roots of one name. *)
New(spec) ==
  /\ spec # << >>
  /\ \A i, j \in DOMAIN spec : spec[i].name = spec[j].name => i = j
  /\ roots = [i \in DOMAIN spec |-> NormalizeRoot(spec[i])]

MountInit ==
  /\ Init
  /\ \E spec \in Specs : New(spec)
  /\ via = [by |-> "base", made |-> {}]
  /\ dir = Closed
  /\ read = Unread

-----------------------------------------------------------------------------
(* Names.  An operation that may fail yields a set, empty if it does.      *)

CleanRelative(name) ==
  IF name \in {<< >>, <<"">>, <<Dot>>} THEN {<< >>}
  ELSE {n \in {name} : \A i \in DOMAIN n : n[i] \notin Malformed}

VisibleName(root, rel) ==
  IF root.name = Primary THEN rel
  ELSE <<CHOOSE at \in DOMAIN RootNamed : RootNamed[at] = root.name>> \o rel

Resolve(name) ==
  LET at == name # << >> /\ name[1] \in DOMAIN RootNamed
      addressed == IF at THEN RootNamed[name[1]] ELSE Primary
  IN {[root |-> root, rel |-> rel, path |-> root.path \o rel] :
        root \in {r \in Roots : r.name = addressed},
        rel \in CleanRelative(IF at THEN Tail(name) ELSE name)}

(* Faulty variant: the name is left as the base has it. *)
RelativeUnder_Base(rootPath, path) == {path}

RelativeUnder(rootPath, path) ==
  {SubSeq(path, Len(rootPath) + 1, Len(path)) :
     p \in {p \in {path} : IsPrefix(rootPath, p) /\ (p # rootPath \/ rootPath = Root)}}

(* What a call that changes something may go on with. *)
Writable(name) ==
  IF name \in VirtualRoot THEN {} ELSE {r \in Resolve(name) : CanWrite(r.root)}

-----------------------------------------------------------------------------
(* Calls that change the base.                                             *)

Called(made) ==
  /\ via' = [by |-> "mount", made |-> made]
  /\ UNCHANGED <<roots, dir, read>>

MountWriteFile(name, data, overwrite) ==
  /\ Called({})
  /\ \/ Writable(name) = {} /\ Refuse("write")
     \/ \E r \in Writable(name) :
          /\ r.path \in Paths /\ MayWrite(r.path)
          /\ WriteFile(r.path, data, overwrite)

MountWriteTempFile(name, data) ==
  \/ Writable(name) = {} /\ Refuse("temp") /\ Called({})
  \/ \E r \in Writable(name) :
       /\ WriteTempFile(r.path, data)
       /\ Called(IF ~last'.ok THEN {}
                 ELSE {VisibleName(r.root, rel) :
                         rel \in RelativeUnder(r.root.path, Append(r.path, FreeTempName(r.path)))})

MountMkdirAll(name, mode) ==
  /\ Called({})
  /\ \/ name \in VirtualRoot /\ Answer("mkdir", {}, TRUE) /\ UNCHANGED nodes
     \/ name \notin VirtualRoot /\ Writable(name) = {} /\ Refuse("mkdir")
     \/ \E r \in Writable(name) :
          r.path \in Paths /\ MayMkdir(r.path) /\ MkdirAll(r.path, mode)

MountRemove(name) ==
  /\ Called({})
  /\ \/ Writable(name) = {} /\ Refuse("remove")
     \/ \E r \in Writable(name) : Remove(r.path)

(* Faulty variant: only the destination has to be writable. *)
MountRename_Destination(from, to, overwrite) ==
  /\ Called({})
  /\ \/ Writable(to) = {} /\ Refuse("rename")
     \/ \E r \in Resolve(from), s \in Writable(to) :
          /\ s.path \in Paths /\ MayRename(r.path, s.path)
          /\ Rename(r.path, s.path, overwrite)

(* Across roots as well as within one. *)
MountRename(from, to, overwrite) ==
  /\ Called({})
  /\ \/ (Writable(from) = {} \/ Writable(to) = {}) /\ Refuse("rename")
     \/ \E r \in Writable(from), s \in Writable(to) :
          /\ s.path \in Paths /\ MayRename(r.path, s.path)
          /\ Rename(r.path, s.path, overwrite)

-----------------------------------------------------------------------------
(* The virtual root.                                                       *)

BaseEntries(p) == {[name |-> x, dir |-> IsDir(Append(p, x))] : x \in Listing(p)}
PrimaryRoots == {r \in Roots : r.name = Primary}
MountEntries ==
  {[name |-> VisibleName(r, << >>)[1], dir |-> TRUE] : r \in Roots \ PrimaryRoots}

(* base.ReadDir of the primary root fails unless it is a directory. *)
Listable == \A r \in PrimaryRoots : IsDir(r.path)

(* Faulty variant: an entry of the base hides a mount. *)
VirtualRootEntries_Hidden ==
  LET base == UNION {BaseEntries(r.path) : r \in PrimaryRoots}
  IN base \cup {e \in MountEntries : \A f \in base : f.name # e.name}

(* A mount hides an entry of the base that has its name. *)
VirtualRootEntries ==
  LET base == UNION {BaseEntries(r.path) : r \in PrimaryRoots}
  IN MountEntries \cup {e \in base : \A f \in MountEntries : f.name # e.name}

Place(x) == CHOOSE i \in DOMAIN Collation : Collation[i] = x
Sorted(entries) ==
  LET rank(e) == Cardinality({f \in entries : Place(f.name) <= Place(e.name)})
  IN [i \in 1..Cardinality(entries) |-> CHOOSE e \in entries : rank(e) = i]

OpenRoot ==
  /\ ~dir.open
  /\ Listable
  /\ dir' = [open |-> TRUE, entries |-> Sorted(VirtualRootEntries), offset |-> 0]
  /\ read' = Unread
  /\ UNCHANGED <<nodes, last, roots, via>>

(* Where a page of n entries ends, 0 standing for all that is left.        *)
PageEnd(n) ==
  LET sum == Plus(dir.offset, n) IN
  IF n = 0 \/ sum > Len(dir.entries) THEN Len(dir.entries) ELSE sum

PageIsRead(end) ==
  /\ dir' = [dir EXCEPT !.offset = end]
  /\ read' = [read EXCEPT !.entries = @ \o SubSeq(dir.entries, dir.offset + 1, end),
                         !.panic = 0]

(* Faulty variant: a page that is cut short is the end. *)
ReadPage_Short(n) ==
  /\ dir.open
  /\ IF n > Len(dir.entries) - dir.offset
       THEN read' = [read EXCEPT !.eof = TRUE, !.panic = 0] /\ UNCHANGED dir
       ELSE PageIsRead(PageEnd(n))
  /\ UNCHANGED <<nodes, last, roots, via>>

(* virtualDirFile.ReadDir: EOF at the end, except to a reader of it all.   *)
(* The end of a page overflows for the largest ones, and slicing panics.   *)
ReadPage(n) ==
  /\ dir.open
  /\ IF n > 0 /\ dir.offset >= Len(dir.entries)
       THEN read' = [read EXCEPT !.eof = TRUE, !.panic = 0] /\ UNCHANGED dir
     ELSE IF PageEnd(n) < dir.offset
       THEN read' = [read EXCEPT !.panic = n] /\ UNCHANGED dir
     ELSE PageIsRead(PageEnd(n))
  /\ UNCHANGED <<nodes, last, roots, via>>

CloseRoot ==
  /\ dir.open
  /\ dir' = Closed
  /\ read' = Unread
  /\ UNCHANGED <<nodes, last, roots, via>>

-----------------------------------------------------------------------------
BaseStep ==
  /\ Next
  /\ via' = [by |-> "base", made |-> {}]
  /\ UNCHANGED <<roots, dir, read>>

MountStep ==
  \/ \E name \in Names, data \in Contents, overwrite \in BOOLEAN :
       MountWriteFile(name, data, overwrite)
  \/ \E name \in Names, data \in Contents : MountWriteTempFile(name, data)
  \/ \E name \in Names, mode \in Modes : MountMkdirAll(name, mode)
  \/ \E name \in Names : MountRemove(name)
  \/ \E from, to \in Names, overwrite \in BOOLEAN : MountRename(from, to, overwrite)
  \/ OpenRoot \/ CloseRoot
  \/ \E n \in Pages : ReadPage(n)

MountNext == BaseStep \/ MountStep

MountSpec == MountInit /\ [][MountNext]_mountVars

-----------------------------------------------------------------------------
(* The table of roots is the one that was given, with unique names; an open *)
(* directory has its offset within its entries.                            *)
MountTypeOK ==
  /\ \E spec \in Specs : Len(roots) = Len(spec)
  /\ \A r \in Roots : r.path \in Paths /\ r.access \in {"read_only", "read_write"}
  /\ Cardinality({r.name : r \in Roots}) = Len(roots)
  /\ via.by \in {"base", "mount"}
  /\ dir.offset \in 0..Len(dir.entries)
  /\ dir.open \in BOOLEAN /\ read.eof \in BOOLEAN /\ read.panic \in Pages \cup {0}

(* A call through the mounts neither changes nor removes an entry outside  *)
(* the read-write roots, whichever way roots lie within each other, except *)
(* that it makes the directories that lead to such a root and gives those  *)
(* there are other permissions and times, as ensureParents and MkdirAll of *)
(* the base do with every directory above an entry.                        *)
Outside(p) == \A r \in Roots : CanWrite(r) => ~IsPrefix(r.path, p)
Leads(p) == \E r \in Roots : CanWrite(r) /\ IsPrefix(p, r.path)
OutsideIsKept ==
  [][ via'.by = "mount" =>
        \A p \in {p \in DOMAIN nodes \cup DOMAIN nodes' : Outside(p)} :
          /\ p \in DOMAIN nodes =>
               /\ p \in DOMAIN nodes'
               /\ \/ nodes'[p] = nodes[p]
                  \/ nodes[p].dir /\ nodes'[p].dir /\ Leads(p)
          /\ p \notin DOMAIN nodes => nodes'[p].dir /\ Leads(p) ]_mountVars

(* The name WriteTempFile answers is a name for the file it made, in       *)
(* whatever root that lies, and it made a new file.                        *)
TempNamesResolve ==
  [][ (via'.by = "mount" /\ last'.op = "temp" /\ last'.ok /\ via' # via) =>
        \E made \in via'.made : \E r \in Resolve(made) :
          /\ r.path \notin DOMAIN nodes
          /\ r.path \in DOMAIN nodes' /\ ~nodes'[r.path].dir ]_mountVars

(* The virtual root lists every root once and as a directory, and of the   *)
(* primary root exactly what a name reaches, as what it is there.          *)
VirtualRootAgrees ==
  /\ MountTypeOK
  /\ Listable =>
    /\ \A r \in Roots \ PrimaryRoots :
         {e.dir : e \in {e \in VirtualRootEntries : <<e.name>> = VisibleName(r, << >>)}} = {TRUE}
    /\ \A e \in VirtualRootEntries : e.name \notin DOMAIN RootNamed =>
         \E r \in Resolve(<<e.name>>) : Exists(r.path) /\ IsDir(r.path) = e.dir
    /\ \A p \in DOMAIN nodes : \A r \in PrimaryRoots :
         (p # Root /\ Parent(p) = r.path) => \E e \in VirtualRootEntries : e.name = p[Len(p)]

(* Pages of any sizes yield what the root held when it was opened, once    *)
(* and in order, whatever is changed meanwhile, and EOF only after it all. *)
(* A read panics, and reads nothing, only if something has been read and   *)
(* its page would end beyond the greatest int.                             *)
PagingIsWhole ==
  /\ read.entries = SubSeq(dir.entries, 1, dir.offset)
  /\ read.eof => dir.offset = Len(dir.entries)
  /\ read.panic > 0 => dir.offset > 0 /\ dir.offset + read.panic > MaxInt
  /\ \A i, j \in DOMAIN read.entries :
       i < j => Place(read.entries[i].name) < Place(read.entries[j].name)

=============================================================================
