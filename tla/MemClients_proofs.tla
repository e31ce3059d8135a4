-------------------------- MODULE MemClients_proofs --------------------------
(***************************************************************************)
(* Theorems about what stands on the memory filesystem, for callers that   *)
(* keep away from what Careful lists: MountFS, for every table of roots,   *)
(* every set of names and any sequence of calls through the mounts and on  *)
(* the base; TreeWalk and FileReads, for every request and any changes     *)
(* others make meanwhile.                                                  *)
(*                                                                         *)
(* A call through the mounts is a refusal or a call of the base on a path  *)
(* within a read-write root, so the map stays whole as it does without     *)
(* mounts; and what is outside of these roots is touched by no more than   *)
(* the directories that lead to such a path.                               *)
(*                                                                         *)
(* A walk comes to everything that was there all the time, because it      *)
(* waits for it or for a directory above it; and it comes to nothing       *)
(* twice, because no entry it waits for lies above another one, or above   *)
(* or below what it is about to list.                                      *)
(*                                                                         *)
(* A read of lines stands at the beginning of a line, and has taken what   *)
(* of the window lies before that.                                         *)
(*                                                                         *)
(* Sums of ints wrap where those of the code do: for the end of a page and *)
(* for the bound of ReadFileLimit.                                         *)
(***************************************************************************)
EXTENDS MountFS, FileReads, MemFileSystem_proofs, FiniteSetTheorems, FunctionTheorems

RootRecord == [name : STRING, path : Paths, access : {"read_only", "read_write"}]

(* New has checked the table of roots. *)
TableInv ==
  /\ roots \in Seq(RootRecord)
  /\ \A i, j \in DOMAIN roots : roots[i].name = roots[j].name => i = j
  /\ \E spec \in Specs : /\ Len(roots) = Len(spec)
                         /\ \A i \in DOMAIN spec : roots[i].name = spec[i].name

(* The directory that is open and what was read of it. *)
EntryRecord == [name : STRING, dir : BOOLEAN]
Rank(e) == Place(e.name)
PagesInv ==
  /\ dir \in [open : BOOLEAN, entries : Seq(EntryRecord), offset : Nat]
  /\ read \in [entries : Seq(EntryRecord), eof : BOOLEAN, panic : Nat]
  /\ read.panic \in Pages \cup {0}
  /\ read.panic > 0 => dir.offset > 0 /\ dir.offset + read.panic > MaxInt
  /\ dir.offset <= Len(dir.entries)
  /\ read.entries = SubSeq(dir.entries, 1, dir.offset)
  /\ read.eof => dir.offset = Len(dir.entries)
  /\ \A i, j \in 1..Len(dir.entries) : i < j => Rank(dir.entries[i]) < Rank(dir.entries[j])

MountInv ==
  /\ Inv
  /\ IsFiniteSet(DOMAIN nodes)
  /\ TableInv
  /\ PagesInv
  /\ via.by \in {"base", "mount"}

-----------------------------------------------------------------------------
(* Sequences of elements.                                                  *)

LEMMA PrefixOfConcat ==
  ASSUME NEW p \in Seq(STRING), NEW q \in Seq(STRING)
  PROVE  /\ p \o q \in Seq(STRING) /\ IsPrefix(p, p \o q)
         /\ SubSeq(p \o q, Len(p) + 1, Len(p \o q)) = q
         /\ p \o q = p <=> q = << >>
<1> DEFINE pq == p \o q
<1>1. /\ pq \in Seq(STRING) /\ Len(pq) = Len(p) + Len(q)
      /\ Len(p) \in Nat /\ Len(q) \in Nat
      /\ \A i \in 1..(Len(p) + Len(q)) : pq[i] = IF i <= Len(p) THEN p[i] ELSE q[i - Len(p)]
  BY ConcatProperties, LenProperties
<1> HIDE DEF pq
<1>2. SubSeq(pq, 1, Len(p)) = p
  <2>1. /\ SubSeq(pq, 1, Len(p)) \in Seq(STRING) /\ Len(SubSeq(pq, 1, Len(p))) = Len(p)
        /\ \A i \in 1..Len(p) : SubSeq(pq, 1, Len(p))[i] = pq[i]
    BY <1>1, CutIs
  <2>2. \A i \in 1..Len(p) : pq[i] = p[i]
    BY <1>1
  <2> QED BY <1>1, <2>1, <2>2, SeqEqual
<1>3. SubSeq(pq, Len(p) + 1, Len(pq)) = q
  <2> DEFINE m == Len(p) + 1
             n == Len(pq)
             t == SubSeq(pq, m, n)
  <2>1. m \in Int /\ n \in Int /\ n - m + 1 = Len(q)
    BY <1>1
  <2>2. \A i \in m..n : pq[i] \in STRING
    BY <1>1, ElementOfSeq
  <2>3. /\ t \in Seq(STRING) /\ Len(t) = IF m <= n THEN n - m + 1 ELSE 0
        /\ \A i \in 1..(n - m + 1) : t[i] = pq[m + i - 1]
    BY <2>1, <2>2, SubSeqProperties
  <2>4. Len(t) = Len(q)
    BY <1>1, <2>1, <2>3
  <2>5. ASSUME NEW i \in 1..Len(q) PROVE t[i] = q[i]
    <3>1. /\ i \in 1..(n - m + 1) /\ m + i - 1 = Len(p) + i
          /\ Len(p) + i \in 1..(Len(p) + Len(q)) /\ ~(Len(p) + i <= Len(p))
          /\ Len(p) + i - Len(p) = i
      BY <1>1, <2>1
    <3>2. t[i] = pq[Len(p) + i]
      BY <2>3, <3>1
    <3> QED BY <1>1, <3>1, <3>2
  <2> HIDE DEF t
  <2> QED BY <2>3, <2>4, <2>5, SeqEqual DEF t
<1>4. IsPrefix(p, pq)
  BY <1>1, <1>2 DEF IsPrefix
<1> QED BY <1>1, <1>3, <1>4, ConcatEqualIffEmpty DEF pq

LEMMA PrefixOfPath ==
  ASSUME NEW p \in Seq(STRING), NEW q \in Paths, IsPrefix(p, q)
  PROVE  p \in Paths
<1>1. Len(p) \in Nat /\ Len(q) \in Nat /\ Len(p) \in 0..Len(q) /\ SubSeq(q, 1, Len(p)) = p
  BY PathIs, LenProperties DEF IsPrefix
<1> QED BY <1>1, PathIs

LEMMA AppendToPath ==
  ASSUME NEW p \in Seq(STRING), NEW x \in STRING
  PROVE  /\ Append(p, x) \in Seq(STRING) /\ IsPrefix(p, Append(p, x))
         /\ Len(Append(p, x)) = Len(p) + 1 /\ Append(p, x)[Len(p) + 1] = x
         /\ \A i \in 1..Len(p) : Append(p, x)[i] = p[i]
         /\ Append(p, x) = p \o <<x>> /\ <<x>> \in Seq(STRING)
         /\ Append(p, x) # << >>
<1>1. Append(p, x) = p \o <<x>>
  BY AppendIsConcat
<1>2. <<x>> \in Seq(STRING)
  <2>1. Append(<< >>, x) = <<x>> /\ << >> \in Seq(STRING)
    BY EmptySeq
  <2>2. Append(<< >>, x) \in Seq(STRING)
    BY <2>1, AppendProperties
  <2> QED BY <2>1, <2>2
<1>3. IsPrefix(p, p \o <<x>>)
  BY <1>2, PrefixOfConcat
<1>4. /\ Append(p, x) \in Seq(STRING)
      /\ Len(Append(p, x)) = Len(p) + 1 /\ Append(p, x)[Len(p) + 1] = x
      /\ Append(p, x) # << >>
  BY AppendProperties
<1>5. \A i \in 1..Len(p) : Append(p, x)[i] = p[i]
  BY AppendProperties
<1> QED BY <1>1, <1>2, <1>3, <1>4, <1>5

LEMMA AppendToConcat ==
  ASSUME NEW p \in Seq(STRING), NEW q \in Seq(STRING), NEW x \in STRING
  PROVE  /\ Append(p \o q, x) = p \o Append(q, x)
         /\ Append(q, x) \in Seq(STRING) /\ Append(q, x) # << >>
         /\ IsPrefix(p, Append(p \o q, x))
<1>1. /\ <<x>> \in Seq(STRING) /\ Append(q, x) = q \o <<x>>
      /\ Append(q, x) \in Seq(STRING) /\ Append(q, x) # << >>
  BY AppendToPath
<1>2. p \o q \in Seq(STRING)
  BY PrefixOfConcat
<1>3. Append(p \o q, x) = (p \o q) \o <<x>>
  BY <1>2, AppendToPath
<1>4. (p \o q) \o <<x>> = p \o (q \o <<x>>)
  BY <1>1, ConcatAssociative
<1>5. IsPrefix(p, p \o Append(q, x))
  BY <1>1, PrefixOfConcat
<1> QED BY <1>1, <1>3, <1>4, <1>5

-----------------------------------------------------------------------------
(* The table of roots and the names it resolves.                           *)

LEMMA RootsAre ==
  ASSUME TableInv
  PROVE  /\ \A r \in Roots : r \in RootRecord
         /\ \A r, s \in Roots : r.name = s.name => r = s
         /\ \A r \in Roots : r.name # Primary =>
              /\ \E x \in DOMAIN RootNamed : RootNamed[x] = r.name
              /\ \A x \in DOMAIN RootNamed : RootNamed[x] = r.name =>
                   \E j \in DOMAIN Collation : Collation[j] = x
<1>1. /\ roots \in Seq(RootRecord) /\ DOMAIN roots = 1..Len(roots)
      /\ \A i \in DOMAIN roots : roots[i] \in RootRecord
  BY ElementOfSeq, LenProperties DEF TableInv
<1>2. PICK spec \in Specs : Len(roots) = Len(spec) /\ \A i \in DOMAIN spec : roots[i].name = spec[i].name
  BY DEF TableInv
<1>3. DOMAIN spec = DOMAIN roots
  BY <1>1, <1>2, LenProperties, RootsAssumption
<1>4. ASSUME NEW r \in Roots, r.name # Primary
      PROVE  /\ \E x \in DOMAIN RootNamed : RootNamed[x] = r.name
             /\ \A x \in DOMAIN RootNamed : RootNamed[x] = r.name =>
                  \E j \in DOMAIN Collation : Collation[j] = x
  <2>1. PICK i \in DOMAIN roots : r = roots[i]
    BY DEF Roots
  <2>2. r.name = spec[i].name /\ i \in DOMAIN spec
    BY <1>2, <1>3, <2>1
  <2>3. \E x \in DOMAIN RootNamed : RootNamed[x] = spec[i].name
    BY <1>4, <2>2, RootsAssumption
  <2>4. \A x \in DOMAIN RootNamed : RootNamed[x] = spec[i].name =>
          \E j \in DOMAIN Collation : Collation[j] = x
    BY <2>2, CollationAssumption
  <2> QED BY <2>2, <2>3, <2>4
<1>5. ASSUME NEW r \in Roots, NEW s \in Roots, r.name = s.name PROVE r = s
  BY <1>5 DEF Roots, TableInv
<1>6. \A r \in Roots : r \in RootRecord
  BY <1>1 DEF Roots
<1> QED BY <1>4, <1>5, <1>6

Proper(rel) == \A i \in DOMAIN rel : rel[i] \notin Malformed

LEMMA CleanRelativeIs ==
  ASSUME NEW name \in Seq(STRING), NEW rel \in CleanRelative(name)
  PROVE  rel \in Seq(STRING) /\ Proper(rel) /\ (rel = << >> \/ rel = name)
<1>1. << >> \in Seq(STRING) /\ Proper(<< >>)
  BY EmptySeq DEF Proper
<1>2. rel = << >> \/ (rel = name /\ Proper(name))
  BY DEF CleanRelative, Proper
<1> QED BY <1>1, <1>2

LEMMA CleanIsItself ==
  ASSUME NEW name \in Seq(STRING), name # << >>, Proper(name)
  PROVE  CleanRelative(name) = {name}
<1>1. name # <<"">> /\ name # <<Dot>>
  <2>1. ASSUME NEW x \in Malformed, name = <<x>> PROVE FALSE
    <3>1. 1 \in DOMAIN name /\ name[1] = x
      BY <2>1
    <3> QED BY <3>1 DEF Proper
  <2> QED BY <2>1 DEF Malformed
<1> QED BY <1>1 DEF CleanRelative, Proper

(* What a writable name resolves to. *)
LEMMA WritableIs ==
  ASSUME TableInv, NEW name \in Names, NEW r \in Writable(name)
  PROVE  /\ r.root \in Roots /\ CanWrite(r.root) /\ r.root.path \in Paths
         /\ r.rel \in Seq(STRING) /\ Proper(r.rel)
         /\ r.path = r.root.path \o r.rel /\ r.path \in Seq(STRING)
         /\ IsPrefix(r.root.path, r.path)
         /\ r.root.name = Primary => r.rel # << >> /\ r.rel[1] \notin DOMAIN RootNamed
<1> DEFINE at == name # << >> /\ name[1] \in DOMAIN RootNamed
           addressed == IF at THEN RootNamed[name[1]] ELSE Primary
           written == IF at THEN Tail(name) ELSE name
<1>1. name \in Seq(STRING) /\ name # <<"">> /\ name \notin VirtualRoot
  BY ElementsAssumption DEF Writable
<1>2. /\ r \in Resolve(name) /\ CanWrite(r.root)
  BY DEF Writable
<1>3. PICK root \in {x \in Roots : x.name = addressed}, rel \in CleanRelative(written) :
        r = [root |-> root, rel |-> rel, path |-> root.path \o rel]
  BY <1>2 DEF Resolve
<1>4. r.root = root /\ r.rel = rel /\ r.path = root.path \o rel /\ root \in Roots /\ root.name = addressed
  BY <1>3
<1>5. root.path \in Paths /\ root.path \in Seq(STRING)
  BY <1>4, RootsAre, PathIs DEF RootRecord
<1>6. written \in Seq(STRING)
  BY <1>1, HeadTailProperties
<1>7. rel \in Seq(STRING) /\ Proper(rel) /\ (rel = << >> \/ rel = written)
  BY <1>6, CleanRelativeIs
<1>8. root.path \o rel \in Seq(STRING) /\ IsPrefix(root.path, root.path \o rel)
  BY <1>5, <1>7, PrefixOfConcat
<1>9. ASSUME root.name = Primary PROVE rel # << >> /\ rel[1] \notin DOMAIN RootNamed
  <2>1. ~at
    BY <1>4, <1>9, RootsAssumption
  <2>2. name # << >> /\ name # <<Dot>>
    BY <1>1 DEF VirtualRoot
  <2>3. rel = name
    BY <1>1, <2>1, <2>2 DEF CleanRelative
  <2> QED BY <2>1, <2>2, <2>3
<1> QED BY <1>2, <1>4, <1>5, <1>7, <1>8, <1>9

-----------------------------------------------------------------------------
(* What lies outside the read-write roots.                                 *)

Within(q) == \E r \in Roots : CanWrite(r) /\ IsPrefix(r.path, q)

SparedBy(map) ==
  \A p : Outside(p) =>
    /\ p \in DOMAIN nodes =>
         /\ p \in DOMAIN map
         /\ map[p] = nodes[p] \/ (nodes[p].dir = TRUE /\ map[p].dir = TRUE /\ Leads(p))
    /\ p \in DOMAIN map /\ p \notin DOMAIN nodes => map[p].dir = TRUE /\ Leads(p)

(* The way to a path within a root is within the root or leads to it. *)
LEMMA OnTheWay ==
  ASSUME TableInv, NEW q \in Paths, Within(q), NEW p \in Prefixes(q), Outside(p)
  PROVE  p # q /\ Leads(p)
<1>1. PICK r \in Roots : CanWrite(r) /\ IsPrefix(r.path, q)
  BY DEF Within
<1>2. PICK n \in 1..Len(q) : p = SubSeq(q, 1, n)
  BY ParentsAre
<1>3. /\ q \in Seq(STRING) /\ Len(q) \in Nat
      /\ \A k \in 0..Len(q) : SubSeq(q, 1, k) \in Paths /\ Len(SubSeq(q, 1, k)) = k
  BY PathIs
<1>4. /\ r.path \in Paths /\ Len(r.path) \in Nat /\ Len(r.path) \in 0..Len(q)
      /\ SubSeq(q, 1, Len(r.path)) = r.path
  BY <1>1, <1>3, RootsAre, PathIs DEF RootRecord, IsPrefix
<1>5. n \in 0..Len(q) /\ n \in Nat /\ Len(p) = n
  BY <1>2, <1>3
<1>6. ~(Len(r.path) <= n)
  <2> SUFFICES ASSUME Len(r.path) <= n PROVE FALSE
    OBVIOUS
  <2>1. Len(r.path) \in 0..n
    BY <1>4, <1>5
  <2>2. SubSeq(p, 1, Len(r.path)) = r.path
    BY <1>2, <1>3, <1>4, <1>5, <2>1, CutOfCut
  <2> QED BY <1>1, <1>5, <2>2 DEF Outside, IsPrefix
<1>7. n \in 0..Len(r.path) /\ Len(p) <= Len(r.path)
  BY <1>4, <1>5, <1>6
<1>8. SubSeq(r.path, 1, n) = p
  BY <1>2, <1>3, <1>4, <1>7, CutOfCut
<1>9. Leads(p)
  BY <1>1, <1>5, <1>7, <1>8 DEF Leads, IsPrefix
<1> QED BY <1>1, <1>9 DEF Outside

LEMMA NothingChanged == SparedBy(nodes)
BY DEF SparedBy

(* Directories on the way to a path within a root. *)
LEMMA DirsSpare ==
  ASSUME TableInv, NEW q \in Paths, Within(q), NEW dirs \in SUBSET Prefixes(q), NEW mode,
         \A p \in dirs : p \in DOMAIN nodes => nodes[p].dir = TRUE,
         NEW map, DOMAIN map = DOMAIN nodes \cup dirs, \A p \in dirs : map[p] = NewDir(mode),
         \A p \in DOMAIN nodes \ dirs : map[p] = nodes[p]
  PROVE  SparedBy(map)
<1> SUFFICES ASSUME NEW p, Outside(p)
             PROVE  /\ p \in DOMAIN nodes =>
                         /\ p \in DOMAIN map
                         /\ \/ map[p] = nodes[p]
                            \/ nodes[p].dir = TRUE /\ map[p].dir = TRUE /\ Leads(p)
                    /\ p \in DOMAIN map /\ p \notin DOMAIN nodes => map[p].dir = TRUE /\ Leads(p)
  BY DEF SparedBy
<1>1. NewDir(mode).dir = TRUE
  BY DEF NewDir
<1>2. CASE p \in dirs
  BY <1>1, <1>2, OnTheWay
<1>3. CASE p \notin dirs
  BY <1>3
<1> QED BY <1>2, <1>3

LEMMA PutSpares ==
  ASSUME NEW map, SparedBy(map), NEW q, Within(q), NEW node
  PROVE  SparedBy(Put(map, q, node))
<1> DEFINE new == Put(map, q, node)
<1>1. DOMAIN new = DOMAIN map \cup {q} /\ \A p \in DOMAIN map : p # q => new[p] = map[p]
  BY DEF Put
<1> HIDE DEF new
<1>2. \A p : Outside(p) => p # q
  BY DEF Outside, Within
<1>3. SparedBy(new)
  BY <1>1, <1>2 DEF SparedBy
<1> QED BY <1>3 DEF new

LEMMA DropSpares ==
  ASSUME NEW map, SparedBy(map), NEW q, Within(q)
  PROVE  SparedBy(Drop(map, q))
<1> DEFINE new == Drop(map, q)
<1>1. DOMAIN new = DOMAIN map \ {q} /\ \A p \in DOMAIN map : p # q => new[p] = map[p]
  BY DEF Drop
<1> HIDE DEF new
<1>2. \A p : Outside(p) => p # q
  BY DEF Outside, Within
<1>3. SparedBy(new)
  BY <1>1, <1>2 DEF SparedBy
<1> QED BY <1>3 DEF new

LEMMA ParentsSpare ==
  ASSUME TableInv, Inv, NEW q \in Paths, Within(q)
  PROVE  SparedBy(WithParents(q))
<1> DEFINE map == WithParents(q)
           dirs == Refreshed(q)
<1>1. /\ DOMAIN map = DOMAIN nodes \cup dirs
      /\ \A p \in dirs : map[p] = NewDir(Default)
      /\ \A p \in DOMAIN nodes \ dirs : map[p] = nodes[p]
  BY DEF WithParents
<1>2. dirs \in SUBSET Prefixes(q)
  BY DEF Refreshed, Parents
<1>3. \A p \in dirs : p \in DOMAIN nodes => nodes[p].dir = TRUE
  <2> SUFFICES ASSUME NEW p \in dirs, p \in DOMAIN nodes PROVE nodes[p].dir = TRUE
    OBVIOUS
  <2>1. ~FileIn(nodes, p)
    BY RefreshedAre DEF Inv
  <2>2. nodes[p].dir = TRUE \/ nodes[p].dir = FALSE
    BY NodeIs DEF Inv, Whole
  <2> QED BY <2>1, <2>2 DEF FileIn
<1> HIDE DEF map, dirs
<1>4. SparedBy(map)
  BY <1>1, <1>2, <1>3, DirsSpare
<1> QED BY <1>4 DEF map

LEMMA StoreSpares ==
  ASSUME TableInv, Inv, NEW op, NEW q \in Paths, Within(q), NEW paths, NEW data,
         Store(op, q, paths, data)
  PROVE  SparedBy(nodes')
<1>1. nodes' = WithParents(q) \/ nodes' = Put(WithParents(q), q, NewFile(data))
  BY DEF Store
<1> QED BY <1>1, ParentsSpare, PutSpares

-----------------------------------------------------------------------------
(* Each call of the base adds no more than a path and the way to it.       *)

Grows(p) == DOMAIN nodes' \subseteq DOMAIN nodes \cup Prefixes(p) \cup {p}

LEMMA ParentsGrow ==
  ASSUME NEW p
  PROVE  DOMAIN WithParents(p) \subseteq DOMAIN nodes \cup Prefixes(p)
BY DEF WithParents, Refreshed, Parents

LEMMA PutGrows ==
  ASSUME NEW map, NEW p, NEW node
  PROVE  DOMAIN Put(map, p, node) = DOMAIN map \cup {p} /\ DOMAIN Drop(map, p) = DOMAIN map \ {p}
BY DEF Put, Drop

LEMMA StoreGrows ==
  ASSUME NEW op, NEW p, NEW paths, NEW data, Store(op, p, paths, data)
  PROVE  Grows(p)
<1>1. nodes' = WithParents(p) \/ nodes' = Put(WithParents(p), p, NewFile(data))
  BY DEF Store
<1>2. DOMAIN Put(WithParents(p), p, NewFile(data)) = DOMAIN WithParents(p) \cup {p}
  BY PutGrows
<1>3. DOMAIN nodes' \subseteq DOMAIN WithParents(p) \cup {p}
  BY <1>1, <1>2
<1> QED BY <1>3, ParentsGrow DEF Grows

LEMMA CallsGrow ==
  ASSUME NEW p
  PROVE  /\ \A op : Refuse(op) => Grows(p)
         /\ \A data, overwrite : WriteFile(p, data, overwrite) => Grows(p)
         /\ \A mode : MkdirAll(p, mode) => Grows(p)
         /\ Remove(p) => Grows(p)
         /\ \A from, overwrite : Rename(from, p, overwrite) => Grows(p)
<1>1. \A op : Refuse(op) => Grows(p)
  BY DEF Refuse, Grows
<1>2. \A data, overwrite : WriteFile(p, data, overwrite) => Grows(p)
  BY <1>1, StoreGrows DEF WriteFile
<1>3. ASSUME NEW mode, MkdirAll(p, mode) PROVE Grows(p)
  BY <1>3 DEF MkdirAll, Grows
<1>4. ASSUME Remove(p) PROVE Grows(p)
  <2>1. Refuse("remove") \/ nodes' = Drop(nodes, p)
    BY <1>4 DEF Remove
  <2>2. CASE nodes' = Drop(nodes, p)
    <3>1. DOMAIN nodes' = DOMAIN nodes \ {p}
      BY <2>2, PutGrows
    <3> QED BY <3>1 DEF Grows
  <2> QED BY <1>1, <2>1, <2>2
<1>5. ASSUME NEW from, NEW overwrite, Rename(from, p, overwrite) PROVE Grows(p)
  <2>1. CASE Refuse("rename")
    BY <1>1, <2>1
  <2>2. CASE ~Refuse("rename")
    <3>1. \/ nodes' = WithParents(p)
          \/ nodes' = Drop(Put(WithParents(p), p, nodes[from]), from)
      BY <1>5, <2>2 DEF Rename
    <3> DEFINE put == Put(WithParents(p), p, nodes[from])
    <3>2. DOMAIN put = DOMAIN WithParents(p) \cup {p} /\ DOMAIN Drop(put, from) = DOMAIN put \ {from}
      BY PutGrows
    <3>3. DOMAIN nodes' \subseteq DOMAIN WithParents(p) \cup {p}
      BY <3>1, <3>2
    <3> QED BY <3>3, ParentsGrow DEF Grows
  <2> QED BY <2>1, <2>2
<1> QED BY <1>1, <1>2, <1>3, <1>4, <1>5

LEMMA GrowsFinitely ==
  ASSUME IsFiniteSet(DOMAIN nodes), NEW p \in Seq(STRING), Grows(p)
  PROVE  IsFiniteSet(DOMAIN nodes)'
<1> DEFINE n == Len(p)
           cut == [i \in 1..n |-> SubSeq(p, 1, i)]
<1>1. n \in Nat
  BY LenProperties
<1>2. IsFiniteSet(1..n)
  BY <1>1, FS_Interval
<1>3. cut \in Surjection(1..n, Prefixes(p))
  BY DEF Surjection, Prefixes
<1>4. IsFiniteSet(Prefixes(p))
  BY <1>2, <1>3, FS_Surjection
<1>5. IsFiniteSet((DOMAIN nodes \cup Prefixes(p)) \cup {p})
  BY <1>4, FS_Union, FS_AddElement
<1> QED BY <1>5, FS_Subset DEF Grows

(* A sequence of elements whose extension by names is named is named too.  *)
LEMMA TempIsNamed ==
  ASSUME NEW p \in Seq(STRING), NEW data, WriteTempFile(p, data)
  PROVE  p \in Paths
<1>1. PICK i \in 1..Len(TempNames) : ~Exists(Append(p, TempNames[i]))
  BY DEF WriteTempFile
<1>2. TempNames[i] \in STRING /\ Append(p, TempNames[i]) \in Paths
  BY <1>1, NamesAssumption, ElementOfSeq DEF WriteTempFile
<1> QED BY <1>2, AppendToPath, PrefixOfPath

LEMMA TempIs ==
  ASSUME NEW p \in Paths, NEW data, WriteTempFile(p, data)
  PROVE  LET t == FreeTempName(p) IN
         /\ ~Exists(Append(p, t)) /\ Append(p, t) \in Paths
         /\ t \in STRING /\ t \notin Malformed
         /\ Refuse("temp") \/ Store("temp", Append(p, t), {}, data)
<1> DEFINE t == FreeTempName(p)
<1>1. \E i \in 1..Len(TempNames) : ~Exists(Append(p, TempNames[i]))
  BY DEF WriteTempFile
<1>2. ~Exists(Append(p, t))
  BY <1>1, FreeNameIsFree
<1>3. PICK i \in 1..Len(TempNames) : t = TempNames[i]
  BY <1>1, FreeNameIsFree
<1>4. Append(p, t) \in Paths
  BY <1>3 DEF WriteTempFile
<1>5. t \in STRING /\ t \notin Malformed
  <2>1. i \in DOMAIN TempNames /\ TempNames[i] \in STRING
    BY NamesAssumption, ElementOfSeq, LenProperties
  <2> QED BY <1>3, <2>1, ElementsAssumption
<1>6. Refuse("temp") \/ Store("temp", Append(p, t), {}, data)
  BY DEF WriteTempFile
<1> QED BY <1>2, <1>4, <1>5, <1>6

-----------------------------------------------------------------------------
(* What a call through the mounts does to the base.                        *)

MountDone == Done /\ IsFiniteSet(DOMAIN nodes)' /\ SparedBy(nodes')

LEMMA RefuseDone ==
  ASSUME MountInv, NEW op, Refuse(op)
  PROVE  MountDone
<1>1. nodes' = nodes
  BY DEF Refuse
<1> QED BY <1>1, RefuseStep, NothingChanged DEF MountDone, MountInv

LEMMA MountWriteFileDone ==
  ASSUME Careful, MountInv, NEW name \in Names, NEW data \in Contents, NEW overwrite \in BOOLEAN,
         MountWriteFile(name, data, overwrite)
  PROVE  MountDone
<1>1. CASE Refuse("write")
  BY <1>1, RefuseDone
<1>2. ASSUME NEW r \in Writable(name), r.path \in Paths, MayWrite(r.path),
             WriteFile(r.path, data, overwrite)
      PROVE  MountDone
  <2>1. Done
    BY <1>2, WriteFileStep DEF MountInv
  <2>2. Within(r.path) /\ r.path \in Seq(STRING)
    BY WritableIs DEF MountInv, Within
  <2>3. IsFiniteSet(DOMAIN nodes)'
    BY <1>2, <2>2, CallsGrow, GrowsFinitely DEF MountInv
  <2>4. CASE Refuse("write")
    BY <2>4, RefuseDone
  <2>5. CASE ~Refuse("write")
    <3>1. Store("write", r.path, IF overwrite THEN {r.path} ELSE {}, data)
      BY <1>2, <2>5 DEF WriteFile
    <3> QED BY <1>2, <2>1, <2>2, <2>3, <3>1, StoreSpares DEF MountInv, MountDone
  <2> QED BY <2>4, <2>5
<1> QED BY <1>1, <1>2 DEF MountWriteFile

LEMMA MountWriteTempFileDone ==
  ASSUME MountInv, NEW name \in Names, NEW data \in Contents, MountWriteTempFile(name, data)
  PROVE  MountDone
<1>1. CASE Refuse("temp")
  BY <1>1, RefuseDone
<1>2. ASSUME NEW r \in Writable(name), WriteTempFile(r.path, data) PROVE MountDone
  <2> DEFINE t == FreeTempName(r.path)
             q == Append(r.path, t)
  <2>1. /\ r.root \in Roots /\ CanWrite(r.root) /\ r.root.path \in Seq(STRING)
        /\ r.rel \in Seq(STRING) /\ r.path = r.root.path \o r.rel /\ r.path \in Seq(STRING)
    BY WritableIs, PathIs DEF MountInv
  <2>2. r.path \in Paths
    BY <1>2, <2>1, TempIsNamed
  <2>3. Done
    BY <1>2, <2>2, WriteTempStep DEF MountInv
  <2>4. /\ t \in STRING /\ q \in Paths
        /\ Refuse("temp") \/ Store("temp", q, {}, data)
    BY <1>2, <2>2, TempIs
  <2>5. CASE Refuse("temp")
    BY <2>5, RefuseDone
  <2>6. CASE Store("temp", q, {}, data)
    <3>1. q \in Seq(STRING)
      BY <2>4, PathIs
    <3>2. IsFiniteSet(DOMAIN nodes)'
      BY <2>6, <3>1, StoreGrows, GrowsFinitely DEF MountInv
    <3>3. IsPrefix(r.root.path, q)
      BY <2>1, <2>4, AppendToConcat
    <3>4. Within(q)
      BY <2>1, <3>3 DEF Within
    <3> QED BY <2>3, <2>4, <2>6, <3>2, <3>4, StoreSpares DEF MountInv, MountDone
  <2> QED BY <2>4, <2>5, <2>6
<1> QED BY <1>1, <1>2 DEF MountWriteTempFile

LEMMA MountMkdirAllDone ==
  ASSUME Careful, MountInv, NEW name \in Names, NEW mode \in Modes, MountMkdirAll(name, mode)
  PROVE  MountDone
<1>1. CASE Refuse("mkdir")
  BY <1>1, RefuseDone
<1>2. CASE Answer("mkdir", {}, TRUE) /\ UNCHANGED nodes
  <2>1. nodes' = nodes /\ last' = [op |-> "mkdir", to |-> {}, ok |-> TRUE]
    BY <1>2 DEF Answer
  <2>2. last'.ok = TRUE
    BY <2>1
  <2>3. Done
    BY <2>1, <2>2 DEF MountInv, Inv, Done, Kept, Whole, DirIn, IsFile
  <2> QED BY <2>1, <2>3, NothingChanged DEF MountInv, MountDone
<1>3. ASSUME NEW r \in Writable(name), r.path \in Paths, MayMkdir(r.path), MkdirAll(r.path, mode)
      PROVE  MountDone
  <2>1. Done
    BY <1>3, MkdirStep DEF MountInv
  <2>2. Within(r.path) /\ r.path \in Seq(STRING)
    BY WritableIs DEF MountInv, Within
  <2>3. IsFiniteSet(DOMAIN nodes)'
    BY <1>3, <2>2, CallsGrow, GrowsFinitely DEF MountInv
  <2> DEFINE dirs == Prefixes(r.path)
  <2>4. /\ DOMAIN nodes' = DOMAIN nodes \cup dirs
        /\ \A q \in dirs : nodes'[q] = NewDir(mode)
        /\ \A q \in DOMAIN nodes \ dirs : nodes'[q] = nodes[q]
    BY <1>3 DEF MkdirAll
  <2>5. \A q \in dirs : q \in DOMAIN nodes => nodes[q].dir = TRUE
    <3> SUFFICES ASSUME NEW q \in dirs, q \in DOMAIN nodes PROVE nodes[q].dir = TRUE
      OBVIOUS
    <3>1. ~FileIn(nodes, q)
      BY <1>3, Kind DEF MayMkdir, Careful, MountInv, Inv
    <3>2. nodes[q].dir = TRUE \/ nodes[q].dir = FALSE
      BY NodeIs DEF MountInv, Inv, Whole
    <3> QED BY <3>1, <3>2 DEF FileIn
  <2>6. dirs \in SUBSET Prefixes(r.path)
    OBVIOUS
  <2> HIDE DEF dirs
  <2>7. SparedBy(nodes')
    BY <1>3, <2>2, <2>4, <2>5, <2>6, DirsSpare DEF MountInv
  <2> QED BY <2>1, <2>3, <2>7 DEF MountDone
<1> QED BY <1>1, <1>2, <1>3 DEF MountMkdirAll

LEMMA MountRemoveDone ==
  ASSUME MountInv, NEW name \in Names, MountRemove(name)
  PROVE  MountDone
<1>1. CASE Refuse("remove")
  BY <1>1, RefuseDone
<1>2. ASSUME NEW r \in Writable(name), Remove(r.path), ~Refuse("remove") PROVE MountDone
  <2>1. nodes' = Drop(nodes, r.path) /\ Exists(r.path)
    BY <1>2 DEF Remove
  <2>2. r.path \in Paths
    BY <2>1 DEF Exists, MountInv, Inv, Whole
  <2>3. Done
    BY <1>2, <2>2, RemoveStep DEF MountInv
  <2>4. Within(r.path) /\ r.path \in Seq(STRING)
    BY WritableIs DEF MountInv, Within
  <2>5. IsFiniteSet(DOMAIN nodes)'
    BY <1>2, <2>4, CallsGrow, GrowsFinitely DEF MountInv
  <2>6. SparedBy(nodes')
    BY <2>1, <2>4, NothingChanged, DropSpares
  <2> QED BY <2>3, <2>5, <2>6 DEF MountDone
<1> QED BY <1>1, <1>2 DEF MountRemove

LEMMA MountRenameDone ==
  ASSUME Careful, MountInv, NEW from \in Names, NEW to \in Names, NEW overwrite \in BOOLEAN,
         MountRename(from, to, overwrite)
  PROVE  MountDone
<1>1. CASE Refuse("rename")
  BY <1>1, RefuseDone
<1>2. ASSUME NEW r \in Writable(from), NEW s \in Writable(to), s.path \in Paths,
             MayRename(r.path, s.path), Rename(r.path, s.path, overwrite), ~Refuse("rename")
      PROVE  MountDone
  <2> DEFINE map == WithParents(s.path)
             put == Put(map, s.path, nodes[r.path])
  <2>1. Exists(r.path) /\ (nodes' = map \/ nodes' = Drop(put, r.path))
    BY <1>2 DEF Rename
  <2>2. r.path \in Paths
    BY <2>1 DEF Exists, MountInv, Inv, Whole
  <2>3. Done
    BY <1>2, <2>2, RenameStep DEF MountInv
  <2>4. Within(r.path) /\ Within(s.path) /\ s.path \in Seq(STRING)
    BY WritableIs DEF MountInv, Within
  <2>5. IsFiniteSet(DOMAIN nodes)'
    BY <1>2, <2>4, CallsGrow, GrowsFinitely DEF MountInv
  <2>6. SparedBy(map)
    BY <1>2, <2>4, ParentsSpare DEF MountInv
  <2>7. SparedBy(Drop(put, r.path))
    BY <2>4, <2>6, PutSpares, DropSpares
  <2>8. SparedBy(nodes')
    BY <2>1, <2>6, <2>7
  <2> QED BY <2>3, <2>5, <2>8 DEF MountDone
<1> QED BY <1>1, <1>2 DEF MountRename

CallsBase ==
  \/ \E name \in Names, data \in Contents, overwrite \in BOOLEAN :
       MountWriteFile(name, data, overwrite)
  \/ \E name \in Names, data \in Contents : MountWriteTempFile(name, data)
  \/ \E name \in Names, mode \in Modes : MountMkdirAll(name, mode)
  \/ \E name \in Names : MountRemove(name)
  \/ \E from, to \in Names, overwrite \in BOOLEAN : MountRename(from, to, overwrite)

LEMMA CallsBaseDone ==
  ASSUME Careful, MountInv, CallsBase
  PROVE  MountDone /\ via'.by = "mount" /\ UNCHANGED <<roots, dir, read>>
<1>1. MountDone
  BY MountWriteFileDone, MountWriteTempFileDone, MountMkdirAllDone, MountRemoveDone, MountRenameDone
     DEF CallsBase
<1>2. \E made : Called(made)
  BY DEF CallsBase, MountWriteFile, MountWriteTempFile, MountMkdirAll, MountRemove, MountRename
<1>3. via'.by = "mount" /\ UNCHANGED <<roots, dir, read>>
  BY <1>2 DEF Called
<1> QED BY <1>1, <1>3

LEMMA BaseStepDone ==
  ASSUME Careful, MountInv, BaseStep
  PROVE  Done /\ IsFiniteSet(DOMAIN nodes)' /\ via'.by = "base" /\ UNCHANGED <<roots, dir, read>>
<1>1. Next /\ via'.by = "base" /\ UNCHANGED <<roots, dir, read>>
  BY DEF BaseStep
<1>2. Done
  BY <1>1, NextDone DEF MountInv
<1>3. \E p \in Paths : Grows(p)
  <2>1. CASE \E p \in Paths, data \in Contents, overwrite \in BOOLEAN : WriteFile(p, data, overwrite)
    BY <2>1, CallsGrow
  <2>2. ASSUME NEW p \in Paths, NEW data \in Contents, WriteTempFile(p, data)
        PROVE  \E q \in Paths : Grows(q)
    <3>1. CASE Refuse("temp")
      BY <3>1, CallsGrow
    <3>2. CASE ~Refuse("temp")
      BY <2>2, <3>2, TempIs, StoreGrows
    <3> QED BY <3>1, <3>2
  <2>3. CASE \E p \in Paths, mode \in Modes : MkdirAll(p, mode)
    BY <2>3, CallsGrow
  <2>4. CASE \E p \in Paths : Remove(p)
    BY <2>4, CallsGrow
  <2>5. CASE \E from, to \in Paths, overwrite \in BOOLEAN : Rename(from, to, overwrite)
    BY <2>5, CallsGrow
  <2> QED BY <1>1, <2>1, <2>2, <2>3, <2>4, <2>5 DEF Next
<1>4. IsFiniteSet(DOMAIN nodes)'
  BY <1>3, PathIs, GrowsFinitely DEF MountInv
<1> QED BY <1>1, <1>2, <1>4

-----------------------------------------------------------------------------
(* The virtual root: its entries, their order, and its pages.              *)

LEMMA ImageIsFinite ==
  ASSUME NEW S, IsFiniteSet(S), NEW f, DOMAIN f = S, NEW T, T = {f[x] : x \in S}
  PROVE  IsFiniteSet(T)
<1> DEFINE g == [x \in S |-> f[x]]
<1>1. g \in Surjection(S, T)
  BY DEF Surjection
<1> QED BY <1>1, FS_Surjection

LEMMA MountName ==
  ASSUME TableInv, NEW r \in Roots, r.name # Primary
  PROVE  \E at \in DOMAIN RootNamed :
           /\ at \in STRING /\ RootNamed[at] = r.name
           /\ VisibleName(r, << >>) = <<at>> /\ VisibleName(r, << >>)[1] = at
           /\ \A rel : VisibleName(r, rel) = <<at>> \o rel
           /\ \E j \in DOMAIN Collation : Collation[j] = at
<1> DEFINE at == CHOOSE x \in DOMAIN RootNamed : RootNamed[x] = r.name
<1>1. at \in DOMAIN RootNamed /\ RootNamed[at] = r.name
  BY RootsAre
<1>2. at \in STRING /\ \E j \in DOMAIN Collation : Collation[j] = at
  BY <1>1, RootsAre, RootsAssumption
<1>3. \A rel : VisibleName(r, rel) = <<at>> \o rel
  BY DEF VisibleName
<1> HIDE DEF at
<1>4. <<at>> \in Seq(STRING)
  BY <1>2, EmptySeq, AppendToPath
<1>5. <<at>> \o << >> = <<at>>
  BY <1>4, ConcatEmptySeq
<1>6. VisibleName(r, << >>) = <<at>>
  BY <1>3, <1>5
<1>7. VisibleName(r, << >>)[1] = at
  BY <1>6
<1> QED BY <1>1, <1>2, <1>3, <1>6, <1>7

(* An entry of the base stands for a path in the map. *)
LEMMA ListingIs ==
  ASSUME Inv, NEW p \in Paths, NEW x \in Listing(p)
  PROVE  /\ x \in STRING /\ x \notin Malformed
         /\ \E j \in DOMAIN Collation : Collation[j] = x
         /\ Exists(Append(p, x))
<1>1. PICK q \in DOMAIN nodes : Len(q) > Len(p) /\ SubSeq(q, 1, Len(p)) = p /\ x = q[Len(p) + 1]
  BY DEF Listing, Below
<1>2. /\ q \in Paths /\ q \in Seq(STRING) /\ p \in Seq(STRING) /\ Len(p) \in Nat /\ Len(q) \in Nat
      /\ DOMAIN q = 1..Len(q)
  BY PathIs, LenProperties DEF Inv, Whole
<1>3. Len(p) + 1 \in 1..Len(q) /\ Len(p) + 1 \in 0..Len(q) /\ Len(p) + 1 \in DOMAIN q
  BY <1>1, <1>2
<1>4. x \in STRING
  BY <1>1, <1>2, <1>3, ElementOfSeq
<1>5. x \notin Malformed /\ \E j \in DOMAIN Collation : Collation[j] = x
  BY <1>1, <1>2, <1>3, ElementsAssumption, CollationAssumption
<1>6. SubSeq(q, 1, Len(p) + 1) = Append(p, x)
  <2> DEFINE s == SubSeq(q, 1, Len(p) + 1)
             t == Append(p, x)
  <2>1. /\ s \in Seq(STRING) /\ Len(s) = Len(p) + 1
        /\ \A i \in 1..(Len(p) + 1) : s[i] = q[i]
    BY <1>2, <1>3, CutIs
  <2>2. /\ t \in Seq(STRING) /\ Len(t) = Len(p) + 1
        /\ \A i \in 1..Len(p) : t[i] = p[i]
        /\ t[Len(p) + 1] = x
    BY <1>2, <1>4, AppendToPath
  <2>3. \A i \in 1..Len(p) : p[i] = q[i]
    <3>1. Len(p) \in 0..Len(q)
      BY <1>2, <1>3
    <3> QED BY <1>1, <1>2, <3>1, CutIs
  <2>4. \A i \in 1..(Len(p) + 1) : i \in 1..Len(p) \/ i = Len(p) + 1
    BY <1>2
  <2>5. \A i \in 1..Len(s) : s[i] = t[i]
    BY <1>1, <2>1, <2>2, <2>3, <2>4
  <2> HIDE DEF s, t
  <2>6. s = t
    BY <2>1, <2>2, <2>5, SeqEqual
  <2> QED BY <2>6 DEF s, t
<1>7. SubSeq(q, 1, Len(p) + 1) \in DOMAIN nodes
  <2>1. CASE Len(p) + 1 = Len(q)
    BY <1>2, <2>1, PathIs
  <2>2. CASE Len(p) + 1 # Len(q)
    <3>1. Len(p) + 1 \in 0..(Len(q) - 1)
      <4>1. \A a, b \in Nat : a + 1 \in 1..b /\ a + 1 # b => a + 1 \in 0..(b - 1)
        OBVIOUS
      <4> QED BY <1>2, <1>3, <2>2, <4>1
    <3> QED BY <3>1 DEF Inv, Whole, DirIn
  <2> QED BY <2>1, <2>2
<1> QED BY <1>4, <1>5, <1>6, <1>7 DEF Exists

LEMMA EntriesAre ==
  ASSUME MountInv
  PROVE  LET all == VirtualRootEntries IN
         /\ IsFiniteSet(all) /\ all \subseteq EntryRecord
         /\ \A e, f \in all : e.name = f.name => e = f
         /\ \A e \in all : \E j \in DOMAIN Collation : Collation[j] = e.name
<1> DEFINE base == UNION {BaseEntries(r.path) : r \in PrimaryRoots}
           all == VirtualRootEntries
<1>1. TableInv /\ Inv /\ IsFiniteSet(DOMAIN nodes)
  BY DEF MountInv
<1>2. all = MountEntries \cup {e \in base : \A f \in MountEntries : f.name # e.name}
  BY DEF VirtualRootEntries
<1>3. ASSUME NEW e \in MountEntries
      PROVE  e \in EntryRecord /\ e.dir = TRUE /\ \E j \in DOMAIN Collation : Collation[j] = e.name
  <2>1. PICK r \in Roots \ PrimaryRoots : e = [name |-> VisibleName(r, << >>)[1], dir |-> TRUE]
    BY DEF MountEntries
  <2>2. r \in Roots /\ r.name # Primary
    BY DEF PrimaryRoots
  <2> QED BY <1>1, <2>1, <2>2, MountName DEF EntryRecord
<1>4. \A r, s \in PrimaryRoots : r = s
  BY <1>1, RootsAre DEF PrimaryRoots
<1>5. ASSUME NEW r \in PrimaryRoots, NEW e \in BaseEntries(r.path)
      PROVE  /\ e \in EntryRecord /\ \E j \in DOMAIN Collation : Collation[j] = e.name
             /\ e = [name |-> e.name, dir |-> IsDir(Append(r.path, e.name))]
  <2>1. PICK x \in Listing(r.path) : e = [name |-> x, dir |-> IsDir(Append(r.path, x))]
    BY DEF BaseEntries
  <2>2. r.path \in Paths
    BY <1>1, RootsAre DEF PrimaryRoots, RootRecord
  <2>3. x \in STRING /\ \E j \in DOMAIN Collation : Collation[j] = x
    BY <1>1, <2>2, ListingIs
  <2>4. IsDir(Append(r.path, x)) \in BOOLEAN
    BY DEF IsDir
  <2> QED BY <2>1, <2>3, <2>4 DEF EntryRecord
<1>6. ASSUME NEW e \in base
      PROVE  e \in EntryRecord /\ \E j \in DOMAIN Collation : Collation[j] = e.name
  BY <1>5
<1>7. ASSUME NEW e \in base, NEW f \in base, e.name = f.name PROVE e = f
  <2>1. PICK r \in PrimaryRoots : e \in BaseEntries(r.path)
    OBVIOUS
  <2>2. f \in BaseEntries(r.path)
    BY <1>4
  <2>3. /\ e = [name |-> e.name, dir |-> IsDir(Append(r.path, e.name))]
        /\ f = [name |-> f.name, dir |-> IsDir(Append(r.path, f.name))]
    BY <1>5, <2>1, <2>2
  <2> QED BY <1>7, <2>3
<1>8. ASSUME NEW e \in MountEntries, NEW f \in MountEntries, e.name = f.name PROVE e = f
  <2>1. PICK x : e = [name |-> x, dir |-> TRUE]
    BY DEF MountEntries
  <2>2. PICK y : f = [name |-> y, dir |-> TRUE]
    BY DEF MountEntries
  <2>3. x = y
    BY <1>8, <2>1, <2>2
  <2> QED BY <2>1, <2>2, <2>3
<1>9. IsFiniteSet(MountEntries)
  <2> DEFINE entry == [r \in Roots \ PrimaryRoots |-> [name |-> VisibleName(r, << >>)[1], dir |-> TRUE]]
  <2>1. IsFiniteSet(Roots)
    <3>1. roots \in Seq(RootRecord) /\ DOMAIN roots = 1..Len(roots) /\ Len(roots) \in Nat
      BY <1>1, LenProperties DEF TableInv
    <3>2. IsFiniteSet(DOMAIN roots)
      BY <3>1, FS_Interval
    <3> QED BY <3>2, ImageIsFinite DEF Roots
  <2>2. IsFiniteSet(Roots \ PrimaryRoots)
    BY <2>1, FS_Subset
  <2>3. MountEntries = {entry[r] : r \in Roots \ PrimaryRoots}
    BY DEF MountEntries
  <2>4. DOMAIN entry = Roots \ PrimaryRoots
    OBVIOUS
  <2> HIDE DEF entry
  <2> QED BY <2>2, <2>3, <2>4, ImageIsFinite
<1>10. IsFiniteSet(base)
  <2>1. CASE PrimaryRoots = {}
    <3>1. base = {}
      BY <2>1
    <3> QED BY <3>1, FS_EmptySet
  <2>2. ASSUME NEW r \in PrimaryRoots PROVE IsFiniteSet(base)
    <3>1. base = BaseEntries(r.path)
      BY <1>4
    <3> DEFINE name == [q \in Below(r.path) |-> q[Len(r.path) + 1]]
               entry == [x \in Listing(r.path) |-> [name |-> x, dir |-> IsDir(Append(r.path, x))]]
    <3>2. IsFiniteSet(Below(r.path))
      BY <1>1, FS_Subset DEF Below
    <3>3. Listing(r.path) = {name[q] : q \in Below(r.path)} /\ DOMAIN name = Below(r.path)
      BY DEF Listing
    <3>4. BaseEntries(r.path) = {entry[x] : x \in Listing(r.path)} /\ DOMAIN entry = Listing(r.path)
      BY DEF BaseEntries
    <3> HIDE DEF name, entry
    <3>5. IsFiniteSet(Listing(r.path))
      BY <3>2, <3>3, ImageIsFinite
    <3>6. IsFiniteSet(BaseEntries(r.path))
      BY <3>4, <3>5, ImageIsFinite
    <3> QED BY <3>1, <3>6
  <2> QED BY <2>1, <2>2
<1> HIDE DEF base
<1>11. IsFiniteSet(all)
  <2>1. IsFiniteSet({e \in base : \A f \in MountEntries : f.name # e.name})
    BY <1>10, FS_Subset
  <2> QED BY <1>2, <1>9, <2>1, FS_Union
<1>12. all \subseteq EntryRecord /\ \A e \in all : \E j \in DOMAIN Collation : Collation[j] = e.name
  BY <1>2, <1>3, <1>6
<1>13. ASSUME NEW e \in all, NEW f \in all, e.name = f.name PROVE e = f
  BY <1>2, <1>7, <1>8, <1>13
<1> QED BY <1>11, <1>12, <1>13

LEMMA PlaceIs ==
  ASSUME NEW x, \E j \in DOMAIN Collation : Collation[j] = x
  PROVE  Place(x) \in Nat /\ Place(x) \in DOMAIN Collation /\ Collation[Place(x)] = x
<1>1. Place(x) \in DOMAIN Collation /\ Collation[Place(x)] = x
  BY DEF Place
<1>2. DOMAIN Collation = 1..Len(Collation) /\ Len(Collation) \in Nat
  BY CollationAssumption, LenProperties
<1> QED BY <1>1, <1>2

(* Counting who comes no later numbers the entries from one upwards.       *)
LEMMA SortedIs ==
  ASSUME NEW all, IsFiniteSet(all), all \subseteq EntryRecord,
         \A e, f \in all : e.name = f.name => e = f,
         \A e \in all : \E j \in DOMAIN Collation : Collation[j] = e.name
  PROVE  /\ Sorted(all) \in Seq(EntryRecord)
         /\ \A i, j \in 1..Len(Sorted(all)) : i < j => Rank(Sorted(all)[i]) < Rank(Sorted(all)[j])
<1> DEFINE upTo(e) == {f \in all : Rank(f) <= Rank(e)}
           rank(e) == Cardinality(upTo(e))
           n == Cardinality(all)
           s == [i \in 1..n |-> CHOOSE e \in all : rank(e) = i]
<1>1. Sorted(all) = s
  BY DEF Sorted, Rank
<1>2. ASSUME NEW e \in all, NEW f \in all
      PROVE  Rank(e) \in Nat /\ Rank(f) \in Nat /\ (Rank(e) = Rank(f) => e = f)
  <2>1. /\ Place(e.name) \in Nat /\ Collation[Place(e.name)] = e.name
        /\ Place(f.name) \in Nat /\ Collation[Place(f.name)] = f.name
    BY PlaceIs
  <2> QED BY <2>1 DEF Rank
<1>3. n \in Nat
  BY FS_CardinalityType
<1>4. ASSUME NEW e \in all PROVE IsFiniteSet(upTo(e)) /\ rank(e) \in 1..n
  <2>1. IsFiniteSet(upTo(e)) /\ rank(e) <= n
    BY FS_Subset
  <2>2. e \in upTo(e)
    BY <1>2
  <2>3. rank(e) \in Nat /\ rank(e) # 0
    BY <2>1, <2>2, FS_CardinalityType, FS_EmptySet
  <2> QED BY <1>3, <2>1, <2>3
<1>5. ASSUME NEW e \in all, NEW f \in all, Rank(e) <= Rank(f) PROVE rank(e) <= rank(f)
  <2>1. upTo(e) \subseteq upTo(f)
    <3>1. \A g \in all : Rank(g) \in Nat /\ Rank(e) \in Nat /\ Rank(f) \in Nat
      BY <1>2
    <3> QED BY <1>5, <3>1
  <2> HIDE DEF upTo
  <2> QED BY <1>4, <2>1, FS_Subset
<1>6. ASSUME NEW e \in all, NEW f \in all, rank(e) = rank(f) PROVE e = f
  <2>1. ASSUME NEW g \in all, NEW h \in all, rank(g) = rank(h), Rank(g) <= Rank(h) PROVE Rank(g) = Rank(h)
    <3>1. \A k \in all : Rank(k) \in Nat /\ Rank(g) \in Nat /\ Rank(h) \in Nat
      BY <1>2
    <3>2. upTo(g) \subseteq upTo(h) /\ h \in upTo(h)
      BY <2>1, <3>1
    <3>3. h \in upTo(g)
      <4> HIDE DEF upTo
      <4>1. IsFiniteSet(upTo(h)) /\ upTo(g) \in SUBSET upTo(h) /\ Cardinality(upTo(h)) = Cardinality(upTo(g))
        BY <1>4, <2>1, <3>2
      <4>2. upTo(h) = upTo(g)
        BY <4>1, FS_Subset
      <4> QED BY <3>2, <4>2
    <3> QED BY <2>1, <3>1, <3>3
  <2>2. Rank(e) \in Nat /\ Rank(f) \in Nat
    BY <1>2
  <2>3. Rank(e) = Rank(f)
    <3>1. CASE Rank(e) <= Rank(f)
      BY <1>6, <2>1, <3>1
    <3>2. CASE Rank(f) <= Rank(e)
      BY <1>6, <2>1, <3>2
    <3> QED BY <2>2, <3>1, <3>2
  <2> QED BY <1>2, <2>3
<1> HIDE DEF rank, upTo
<1>7. ASSUME NEW i \in 1..n PROVE \E e \in all : rank(e) = i
  <2> DEFINE r == [e \in all |-> rank(e)]
  <2>1. r \in Injection(all, 1..n)
    <3>1. DOMAIN r = all /\ \A e \in all : r[e] = rank(e)
      OBVIOUS
    <3>2. r \in [all -> 1..n]
      BY <1>4
    <3> HIDE DEF r
    <3>3. \A e, f \in all : r[e] = r[f] => e = f
      BY <1>6, <3>1
    <3> QED BY <3>2, <3>3 DEF Injection, IsInjective
  <2>2. IsFiniteSet(1..n) /\ Cardinality(1..n) = n
    BY <1>3, FS_Interval
  <2>3. r \in Surjection(all, 1..n)
    BY <2>1, <2>2, FS_Injection
  <2> QED BY <2>3 DEF Surjection
<1>8. \A i \in 1..n : s[i] \in all /\ rank(s[i]) = i
  BY <1>7
<1>9. s \in Seq(EntryRecord) /\ Len(s) = n
  BY <1>3, <1>8
<1> HIDE DEF s
<1>10. ASSUME NEW i \in 1..n, NEW j \in 1..n, i < j PROVE Rank(s[i]) < Rank(s[j])
  <2>1. s[i] \in all /\ s[j] \in all /\ rank(s[i]) = i /\ rank(s[j]) = j
    BY <1>8
  <2>2. Rank(s[i]) \in Nat /\ Rank(s[j]) \in Nat
    BY <1>2, <2>1
  <2>3. ~(Rank(s[j]) <= Rank(s[i]))
    <3>1. Rank(s[j]) <= Rank(s[i]) => rank(s[j]) <= rank(s[i])
      BY <1>5, <2>1
    <3>2. ~(j <= i)
      BY <1>3, <1>10
    <3> QED BY <2>1, <3>1, <3>2
  <2> QED BY <2>2, <2>3
<1> QED BY <1>1, <1>9, <1>10

LEMMA OpenRootStep ==
  ASSUME MountInv, OpenRoot
  PROVE  PagesInv'
<1> DEFINE s == Sorted(VirtualRootEntries)
<1>1. /\ dir' = [open |-> TRUE, entries |-> s, offset |-> 0]
      /\ read' = [entries |-> << >>, eof |-> FALSE, panic |-> 0]
  BY DEF OpenRoot, Unread
<1>2. /\ s \in Seq(EntryRecord)
      /\ \A i, j \in 1..Len(s) : i < j => Rank(s[i]) < Rank(s[j])
  BY EntriesAre, SortedIs
<1> HIDE DEF s
<1>3. SubSeq(s, 1, 0) = << >>
  BY SubSeqEmpty
<1>4. 0 <= Len(s) /\ << >> \in Seq(EntryRecord)
  BY <1>2, LenProperties, EmptySeq
<1> QED BY <1>1, <1>2, <1>3, <1>4 DEF PagesInv

(* Where a page ends: it cannot be before its beginning but by overflow.   *)
LEMMA PageEnds ==
  ASSUME MountInv, NEW n \in Pages
  PROVE  /\ n \in Nat
         /\ PageEnd(n) < dir.offset => n > 0 /\ dir.offset > 0 /\ dir.offset + n > MaxInt
         /\ ~(PageEnd(n) < dir.offset) =>
              PageEnd(n) \in Nat /\ dir.offset <= PageEnd(n) /\ PageEnd(n) <= Len(dir.entries)
<1> DEFINE k == dir.offset
           l == Len(dir.entries)
<1>1. /\ n \in Nat /\ n <= MaxInt /\ MaxInt \in Nat
      /\ k \in Nat /\ l \in Nat /\ k <= l
  BY PagesAssumption, MaxIntAssumption, LenProperties DEF MountInv, PagesInv
<1> HIDE DEF k, l
<1>2. CASE k + n > MaxInt
  <2>1. PageEnd(n) = LET sum == k + n - 2 * (MaxInt + 1) IN IF n = 0 \/ sum > l THEN l ELSE sum
    BY <1>2 DEF PageEnd, Plus, k, l
  <2> QED BY <1>1, <1>2, <2>1 DEF k, l
<1>3. CASE ~(k + n > MaxInt)
  <2>1. PageEnd(n) = IF n = 0 \/ k + n > l THEN l ELSE k + n
    BY <1>3 DEF PageEnd, Plus, k, l
  <2> QED BY <1>1, <1>3, <2>1 DEF k, l
<1> QED BY <1>2, <1>3

LEMMA ReadPageStep ==
  ASSUME MountInv, NEW n \in Pages, ReadPage(n)
  PROVE  PagesInv'
<1> DEFINE s == dir.entries
           l == Len(dir.entries)
           end == PageEnd(n)
<1>1. /\ PagesInv /\ n \in Nat /\ s \in Seq(EntryRecord) /\ l \in Nat
      /\ dir.offset \in Nat /\ dir.offset <= l
  BY PageEnds, LenProperties DEF MountInv, PagesInv
<1>2. CASE n > 0 /\ dir.offset >= l
  <2>1. dir' = dir /\ read' = [read EXCEPT !.eof = TRUE, !.panic = 0]
    BY <1>2 DEF ReadPage
  <2>2. dir.offset = l
    BY <1>1, <1>2
  <2>3. /\ read' \in [entries : Seq(EntryRecord), eof : BOOLEAN, panic : Nat]
        /\ read'.entries = read.entries /\ read'.panic = 0
    BY <1>1, <2>1 DEF PagesInv
  <2> QED BY <1>1, <2>1, <2>2, <2>3 DEF PagesInv
<1>3. CASE ~(n > 0 /\ dir.offset >= l) /\ PageEnd(n) < dir.offset
  <2>1. dir' = dir /\ read' = [read EXCEPT !.panic = n]
    BY <1>3 DEF ReadPage
  <2>2. n > 0 /\ dir.offset > 0 /\ dir.offset + n > MaxInt
    BY <1>3, PageEnds
  <2> QED BY <1>1, <2>1, <2>2 DEF PagesInv
<1>4. CASE ~(n > 0 /\ dir.offset >= l) /\ ~(PageEnd(n) < dir.offset)
  <2>1. /\ dir' = [dir EXCEPT !.offset = end]
        /\ read' = [read EXCEPT !.entries = @ \o SubSeq(s, dir.offset + 1, end), !.panic = 0]
    BY <1>4 DEF ReadPage, PageIsRead
  <2>2. end \in Nat /\ dir.offset <= end /\ end <= l /\ (dir.offset = l => end = l)
    BY <1>1, <1>4, PageEnds
  <2> HIDE DEF end
  <2>3. SubSeq(s, 1, dir.offset) \o SubSeq(s, dir.offset + 1, end) = SubSeq(s, 1, end)
    <3>1. 1 \in 1..(l + 1) /\ dir.offset \in (1 - 1)..l /\ end \in dir.offset..l
      BY <1>1, <2>2
    <3> QED BY <1>1, <3>1, ConcatAdjacentSubSeq
  <2>4. SubSeq(s, 1, end) \in Seq(EntryRecord)
    <3>1. \A i \in 1..end : s[i] \in EntryRecord
      BY <1>1, <2>2, ElementOfSeq
    <3> QED BY <2>2, <3>1, SubSeqProperties
  <2>5. /\ dir'.open = dir.open /\ dir'.entries = s /\ dir'.offset = end
        /\ dir' \in [open : BOOLEAN, entries : Seq(EntryRecord), offset : Nat]
    BY <1>1, <2>1, <2>2 DEF PagesInv
  <2>6. /\ read'.entries = SubSeq(s, 1, end) /\ read'.eof = read.eof /\ read'.panic = 0
        /\ read' \in [entries : Seq(EntryRecord), eof : BOOLEAN, panic : Nat]
    BY <1>1, <2>1, <2>3, <2>4 DEF PagesInv
  <2> QED BY <1>1, <2>2, <2>5, <2>6 DEF PagesInv
<1> QED BY <1>2, <1>3, <1>4

LEMMA CloseRootStep ==
  ASSUME MountInv, CloseRoot
  PROVE  PagesInv'
<1>1. /\ dir' = [open |-> FALSE, entries |-> << >>, offset |-> 0]
      /\ read' = [entries |-> << >>, eof |-> FALSE, panic |-> 0]
  BY DEF CloseRoot, Closed, Unread
<1>2. << >> \in Seq(EntryRecord) /\ Len(<< >>) = 0 /\ SubSeq(<< >>, 1, 0) = << >>
  BY EmptySeq, SubSeqEmpty
<1> QED BY <1>1, <1>2 DEF PagesInv

-----------------------------------------------------------------------------
(* The invariant.                                                          *)

LEMMA MountInvStarts ==
  ASSUME MountInit
  PROVE  MountInv
<1>1. Init /\ via = [by |-> "base", made |-> {}] /\ dir = Closed /\ read = Unread
  BY DEF MountInit
<1>2. Inv /\ IsFiniteSet(DOMAIN nodes)
  <2>1. DOMAIN nodes = {Root}
    BY <1>1 DEF Init
  <2> QED BY <1>1, <2>1, InitInv, FS_Singleton
<1>3. TableInv
  <2>1. PICK spec \in Specs : New(spec)
    BY DEF MountInit
  <2>2. /\ spec \in Seq([name : STRING, path : Paths, access : {"", "read_only", "read_write"}])
        /\ DOMAIN spec = 1..Len(spec) /\ Len(spec) \in Nat
    BY RootsAssumption, LenProperties
  <2>3. /\ roots = [i \in 1..Len(spec) |-> NormalizeRoot(spec[i])]
        /\ \A i, j \in DOMAIN spec : spec[i].name = spec[j].name => i = j
    BY <2>1, <2>2 DEF New
  <2>4. ASSUME NEW i \in 1..Len(spec)
        PROVE  NormalizeRoot(spec[i]) \in RootRecord /\ NormalizeRoot(spec[i]).name = spec[i].name
    <3>1. spec[i] \in [name : STRING, path : Paths, access : {"", "read_only", "read_write"}]
      BY <2>2, ElementOfSeq
    <3> QED BY <3>1 DEF NormalizeRoot, RootRecord
  <2>5. /\ DOMAIN roots = DOMAIN spec /\ \A i \in DOMAIN spec : roots[i].name = spec[i].name
        /\ \A i \in 1..Len(spec) : roots[i] \in RootRecord
    BY <2>2, <2>3, <2>4
  <2>6. roots \in Seq(RootRecord) /\ Len(roots) = Len(spec)
    <3> DEFINE l == Len(spec)
    <3>1. l \in Nat /\ roots = [i \in 1..l |-> roots[i]] /\ \A i \in 1..l : roots[i] \in RootRecord
      BY <2>2, <2>3, <2>5
    <3> HIDE DEF l
    <3>2. roots \in [1..l -> RootRecord]
      BY <3>1
    <3>3. roots \in Seq(RootRecord) /\ Len(roots) = l
      BY <3>1, <3>2
    <3> QED BY <3>3 DEF l
  <2>7. ASSUME NEW i \in DOMAIN roots, NEW j \in DOMAIN roots, roots[i].name = roots[j].name
        PROVE  i = j
    <3>1. i \in DOMAIN spec /\ j \in DOMAIN spec /\ spec[i].name = spec[j].name
      BY <2>5, <2>7
    <3> QED BY <2>3, <3>1
  <2>8. Len(roots) = Len(spec) /\ \A i \in DOMAIN spec : roots[i].name = spec[i].name
    BY <2>5, <2>6
  <2> QED BY <2>6, <2>7, <2>8 DEF TableInv
<1>4. PagesInv
  <2>1. << >> \in Seq(EntryRecord) /\ Len(<< >>) = 0 /\ SubSeq(<< >>, 1, 0) = << >>
    BY EmptySeq, SubSeqEmpty
  <2> QED BY <1>1, <2>1 DEF PagesInv, Closed, Unread
<1> QED BY <1>1, <1>2, <1>3, <1>4 DEF MountInv

LEMMA NoCallDone ==
  ASSUME MountInv, UNCHANGED <<nodes, last>>
  PROVE  Done /\ IsFiniteSet(DOMAIN nodes)' /\ SparedBy(nodes')
<1>1. Inv' /\ nodes' = nodes /\ last' = last
  BY DEF MountInv, Inv, Whole, DirIn
<1> QED BY <1>1, NothingChanged DEF MountInv, Done, Kept, IsFile

(* A step is a call through the mounts, one on the base, or none. *)
LEMMA StepIs ==
  ASSUME [MountNext]_mountVars
  PROVE  \/ CallsBase
         \/ BaseStep
         \/ /\ UNCHANGED <<nodes, last, roots, via>>
            /\ \/ OpenRoot \/ CloseRoot \/ \E n \in Pages : ReadPage(n)
               \/ UNCHANGED <<dir, read>>
BY DEF MountNext, MountStep, CallsBase, mountVars, OpenRoot, CloseRoot, ReadPage

LEMMA MountInvStays ==
  ASSUME Careful, MountInv, [MountNext]_mountVars
  PROVE  MountInv'
<1>1. CASE CallsBase
  <2>1. MountDone /\ via'.by = "mount" /\ UNCHANGED <<roots, dir, read>>
    BY <1>1, CallsBaseDone
  <2>2. TableInv' /\ PagesInv'
    BY <2>1 DEF MountInv, TableInv, PagesInv
  <2> QED BY <2>1, <2>2 DEF MountInv, MountDone, Done
<1>2. CASE BaseStep
  <2>1. Done /\ IsFiniteSet(DOMAIN nodes)' /\ via'.by = "base" /\ UNCHANGED <<roots, dir, read>>
    BY <1>2, BaseStepDone
  <2>2. Inv' /\ TableInv'
    BY <2>1 DEF Done, MountInv, TableInv
  <2>3. PagesInv'
    <3>1. PagesInv
      BY DEF MountInv
    <3> QED BY <2>1, <3>1 DEF PagesInv
  <2> QED BY <2>1, <2>2, <2>3 DEF MountInv
<1>3. CASE /\ UNCHANGED <<nodes, last, roots, via>>
           /\ \/ OpenRoot \/ CloseRoot \/ \E n \in Pages : ReadPage(n)
              \/ UNCHANGED <<dir, read>>
  <2>1. Inv' /\ IsFiniteSet(DOMAIN nodes)' /\ TableInv' /\ via'.by \in {"base", "mount"}
    BY <1>3, NoCallDone DEF Done, MountInv, TableInv
  <2>2. PagesInv'
    <3>1. CASE UNCHANGED <<dir, read>>
      BY <3>1 DEF MountInv, PagesInv
    <3> QED BY <1>3, <3>1, OpenRootStep, CloseRootStep, ReadPageStep
  <2> QED BY <2>1, <2>2 DEF MountInv
<1> QED BY <1>1, <1>2, <1>3, StepIs

LEMMA MountInvAlways ==
  ASSUME Careful
  PROVE  MountSpec => []MountInv
BY MountInvStarts, MountInvStays, PTL DEF MountSpec

-----------------------------------------------------------------------------
(* memsystem's map stays whole, and keeps its files, under calls through   *)
(* the mounts and on the base in any order.                                *)
THEOREM MountsKeepTheBase ==
  ASSUME Careful
  PROVE  MountSpec => []ListingAgrees /\ FilesAreKept
<1>1. MountInv => ListingAgrees
  BY InvListing DEF MountInv
<1>2. MountInv /\ [MountNext]_mountVars => [Kept]_vars
  <2> SUFFICES ASSUME MountInv, [MountNext]_mountVars PROVE [Kept]_vars
    OBVIOUS
  <2>1. CASE UNCHANGED <<nodes, last>>
    BY <2>1 DEF vars
  <2>2. CASE ~(UNCHANGED <<nodes, last>>)
    <3>1. Done
      BY <2>2, StepIs, CallsBaseDone, BaseStepDone DEF MountDone
    <3> QED BY <3>1 DEF Done
  <2> QED BY <2>1, <2>2
<1>3. MountSpec => [][Kept]_vars
  BY <1>2, MountInvAlways, PTL DEF MountSpec
<1> QED BY <1>1, <1>3, KeptIsIt, MountInvAlways, PTL

(* A call through the mounts changes nothing outside the read-write roots, *)
(* whichever way the roots of the table lie within each other, and adds    *)
(* nothing there, but directories that lead to one of them: it makes these *)
(* and resets the permissions of those there are.                          *)
THEOREM MountsSpareTheRest ==
  ASSUME Careful
  PROVE  MountSpec => OutsideIsKept
<1> DEFINE Kept1 ==
      via'.by = "mount" =>
        \A p \in {p \in DOMAIN nodes \cup DOMAIN nodes' : Outside(p)} :
          /\ p \in DOMAIN nodes =>
               /\ p \in DOMAIN nodes'
               /\ \/ nodes'[p] = nodes[p]
                  \/ nodes[p].dir /\ nodes'[p].dir /\ Leads(p)
          /\ p \notin DOMAIN nodes => nodes'[p].dir /\ Leads(p)
<1>1. ASSUME MountInv, [MountNext]_mountVars PROVE Kept1
  <2>1. via'.by = "mount" => SparedBy(nodes')
    <3>1. CASE CallsBase
      BY <1>1, <3>1, CallsBaseDone DEF MountDone
    <3>2. CASE BaseStep
      BY <1>1, <3>2, BaseStepDone
    <3>3. CASE UNCHANGED <<nodes, last>>
      BY <1>1, <3>3, NoCallDone
    <3> QED BY <1>1, <3>1, <3>2, <3>3, StepIs
  <2> QED BY <2>1 DEF SparedBy
<1>2. MountSpec => [][Kept1]_mountVars
  <2>1. MountInv /\ [MountNext]_mountVars => [Kept1]_mountVars
    BY <1>1
  <2> HIDE DEF Kept1
  <2> QED BY <2>1, MountInvAlways, PTL DEF MountSpec
<1> QED BY <1>2, PTL DEF OutsideIsKept

LEMMA TailOfOne ==
  ASSUME NEW at \in STRING, NEW rel \in Seq(STRING)
  PROVE  LET name == <<at>> \o rel IN name # << >> /\ name[1] = at /\ Tail(name) = rel
<1> DEFINE one == <<at>>
           name == one \o rel
<1>1. one \in Seq(STRING) /\ Len(one) = 1 /\ one[1] = at
  BY EmptySeq, AppendToPath
<1> HIDE DEF one
<1>2. /\ name \in Seq(STRING) /\ Len(name) = 1 + Len(rel) /\ Len(rel) \in Nat
      /\ \A i \in 1..(1 + Len(rel)) : name[i] = IF i <= 1 THEN one[i] ELSE rel[i - 1]
  <2> DEFINE S == STRING
  <2>1. one \in Seq(S) /\ rel \in Seq(S)
    BY <1>1
  <2> HIDE DEF S
  <2>2. /\ name \in Seq(S) /\ Len(name) = Len(one) + Len(rel)
        /\ \A i \in 1..(Len(one) + Len(rel)) :
             name[i] = IF i <= Len(one) THEN one[i] ELSE rel[i - Len(one)]
    BY <2>1, ConcatProperties
  <2>3. Len(rel) \in Nat
    BY <2>1, LenProperties
  <2> QED BY <1>1, <2>2, <2>3 DEF S
<1> HIDE DEF name
<1>3. name # << >> /\ name[1] = at
  <2>1. Len(name) # 0 /\ 1 \in 1..(1 + Len(rel))
    BY <1>2
  <2>2. name[1] = one[1]
    BY <1>2, <2>1
  <2> QED BY <1>1, <2>1, <2>2, EmptySeq
<1>4. Tail(name) = rel
  <2>1. /\ Tail(name) \in Seq(STRING) /\ Len(Tail(name)) = Len(name) - 1
        /\ \A i \in 1..Len(Tail(name)) : Tail(name)[i] = name[i + 1]
    BY <1>2, <1>3, HeadTailProperties
  <2>2. Len(Tail(name)) = Len(rel)
    BY <1>2, <2>1
  <2>3. ASSUME NEW i \in 1..Len(rel) PROVE Tail(name)[i] = rel[i]
    <3>1. i + 1 \in 1..(1 + Len(rel)) /\ ~(i + 1 <= 1) /\ (i + 1) - 1 = i
      BY <1>2
    <3> QED BY <1>2, <2>1, <2>2, <3>1
  <2> QED BY <2>1, <2>2, <2>3, SeqEqual
<1> QED BY <1>3, <1>4 DEF name, one

LEMMA ResolveHas ==
  ASSUME NEW name, NEW root \in Roots, NEW rel,
         \/ /\ name # << >> /\ name[1] \in DOMAIN RootNamed
            /\ root.name = RootNamed[name[1]] /\ rel \in CleanRelative(Tail(name))
         \/ /\ name = << >> \/ name[1] \notin DOMAIN RootNamed
            /\ root.name = Primary /\ rel \in CleanRelative(name)
  PROVE  \E r \in Resolve(name) : r.root = root /\ r.rel = rel /\ r.path = root.path \o rel
<1> DEFINE at == name # << >> /\ name[1] \in DOMAIN RootNamed
           S == {r \in Roots : r.name = IF at THEN RootNamed[name[1]] ELSE Primary}
           T == CleanRelative(IF at THEN Tail(name) ELSE name)
           It(x, y) == [root |-> x, rel |-> y, path |-> x.path \o y]
<1>1. root \in S /\ rel \in T
  OBVIOUS
<1>2. Resolve(name) = {It(x, y) : x \in S, y \in T}
  BY DEF Resolve
<1>3. It(root, rel).root = root /\ It(root, rel).rel = rel /\ It(root, rel).path = root.path \o rel
  OBVIOUS
<1> HIDE DEF It, S, T
<1> QED BY <1>1, <1>2, <1>3

(* The name a root gives to a path within it resolves to that path.        *)
LEMMA VisibleNameResolves ==
  ASSUME TableInv, NEW root \in Roots, NEW rel \in Seq(STRING), rel # << >>, Proper(rel),
         root.name = Primary => rel[1] \notin DOMAIN RootNamed
  PROVE  \E r \in Resolve(VisibleName(root, rel)) : r.path = root.path \o rel
<1>1. rel \in CleanRelative(rel)
  BY CleanIsItself
<1>2. CASE root.name = Primary
  <2>1. VisibleName(root, rel) = rel
    BY <1>2 DEF VisibleName
  <2> QED BY <1>1, <1>2, <2>1, ResolveHas
<1>3. CASE root.name # Primary
  <2>1. PICK at \in DOMAIN RootNamed :
          at \in STRING /\ RootNamed[at] = root.name /\ VisibleName(root, rel) = <<at>> \o rel
    BY <1>3, MountName
  <2> DEFINE name == <<at>> \o rel
  <2>2. name # << >> /\ name[1] = at /\ Tail(name) = rel
    BY <2>1, TailOfOne
  <2>3. VisibleName(root, rel) = name
    BY <2>1
  <2> HIDE DEF name
  <2>4. PICK r \in Resolve(name) : r.path = root.path \o rel
    <3>1. name # << >> /\ name[1] \in DOMAIN RootNamed
      BY <2>2
    <3>2. root.name = RootNamed[name[1]] /\ rel \in CleanRelative(Tail(name))
      BY <1>1, <2>1, <2>2
    <3> QED BY <3>1, <3>2, ResolveHas
  <2> QED BY <2>3, <2>4
<1> QED BY <1>2, <1>3

(* The name that WriteTempFile answers through a mount is, in whatever     *)
(* root, a name of the file it has made, and there was none before.        *)
THEOREM TempNamesWork ==
  ASSUME Careful
  PROVE  MountSpec => TempNamesResolve
<1> DEFINE Works ==
      (via'.by = "mount" /\ last'.op = "temp" /\ last'.ok /\ via' # via) =>
        \E made \in via'.made : \E r \in Resolve(made) :
          /\ r.path \notin DOMAIN nodes
          /\ r.path \in DOMAIN nodes' /\ ~nodes'[r.path].dir
<1>1. ASSUME MountInv, NEW name \in Names, NEW data \in Contents, MountWriteTempFile(name, data), last'.ok
      PROVE  Works
  <2>1. ~Refuse("temp")
    BY <1>1 DEF Refuse, Answer
  <2>2. PICK r \in Writable(name) :
          /\ WriteTempFile(r.path, data)
          /\ Called({VisibleName(r.root, rel) :
                       rel \in RelativeUnder(r.root.path, Append(r.path, FreeTempName(r.path)))})
    BY <1>1, <2>1 DEF MountWriteTempFile
  <2> DEFINE t == FreeTempName(r.path)
             rel == Append(r.rel, t)
             q == Append(r.path, t)
  <2>3. /\ r.root \in Roots /\ r.root.path \in Seq(STRING)
        /\ r.rel \in Seq(STRING) /\ Proper(r.rel) /\ r.path = r.root.path \o r.rel
        /\ r.path \in Seq(STRING)
        /\ r.root.name = Primary => r.rel # << >> /\ r.rel[1] \notin DOMAIN RootNamed
    BY <1>1, WritableIs, PathIs DEF MountInv
  <2>4. r.path \in Paths
    BY <2>2, <2>3, TempIsNamed
  <2>5. /\ ~Exists(q) /\ t \in STRING /\ t \notin Malformed
        /\ Store("temp", q, {}, data)
    BY <2>1, <2>2, <2>4, TempIs
  <2>6. q \in DOMAIN nodes' /\ nodes'[q].dir = FALSE
    <3>1. nodes' = Put(WithParents(q), q, NewFile(data))
      BY <1>1, <2>5 DEF Store, Answer
    <3>2. NewFile(data).dir = FALSE
      BY DEF NewFile
    <3> QED BY <3>1, <3>2 DEF Put
  <2>7. q = r.root.path \o rel /\ rel \in Seq(STRING) /\ rel # << >>
    <3> HIDE DEF t
    <3>1. /\ Append(r.root.path \o r.rel, t) = r.root.path \o Append(r.rel, t)
          /\ Append(r.rel, t) \in Seq(STRING) /\ Append(r.rel, t) # << >>
      BY <2>3, <2>5, AppendToConcat
    <3> QED BY <2>3, <3>1
  <2>8. /\ Len(rel) = Len(r.rel) + 1 /\ rel[Len(r.rel) + 1] = t
        /\ \A i \in 1..Len(r.rel) : rel[i] = r.rel[i]
        /\ Len(r.rel) \in Nat /\ DOMAIN rel = 1..Len(rel) /\ DOMAIN r.rel = 1..Len(r.rel)
    BY <2>3, <2>5, <2>7, AppendToPath, LenProperties
  <2> HIDE DEF rel, q, t
  <2>9. Proper(rel)
    <3> SUFFICES ASSUME NEW i \in DOMAIN rel PROVE rel[i] \notin Malformed
      BY DEF Proper
    <3>1. i \in 1..Len(r.rel) \/ i = Len(r.rel) + 1
      BY <2>8
    <3> QED BY <2>3, <2>5, <2>8, <3>1 DEF Proper
  <2>10. ASSUME r.root.name = Primary PROVE rel[1] \notin DOMAIN RootNamed
    <3>1. Len(r.rel) # 0
      BY <2>3, <2>10, EmptySeq
    <3>2. 1 \in 1..Len(r.rel)
      BY <2>8, <3>1
    <3> QED BY <2>3, <2>8, <2>10, <3>2
  <2>11. rel \in RelativeUnder(r.root.path, q)
    <3>1. /\ IsPrefix(r.root.path, q) /\ q # r.root.path
          /\ SubSeq(q, Len(r.root.path) + 1, Len(q)) = rel
      BY <2>3, <2>7, PrefixOfConcat
    <3> QED BY <3>1 DEF RelativeUnder
  <2>12. VisibleName(r.root, rel) \in via'.made
    BY <2>2, <2>11 DEF Called, q, t
  <2>13. PICK s \in Resolve(VisibleName(r.root, rel)) : s.path = r.root.path \o rel
    BY <1>1, <2>3, <2>7, <2>9, <2>10, VisibleNameResolves DEF MountInv
  <2>14. s.path \notin DOMAIN nodes /\ s.path \in DOMAIN nodes' /\ ~nodes'[s.path].dir
    BY <2>5, <2>6, <2>7, <2>13 DEF Exists
  <2> QED BY <2>12, <2>14
<1>2. ASSUME MountInv, [MountNext]_mountVars PROVE Works
  <2> SUFFICES ASSUME via'.by = "mount", last'.op = "temp", last'.ok, via' # via PROVE Works
    OBVIOUS
  <2>1. CallsBase
    BY <1>2, StepIs DEF BaseStep
  <2>2. ~(\E name \in Names, data \in Contents, overwrite \in BOOLEAN : MountWriteFile(name, data, overwrite))
    BY DEF MountWriteFile, WriteFile, Store, Refuse, Answer
  <2>3. ~(\E name \in Names, mode \in Modes : MountMkdirAll(name, mode))
    <3> SUFFICES ASSUME NEW name \in Names, NEW mode \in Modes, MountMkdirAll(name, mode) PROVE FALSE
      OBVIOUS
    <3>1. /\ \A paths, good : ~Answer("mkdir", paths, good)
          /\ ~Refuse("mkdir") /\ \A p : ~MkdirAll(p, mode)
      BY DEF MkdirAll, Refuse, Answer
    <3> QED BY <3>1 DEF MountMkdirAll
  <2>4. ~(\E name \in Names : MountRemove(name))
    BY DEF MountRemove, Remove, Refuse, Answer
  <2>5. ~(\E from, to \in Names, overwrite \in BOOLEAN : MountRename(from, to, overwrite))
    BY DEF MountRename, Rename, Refuse, Answer
  <2>6. \E name \in Names, data \in Contents : MountWriteTempFile(name, data)
    BY <2>1, <2>2, <2>3, <2>4, <2>5 DEF CallsBase
  <2> HIDE DEF Works
  <2> QED BY <1>1, <1>2, <2>6
<1>3. MountSpec => [][Works]_mountVars
  <2>1. MountInv /\ [MountNext]_mountVars => [Works]_mountVars
    BY <1>2
  <2> HIDE DEF Works
  <2> QED BY <2>1, MountInvAlways, PTL DEF MountSpec
<1> QED BY <1>3 DEF TempNamesResolve


-----------------------------------------------------------------------------
(* What a reader of the virtual root sees.                                 *)

LEMMA MountsAreListed ==
  ASSUME MountInv, NEW r \in Roots \ PrimaryRoots
  PROVE  {e.dir : e \in {e \in VirtualRootEntries : <<e.name>> = VisibleName(r, << >>)}} = {TRUE}
<1>1. r \in Roots /\ r.name # Primary /\ TableInv
  BY DEF PrimaryRoots, MountInv
<1>2. PICK at : VisibleName(r, << >>) = <<at>> /\ VisibleName(r, << >>)[1] = at
  BY <1>1, MountName
<1> DEFINE it == [name |-> at, dir |-> TRUE]
           found == {e \in VirtualRootEntries : <<e.name>> = VisibleName(r, << >>)}
<1>3. it \in VirtualRootEntries
  BY <1>2 DEF MountEntries, VirtualRootEntries
<1>4. \A e \in VirtualRootEntries : e.name = it.name => e = it
  BY <1>3, EntriesAre
<1>5. it.name = at /\ it.dir = TRUE
  OBVIOUS
<1> HIDE DEF it
<1>6. \A x : <<x>> = <<at>> <=> x = at
  OBVIOUS
<1>7. found = {it}
  BY <1>2, <1>3, <1>4, <1>5, <1>6
<1> HIDE DEF found
<1>8. {e.dir : e \in found} = {TRUE}
  BY <1>5, <1>7
<1> QED BY <1>8 DEF found

LEMMA BaseIsReached ==
  ASSUME MountInv, NEW e \in VirtualRootEntries, e.name \notin DOMAIN RootNamed
  PROVE  \E r \in Resolve(<<e.name>>) : Exists(r.path) /\ IsDir(r.path) = e.dir
<1>1. TableInv /\ Inv
  BY DEF MountInv
<1>2. e \notin MountEntries
  <2> SUFFICES ASSUME NEW r \in Roots \ PrimaryRoots, e = [name |-> VisibleName(r, << >>)[1], dir |-> TRUE]
               PROVE  FALSE
    BY DEF MountEntries
  <2>1. r \in Roots /\ r.name # Primary
    BY DEF PrimaryRoots
  <2> QED BY <1>1, <2>1, MountName
<1>3. PICK r \in PrimaryRoots : e \in BaseEntries(r.path)
  BY <1>2 DEF VirtualRootEntries
<1>4. PICK x \in Listing(r.path) : e = [name |-> x, dir |-> IsDir(Append(r.path, x))]
  BY <1>3 DEF BaseEntries
<1>5. r \in Roots /\ r.name = Primary /\ r.path \in Paths /\ r.path \in Seq(STRING)
  BY <1>1, RootsAre, PathIs DEF PrimaryRoots, RootRecord
<1>6. x \in STRING /\ x \notin Malformed /\ Exists(Append(r.path, x))
  BY <1>1, <1>5, ListingIs
<1>7. e.name = x /\ e.dir = IsDir(Append(r.path, x))
  BY <1>4
<1> DEFINE name == <<x>>
<1>8. name \in Seq(STRING) /\ name # << >> /\ name[1] = x /\ Append(r.path, x) = r.path \o name
  BY <1>5, <1>6, AppendToPath
<1>9. Proper(name)
  BY <1>6 DEF Proper
<1> HIDE DEF name
<1>10. VisibleName(r, name) = name
  BY <1>5 DEF VisibleName
<1>11. \E s \in Resolve(VisibleName(r, name)) : s.path = r.path \o name
  BY <1>1, <1>5, <1>7, <1>8, <1>9, VisibleNameResolves
<1>12. PICK s \in Resolve(name) : s.path = r.path \o name
  BY <1>10, <1>11
<1> QED BY <1>6, <1>7, <1>8, <1>12 DEF name

LEMMA BaseIsListed ==
  ASSUME MountInv, NEW p \in DOMAIN nodes, NEW r \in PrimaryRoots, p # Root, Parent(p) = r.path
  PROVE  \E e \in VirtualRootEntries : e.name = p[Len(p)]
<1> DEFINE x == p[Len(p)]
           it == [name |-> x, dir |-> IsDir(Append(r.path, x))]
<1>1. x \in Listing(r.path)
  BY InvListing DEF ListingAgrees, MountInv
<1>2. it \in BaseEntries(r.path) /\ it.name = x
  BY <1>1 DEF BaseEntries
<1> HIDE DEF it, x
<1>3. CASE \A f \in MountEntries : f.name # it.name
  BY <1>2, <1>3 DEF VirtualRootEntries, x
<1>4. CASE \E f \in MountEntries : f.name = it.name
  BY <1>2, <1>4 DEF VirtualRootEntries, x
<1> QED BY <1>3, <1>4

LEMMA RootsAreNamedOnce ==
  ASSUME TableInv
  PROVE  Cardinality({r.name : r \in Roots}) = Len(roots)
<1> DEFINE n == Len(roots)
           names == {r.name : r \in Roots}
           name == [i \in 1..n |-> roots[i].name]
<1>1. n \in Nat /\ DOMAIN roots = 1..n
  BY LenProperties DEF TableInv
<1>2. names = {roots[i].name : i \in 1..n}
  BY <1>1 DEF Roots
<1>3. DOMAIN name = 1..n /\ \A i \in 1..n : name[i] = roots[i].name
  OBVIOUS
<1>4. \A i, j \in 1..n : name[i] = name[j] => i = j
  BY <1>1, <1>3 DEF TableInv
<1>5. name \in [1..n -> names] /\ \A x \in names : \E i \in 1..n : name[i] = x
  BY <1>2
<1> HIDE DEF name, names, n
<1>6. name \in Bijection(1..n, names)
  BY <1>4, <1>5 DEF Bijection, Injection, Surjection, IsInjective
<1>7. Cardinality(names) = n
  BY <1>1, <1>6, FS_CountingElements DEF ExistsBijection
<1> QED BY <1>7 DEF names, n

(* The virtual root lists every root once and as a directory, and of the   *)
(* primary root exactly what names reach, as what it is there, after any   *)
(* calls through the mounts and on the base.                               *)
THEOREM VirtualRootStaysRight ==
  ASSUME Careful
  PROVE  MountSpec => []VirtualRootAgrees
<1>1. ASSUME MountInv PROVE VirtualRootAgrees
  <2>1. TableInv /\ PagesInv /\ via.by \in {"base", "mount"}
    BY <1>1 DEF MountInv
  <2>2. MountTypeOK
    <3>1. \E spec \in Specs : Len(roots) = Len(spec)
      BY <2>1 DEF TableInv
    <3>2. \A r \in Roots : r.path \in Paths /\ r.access \in {"read_only", "read_write"}
      BY <2>1, RootsAre DEF RootRecord
    <3>3. /\ dir.offset \in 0..Len(dir.entries) /\ dir.open \in BOOLEAN /\ read.eof \in BOOLEAN
          /\ read.panic \in Pages \cup {0}
      <4>1. /\ dir.open \in BOOLEAN /\ read.eof \in BOOLEAN /\ read.panic \in Pages \cup {0}
            /\ dir.offset \in Nat /\ dir.offset <= Len(dir.entries) /\ dir.entries \in Seq(EntryRecord)
        BY <2>1 DEF PagesInv
      <4> QED BY <4>1, LenProperties
    <3> QED BY <2>1, <3>1, <3>2, <3>3, RootsAreNamedOnce DEF MountTypeOK
  <2> QED BY <1>1, <2>2, MountsAreListed, BaseIsReached, BaseIsListed DEF VirtualRootAgrees
<1>2. MountInv => VirtualRootAgrees
  BY <1>1
<1> QED BY <1>2, MountInvAlways, PTL

(* Pages of any sizes yield what the virtual root held when it was opened, *)
(* each entry once and in the order of the names, whatever happens to the  *)
(* base meanwhile, and EOF comes only after all of it; a read that panics  *)
(* yields nothing and is one whose page would end beyond the greatest int. *)
THEOREM PagesStayWhole ==
  ASSUME Careful
  PROVE  MountSpec => []PagingIsWhole
<1>1. ASSUME MountInv PROVE PagingIsWhole
  <2> DEFINE s == dir.entries
             k == dir.offset
             t == SubSeq(s, 1, k)
  <2>1. /\ s \in Seq(EntryRecord) /\ k \in Nat /\ k <= Len(s) /\ read.entries = t
        /\ read.eof => k = Len(s)
        /\ read.panic > 0 => k > 0 /\ k + read.panic > MaxInt
        /\ \A i, j \in 1..Len(s) : i < j => Rank(s[i]) < Rank(s[j])
    BY <1>1 DEF MountInv, PagesInv
  <2> HIDE DEF s, k
  <2>2. Len(s) \in Nat
    BY <2>1, LenProperties
  <2>3. DOMAIN t = 1..k /\ \A i \in 1..k : t[i] = s[i]
    <3>1. \A i \in 1..k : s[i] \in EntryRecord
      BY <2>1, <2>2, ElementOfSeq
    <3>2. t \in Seq(EntryRecord) /\ Len(t) = k /\ \A i \in 1..k : t[i] = s[i]
      BY <2>1, <2>2, <3>1, SubSeqProperties
    <3> HIDE DEF t
    <3> QED BY <3>2, LenProperties
  <2> HIDE DEF t
  <2>4. ASSUME NEW i \in DOMAIN read.entries, NEW j \in DOMAIN read.entries, i < j
        PROVE  Place(read.entries[i].name) < Place(read.entries[j].name)
    <3>1. i \in 1..k /\ j \in 1..k /\ i \in 1..Len(s) /\ j \in 1..Len(s)
      BY <2>1, <2>2, <2>3
    <3>2. Rank(s[i]) < Rank(s[j]) /\ read.entries[i] = s[i] /\ read.entries[j] = s[j]
      BY <2>1, <2>3, <2>4, <3>1
    <3> QED BY <3>2 DEF Rank
  <2>5. /\ read.entries = SubSeq(dir.entries, 1, dir.offset)
        /\ read.eof => dir.offset = Len(dir.entries)
        /\ read.panic > 0 => dir.offset > 0 /\ dir.offset + read.panic > MaxInt
    BY <2>1 DEF s, k, t
  <2> QED BY <2>4, <2>5 DEF PagingIsWhole
<1>2. MountInv => PagingIsWhole
  BY <1>1
<1> QED BY <1>2, MountInvAlways, PTL


-----------------------------------------------------------------------------
(* A walk under way or done, and what its pending entries are.             *)
Items == [path : Paths, dir : BOOLEAN]
OptionRecord ==
  [depth : Nat, limit : Nat, hidden : BOOLEAN, filesOnly : BOOLEAN,
   skip : SUBSET STRING, filter : Seq(STRING)]
WalkRecord ==
  [pc : {"list", "look", "done"}, request : Requests, root : Seq(STRING), at : Seq(STRING),
   options : OptionRecord, pending : Seq((SUBSET Items) \ {{}}), found : SUBSET Items,
   count : Nat, cut : BOOLEAN, failed : BOOLEAN, matches : SUBSET Items]

(* The entries that were listed and not looked at, and that no two         *)
(* directories hold them.                                                  *)
Waiting(pending) == {e \in Items : \E i \in 1..Len(pending) : e \in pending[i]}
HeldOnce(pending) ==
  \A i, j \in 1..Len(pending) : \A e \in pending[i] : e \in pending[j] => i = j

(* A directory the walk may list: the options let it and all above it pass. *)
Passed(w, p) ==
  /\ IsPrefix(w.root, p)
  /\ Len(p) <= Len(w.root) + w.options.depth
  /\ w.options.hidden \/ \A i \in (Len(w.root) + 1)..Len(p) : p[i] \notin Hidden
  /\ \A i \in (Len(w.root) + 1)..Len(p) : p[i] \notin w.options.skip

WalkTypes ==
  /\ ctx \in {"live", "cancelled"}
  /\ walk = Idle \/ walk \in WalkRecord

(* What there was since the walk began, and what is still there.           *)
HistoryInv == walk # Idle => stable \subseteq Entries /\ Entries \subseteq seen

FoundInv ==
  walk # Idle =>
    /\ \A e \in walk.found : Selected(walk, e) /\ e \in seen
    /\ IsFiniteSet(walk.found) /\ Cardinality(walk.found) = walk.count
    /\ walk.count <= walk.options.limit
    /\ walk.matches \subseteq walk.found

Walking == walk # Idle /\ walk.pc \in {"list", "look"}

(* No pending entry lies above another one, above what was found, or on    *)
(* the way to or below the directory that is listed next: so what is met   *)
(* there is met for the first time.                                        *)
FrontierInv ==
  Walking =>
    /\ ~walk.cut /\ ~walk.failed /\ walk.matches = {}
    /\ HeldOnce(walk.pending)
    /\ \A e \in Waiting(walk.pending) :
         /\ e \in seen
         /\ e.path # Root /\ Passed(walk, Parent(e.path))
         /\ \A d \in Waiting(walk.pending) : IsPrefix(e.path, d.path) => d = e
         /\ \A f \in walk.found : ~IsPrefix(e.path, f.path)
    /\ walk.pc = "list" =>
         /\ walk.at \in Paths /\ Passed(walk, walk.at)
         /\ \A e \in Waiting(walk.pending) :
              ~IsPrefix(walk.at, e.path) /\ ~IsPrefix(e.path, walk.at)
         /\ \A f \in walk.found : IsPrefix(walk.at, f.path) => f.path = walk.at

(* The walk still comes to an entry: it waits for it, or for a directory   *)
(* above it, or is about to list one.                                      *)
LeadsTo(e, s) ==
  IsPrefix(e.path, s.path) /\ IF e.path = s.path THEN e = s ELSE e.dir
Ahead(w, s) ==
  \/ \E e \in Waiting(w.pending) : LeadsTo(e, s)
  \/ w.pc = "list" /\ IsPrefix(w.at, s.path) /\ w.at # s.path

CoverInv ==
  Walking => \A s \in stable : Selected(walk, s) => s \in walk.found \/ Ahead(walk, s)

(* What Glob picks from.                                                   *)
Matching(w) ==
  {e \in w.found : Match(Compile(w.request.pattern), Below0(w.root, e.path))
                   \/ Match(Compile(w.request.pattern), e.path)}

DoneInv ==
  (walk # Idle /\ walk.pc = "done" /\ ~walk.failed) =>
    /\ ~walk.cut => \A s \in stable : Selected(walk, s) => s \in walk.found
    /\ (walk.request.kind = "walk" /\ walk.cut) =>
         /\ walk.count = walk.options.limit
         /\ \E e \in seen \ walk.found : Selected(walk, e)
    /\ walk.request.kind = "glob" =>
         /\ walk.matches \subseteq Matching(walk)
         /\ ~walk.cut => walk.matches = Matching(walk)
         /\ Cardinality(walk.matches) <= ResultLimit(walk.request)

WalkInv == Inv /\ WalkTypes /\ HistoryInv /\ FoundInv /\ FrontierInv /\ CoverInv /\ DoneInv
-----------------------------------------------------------------------------
(* Prefixes of paths, and the directories a walk still has to go through.  *)

LEMMA PrefixMeans ==
  ASSUME NEW p \in Seq(STRING), NEW q \in Seq(STRING)
  PROVE  IsPrefix(p, q) <=> Len(p) <= Len(q) /\ \A i \in 1..Len(p) : q[i] = p[i]
<1>1. Len(p) \in Nat /\ Len(q) \in Nat
  OBVIOUS
<1>2. CASE ~(Len(p) <= Len(q))
  BY <1>2 DEF IsPrefix
<1>3. CASE Len(p) <= Len(q)
  <2> DEFINE a == SubSeq(q, 1, Len(p))
  <2>1. Len(p) \in 0..Len(q)
    BY <1>1, <1>3
  <2>2. a \in Seq(STRING) /\ Len(a) = Len(p) /\ \A i \in 1..Len(p) : a[i] = q[i]
    BY <2>1, CutIs
  <2> HIDE DEF a
  <2>3. (\A i \in 1..Len(p) : q[i] = p[i]) => a = p
    BY <2>2, SeqEqual
  <2>4. a = p => \A i \in 1..Len(p) : q[i] = p[i]
    BY <2>2
  <2> QED BY <1>3, <2>3, <2>4 DEF IsPrefix, a
<1> QED BY <1>2, <1>3

(* Prefixes order the paths, and those of one path one another.            *)
LEMMA PrefixesOrder ==
  ASSUME NEW p \in Seq(STRING), NEW q \in Seq(STRING)
  PROVE  /\ IsPrefix(p, p)
         /\ IsPrefix(p, q) => Len(p) <= Len(q)
         /\ IsPrefix(p, q) /\ Len(p) = Len(q) => p = q
         /\ \A r \in Seq(STRING) : IsPrefix(p, q) /\ IsPrefix(q, r) => IsPrefix(p, r)
         /\ \A r \in Seq(STRING) : IsPrefix(p, r) /\ IsPrefix(q, r) /\ Len(p) <= Len(q) => IsPrefix(p, q)
<1>1. Len(p) \in Nat /\ Len(q) \in Nat /\ \A r \in Seq(STRING) : Len(r) \in Nat
  OBVIOUS
<1>2. IsPrefix(p, p)
  BY <1>1, PrefixMeans
<1>3. IsPrefix(p, q) => Len(p) <= Len(q)
  BY DEF IsPrefix
<1>4. IsPrefix(p, q) /\ Len(p) = Len(q) => p = q
  BY SubSeqFull DEF IsPrefix
<1>5. ASSUME NEW r \in Seq(STRING), IsPrefix(p, q), IsPrefix(q, r) PROVE IsPrefix(p, r)
  <2>1. Len(p) <= Len(q) /\ \A i \in 1..Len(p) : q[i] = p[i]
    BY <1>5, PrefixMeans
  <2>2. Len(q) <= Len(r) /\ \A i \in 1..Len(q) : r[i] = q[i]
    BY <1>5, PrefixMeans
  <2>3. Len(p) <= Len(r) /\ \A i \in 1..Len(p) : r[i] = p[i]
    BY <1>1, <2>1, <2>2
  <2> QED BY <2>3, PrefixMeans
<1>6. ASSUME NEW r \in Seq(STRING), IsPrefix(p, r), IsPrefix(q, r), Len(p) <= Len(q)
      PROVE  IsPrefix(p, q)
  <2>1. \A i \in 1..Len(p) : r[i] = p[i]
    BY <1>6, PrefixMeans
  <2>2. \A i \in 1..Len(q) : r[i] = q[i]
    BY <1>6, PrefixMeans
  <2>3. \A i \in 1..Len(p) : q[i] = p[i]
    BY <1>1, <1>6, <2>1, <2>2
  <2> QED BY <1>6, <2>3, PrefixMeans
<1> QED BY <1>2, <1>3, <1>4, <1>5, <1>6

(* A path and one name more.                                               *)
LEMMA ChildIs ==
  ASSUME NEW p \in Seq(STRING), NEW x \in STRING
  PROVE  LET c == Append(p, x) IN
         /\ c \in Seq(STRING) /\ c # Root /\ Len(c) = Len(p) + 1
         /\ Parent(c) = p /\ Base(c) = x /\ IsPrefix(p, c) /\ ~IsPrefix(c, p)
         /\ \A q \in Seq(STRING) : IsPrefix(q, c) => IsPrefix(q, p) \/ q = c
         /\ \A q \in Seq(STRING) :
              IsPrefix(p, q) /\ Len(q) > Len(p) /\ q[Len(p) + 1] = x => IsPrefix(c, q)
<1> DEFINE c == Append(p, x)
<1>1. /\ c \in Seq(STRING) /\ c # Root /\ Len(c) = Len(p) + 1 /\ c[Len(p) + 1] = x
      /\ IsPrefix(p, c) /\ Len(p) \in Nat /\ \A i \in 1..Len(p) : c[i] = p[i]
  BY AppendToPath, LenProperties DEF Root
<1> HIDE DEF c
<1>2. Base(c) = x
  BY <1>1 DEF Base
<1>3. Len(c) - 1 = Len(p)
  BY <1>1
<1>4. Parent(c) = p
  BY <1>1, <1>3 DEF Parent, IsPrefix
<1>5. ~IsPrefix(c, p)
  BY <1>1 DEF IsPrefix
<1>6. ASSUME NEW q \in Seq(STRING), IsPrefix(q, c) PROVE IsPrefix(q, p) \/ q = c
  <2>1. Len(q) \in Nat /\ Len(q) <= Len(c)
    BY <1>6 DEF IsPrefix
  <2>2. CASE Len(q) = Len(c)
    BY <1>1, <1>6, <2>2, PrefixesOrder
  <2>3. CASE Len(q) <= Len(p)
    BY <1>1, <1>6, <2>3, PrefixesOrder
  <2> QED BY <1>1, <2>1, <2>2, <2>3
<1>7. ASSUME NEW q \in Seq(STRING), IsPrefix(p, q), Len(q) > Len(p), q[Len(p) + 1] = x
      PROVE  IsPrefix(c, q)
  <2>1. Len(q) \in Nat /\ \A i \in 1..Len(p) : q[i] = p[i]
    BY <1>7, PrefixMeans
  <2>2. Len(c) <= Len(q)
    BY <1>1, <1>7, <2>1
  <2>3. ASSUME NEW i \in 1..Len(c) PROVE q[i] = c[i]
    <3>1. i \in 1..Len(p) \/ i = Len(p) + 1
      BY <1>1
    <3> QED BY <1>1, <1>7, <2>1, <3>1
  <2> QED BY <1>1, <2>2, <2>3, PrefixMeans
<1> QED BY <1>1, <1>2, <1>4, <1>5, <1>6, <1>7 DEF c

LEMMA ParentIs ==
  ASSUME NEW p \in Seq(STRING), p # Root
  PROVE  /\ Parent(p) \in Seq(STRING) /\ Len(p) \in Nat \ {0} /\ Len(Parent(p)) = Len(p) - 1
         /\ IsPrefix(Parent(p), p) /\ \A i \in 1..(Len(p) - 1) : Parent(p)[i] = p[i]
<1>1. Len(p) \in Nat \ {0} /\ Len(p) - 1 \in 0..Len(p)
  BY EmptySeq DEF Root
<1>2. /\ Parent(p) \in Seq(STRING) /\ Len(Parent(p)) = Len(p) - 1
      /\ \A i \in 1..(Len(p) - 1) : Parent(p)[i] = p[i]
  BY <1>1, CutIs DEF Parent
<1>3. Len(Parent(p)) <= Len(p)
  BY <1>1, <1>2
<1> QED BY <1>1, <1>2, <1>3 DEF IsPrefix, Parent

(* One directory more to go through.                                       *)
LEMMA WaitingMore ==
  ASSUME NEW pending \in Seq((SUBSET Items) \ {{}}), NEW level \in (SUBSET Items) \ {{}},
         HeldOnce(pending), level \cap Waiting(pending) = {}
  PROVE  /\ Append(pending, level) \in Seq((SUBSET Items) \ {{}})
         /\ Waiting(Append(pending, level)) = Waiting(pending) \cup level
         /\ HeldOnce(Append(pending, level))
<1> DEFINE L == (SUBSET Items) \ {{}}
           n == Len(pending)
           more == Append(pending, level)
<1>1. pending \in Seq(L) /\ level \in L
  OBVIOUS
<1> HIDE DEF L
<1>2. /\ more \in Seq(L) /\ Len(more) = n + 1 /\ more[n + 1] = level
      /\ \A i \in 1..n : more[i] = pending[i]
      /\ n \in Nat
  BY <1>1, AppendProperties, LenProperties
<1> HIDE DEF more, n
<1>3. \A i \in 1..(n + 1) : i \in 1..n \/ i = n + 1
  BY <1>2
<1>4. \A e : (\E i \in 1..(n + 1) : e \in more[i]) <=> (\E i \in 1..n : e \in pending[i]) \/ e \in level
  <2>1. \A i \in 1..n : i \in 1..(n + 1)
    BY <1>2
  <2>2. n + 1 \in 1..(n + 1)
    BY <1>2
  <2> QED BY <1>2, <1>3, <2>1, <2>2
<1>5. Waiting(more) = Waiting(pending) \cup level
  BY <1>2, <1>4 DEF Waiting, n
<1>6. HeldOnce(more)
  <2> SUFFICES ASSUME NEW i \in 1..(n + 1), NEW j \in 1..(n + 1), NEW e,
                      e \in more[i], e \in more[j]
               PROVE  i = j
    BY <1>2 DEF HeldOnce
  <2>1. \A k \in 1..n : pending[k] \in L
    BY <1>1, ElementOfSeq DEF n
  <2>2. \A k \in 1..n : e \in pending[k] => e \in Waiting(pending)
    BY <2>1 DEF Waiting, L, n
  <2>3. e \in level => e \notin Waiting(pending)
    OBVIOUS
  <2>4. CASE i \in 1..n /\ j \in 1..n
    BY <1>2, <2>4 DEF HeldOnce, n
  <2>5. CASE i \in 1..n /\ j = n + 1
    BY <1>2, <2>2, <2>3, <2>5
  <2>6. CASE i = n + 1 /\ j \in 1..n
    BY <1>2, <2>2, <2>3, <2>6
  <2> QED BY <1>3, <2>4, <2>5, <2>6
<1> QED BY <1>2, <1>5, <1>6 DEF more, L

(* One entry less of the directory that is gone through.                   *)
LEMMA WaitingLess ==
  ASSUME NEW pending \in Seq((SUBSET Items) \ {{}}), pending # << >>, HeldOnce(pending),
         NEW e \in pending[Len(pending)]
  PROVE  /\ Without(pending, e) \in Seq((SUBSET Items) \ {{}})
         /\ Waiting(Without(pending, e)) = Waiting(pending) \ {e}
         /\ HeldOnce(Without(pending, e))
         /\ e \in Items /\ e \in Waiting(pending)
<1> DEFINE L == (SUBSET Items) \ {{}}
           n == Len(pending)
           rest == pending[n] \ {e}
           less == Without(pending, e)
<1>1. pending \in Seq(L)
  OBVIOUS
<1>2. \A S : S \in L <=> S \in SUBSET Items /\ S # {}
  <2> SUFFICES ASSUME NEW S PROVE S \in L <=> S \in SUBSET Items /\ S # {}
    OBVIOUS
  <2>1. S \in {{}} <=> S = {}
    OBVIOUS
  <2> QED BY <2>1
<1> HIDE DEF L
<1>3. n \in Nat \ {0} /\ n \in 1..n /\ \A i \in 1..n : pending[i] \in L
  <2>1. n \in Nat \ {0}
    BY <1>1, EmptySeq
  <2> QED BY <1>1, <2>1, ElementOfSeq
<1>4. /\ e \in Items /\ e \in Waiting(pending)
      /\ \A i \in 1..n : e \in pending[i] => i = n
  BY <1>2, <1>3 DEF Waiting, HeldOnce
<1>5. \A x : x \in Waiting(pending) <=> \E i \in 1..n : x \in pending[i]
  BY <1>2, <1>3 DEF Waiting
<1>6. CASE rest = {}
  <2>1. less = SubSeq(pending, 1, n - 1)
    BY <1>6 DEF Without
  <2>2. less \in Seq(L) /\ Len(less) = n - 1 /\ \A i \in 1..(n - 1) : less[i] = pending[i]
    <3>1. 1 \in Int /\ n - 1 \in Int /\ \A i \in 1..(n - 1) : pending[i] \in L
      BY <1>3
    <3>2. /\ SubSeq(pending, 1, n - 1) \in Seq(L)
          /\ Len(SubSeq(pending, 1, n - 1)) = IF 1 <= n - 1 THEN n - 1 - 1 + 1 ELSE 0
          /\ \A i \in 1..(n - 1 - 1 + 1) : SubSeq(pending, 1, n - 1)[i] = pending[1 + i - 1]
      BY <3>1, SubSeqProperties
    <3> HIDE DEF n, less
    <3>3. n - 1 - 1 + 1 = n - 1 /\ (IF 1 <= n - 1 THEN n - 1 - 1 + 1 ELSE 0) = n - 1
          /\ \A i \in 1..(n - 1) : 1 + i - 1 = i
      BY <1>3
    <3> QED BY <2>1, <3>2, <3>3
  <2> HIDE DEF less, n
  <2>3. \A i : i \in 1..n <=> i \in 1..(n - 1) \/ i = n
    BY <1>3
  <2>4. pending[n] = {e}
    BY <1>6, <1>3 DEF n
  <2>5. \A i \in 1..(n - 1) : e \notin less[i]
    <3>1. \A i \in 1..(n - 1) : i # n /\ i \in 1..n
      BY <1>3
    <3> QED BY <1>4, <2>2, <3>1
  <2>6. Waiting(less) = Waiting(pending) \ {e}
    <3>1. \A x : x \in Waiting(less) <=> \E i \in 1..(n - 1) : x \in less[i]
      BY <1>2, <1>3, <2>2, <2>3 DEF Waiting
    <3>2. \A x : x \in Waiting(less) => x \in Waiting(pending) /\ x # e
      BY <1>5, <2>2, <2>3, <2>5, <3>1
    <3>3. \A x : x \in Waiting(pending) /\ x # e => x \in Waiting(less)
      BY <1>5, <2>2, <2>3, <2>4, <3>1
    <3> QED BY <3>2, <3>3
  <2>7. HeldOnce(less)
    <3> SUFFICES ASSUME NEW i \in 1..(n - 1), NEW j \in 1..(n - 1), NEW x,
                        x \in less[i], x \in less[j]
                 PROVE  i = j
      BY <2>2 DEF HeldOnce
    <3>1. i \in 1..n /\ j \in 1..n /\ x \in pending[i] /\ x \in pending[j]
      BY <2>2, <2>3
    <3> QED BY <3>1 DEF HeldOnce, n
  <2> QED BY <1>4, <2>2, <2>6, <2>7 DEF less, L
<1>7. CASE rest # {}
  <2>1. less = [pending EXCEPT ![n] = rest]
    BY <1>7 DEF Without
  <2>2. rest \in L
    BY <1>2, <1>3, <1>7
  <2>3. less \in Seq(L) /\ Len(less) = n /\ less[n] = rest /\ \A i \in 1..n : i # n => less[i] = pending[i]
    BY <1>1, <1>3, <2>1, <2>2, ExceptSeq
  <2> HIDE DEF less
  <2>4. \A i \in 1..n : less[i] = pending[i] \ {e}
    <3>1. ASSUME NEW i \in 1..n, i # n PROVE less[i] = pending[i] \ {e}
      BY <1>4, <2>3, <3>1
    <3> QED BY <2>3, <3>1
  <2>5. Waiting(less) = Waiting(pending) \ {e}
    <3>1. \A x : x \in Waiting(less) <=> \E i \in 1..n : x \in less[i]
      BY <1>2, <1>3, <2>3, <2>4 DEF Waiting
    <3> QED BY <1>5, <2>4, <3>1
  <2>6. HeldOnce(less)
    BY <2>3, <2>4 DEF HeldOnce
  <2> QED BY <1>4, <2>3, <2>5, <2>6 DEF less, L
<1> QED BY <1>6, <1>7

(* A set of items by what it holds.                                        *)
LEMMA NothingWaits == Waiting(<< >>) = {} /\ HeldOnce(<< >>) /\ << >> \in Seq((SUBSET Items) \ {{}})
<1>1. Len(<< >>) = 0 /\ << >> \in Seq((SUBSET Items) \ {{}})
  BY EmptySeq
<1>2. 1..0 = {}
  OBVIOUS
<1> QED BY <1>1, <1>2 DEF Waiting, HeldOnce

-----------------------------------------------------------------------------
(* The entries of the map.                                                 *)

LEMMA EntriesHere ==
  ASSUME Whole(nodes)
  PROVE  /\ \A p : IsDir(p) <=> DirIn(nodes, p)
         /\ Entries \subseteq Items
         /\ \A p \in DOMAIN nodes : Entry(p) \in Entries /\ Entry(p).path = p /\ Entry(p).dir = IsDir(p)
         /\ \A e \in Entries : e.path \in DOMAIN nodes /\ e = Entry(e.path) /\ e.dir = IsDir(e.path)
         /\ \A e \in Items : e.path \in Paths /\ e.path \in Seq(STRING) /\ e.dir \in BOOLEAN
<1>1. \A p : IsDir(p) <=> DirIn(nodes, p)
  BY Kind
<1>2. \A p : IsDir(p) \in BOOLEAN
  BY <1>1 DEF DirIn, IsDir, Exists
<1>3. \A p : Entry(p).path = p /\ Entry(p).dir = IsDir(p)
  BY DEF Entry
<1>4. \A p \in DOMAIN nodes : Entry(p) \in Entries /\ Entry(p) \in Items
  <2> SUFFICES ASSUME NEW p \in DOMAIN nodes PROVE Entry(p) \in Entries /\ Entry(p) \in Items
    OBVIOUS
  <2>1. p \in Paths
    BY DEF Whole
  <2>2. Entry(p) \in Items
    BY <1>2, <2>1 DEF Entry, Items
  <2> QED BY <2>2 DEF Entries
<1>5. \A e \in Entries : \E p \in DOMAIN nodes : e = Entry(p)
  BY DEF Entries
<1>6. \A e \in Items : e.path \in Paths /\ e.path \in Seq(STRING) /\ e.dir \in BOOLEAN
  BY PathsAssumption DEF Items
<1> QED BY <1>1, <1>3, <1>4, <1>5, <1>6

-----------------------------------------------------------------------------
(* What the options select, said of the elements of a path.                *)

LEMMA RelativeIs ==
  ASSUME NEW root \in Seq(STRING), NEW p \in Seq(STRING), IsPrefix(root, p)
  PROVE  /\ Below0(root, p) \in Seq(STRING)
         /\ Len(Below0(root, p)) = Len(p) - Len(root)
         /\ DOMAIN Below0(root, p) = 1..(Len(p) - Len(root))
         /\ \A i \in 1..(Len(p) - Len(root)) : Below0(root, p)[i] = p[Len(root) + i]
         /\ Below0(root, p) # << >> <=> Len(p) > Len(root)
<1> DEFINE m == Len(root)
           n == Len(p)
           rel == Below0(root, p)
<1>1. m \in Nat /\ n \in Nat /\ m <= n
  BY LenProperties DEF IsPrefix
<1>2. rel = SubSeq(p, m + 1, n)
  BY DEF Below0
<1>3. \A i \in (m + 1)..n : p[i] \in STRING
  <2>1. \A i \in (m + 1)..n : i \in 1..Len(p)
    BY <1>1
  <2> QED BY <2>1, ElementOfSeq
<1> HIDE DEF m, n, rel
<1>4. /\ rel \in Seq(STRING)
      /\ Len(rel) = IF m + 1 <= n THEN n - (m + 1) + 1 ELSE 0
      /\ \A i \in 1..(n - (m + 1) + 1) : rel[i] = p[(m + 1) + i - 1]
  <2>1. m + 1 \in Int /\ n \in Int
    BY <1>1
  <2> QED BY <1>2, <1>3, <2>1, SubSeqProperties
<1>5. (IF m + 1 <= n THEN n - (m + 1) + 1 ELSE 0) = n - m /\ n - (m + 1) + 1 = n - m
  BY <1>1
<1>6. Len(rel) = n - m /\ \A i \in 1..(n - m) : rel[i] = p[m + i]
  <2>1. \A i \in 1..(n - m) : (m + 1) + i - 1 = m + i
    BY <1>1
  <2> QED BY <1>4, <1>5, <2>1
<1>7. rel # << >> <=> n > m
  <2>1. rel = << >> => Len(rel) = 0
    BY EmptySeq
  <2>2. rel # << >> => Len(rel) \in Nat \ {0}
    BY <1>4, EmptySeq
  <2> QED BY <1>1, <1>6, <2>1, <2>2
<1>8. DOMAIN rel = 1..(n - m)
  BY <1>4, <1>6, LenProperties
<1> QED BY <1>4, <1>6, <1>7, <1>8 DEF m, n, rel

(* The names below the root by their places in the path.                   *)
LEMMA SelectedMeans ==
  ASSUME NEW w, w.root \in Seq(STRING), NEW e \in Items
  PROVE  Selected(w, e) <=>
           /\ IsPrefix(w.root, e.path) /\ Len(e.path) > Len(w.root)
           /\ Len(e.path) - Len(w.root) <= w.options.depth
           /\ \/ w.options.hidden
              \/ \A i \in (Len(w.root) + 1)..Len(e.path) : e.path[i] \notin Hidden
           /\ \A i \in (Len(w.root) + 1)..Len(e.path) :
                e.dir \/ i # Len(e.path) => e.path[i] \notin w.options.skip
           /\ Wanted(w, e)
<1> DEFINE root == w.root
           p == e.path
           m == Len(root)
           n == Len(p)
           rel == Below0(root, p)
<1>1. p \in Seq(STRING) /\ root \in Seq(STRING) /\ m \in Nat /\ n \in Nat
  BY PathsAssumption DEF Items
<1>2. CASE ~IsPrefix(root, p)
  BY <1>2 DEF Selected
<1>3. CASE IsPrefix(root, p)
  <2>1. /\ Len(rel) = n - m /\ DOMAIN rel = 1..(n - m)
        /\ \A i \in 1..(n - m) : rel[i] = p[m + i]
        /\ rel # << >> <=> n > m
    BY <1>1, <1>3, RelativeIs
  <2>2. m <= n
    BY <1>3 DEF IsPrefix
  <2>3. Selected(w, e) <=>
          /\ n > m /\ n - m <= w.options.depth
          /\ w.options.hidden \/ \A i \in DOMAIN rel : rel[i] \notin Hidden
          /\ \A i \in (IF e.dir THEN DOMAIN rel ELSE 1..(Len(rel) - 1)) : rel[i] \notin w.options.skip
          /\ Wanted(w, e)
    BY <1>3, <2>1 DEF Selected
  <2> HIDE DEF root, p, m, n, rel
  <2>4. /\ \A i \in 1..(n - m) : m + i \in (m + 1)..n
        /\ \A i \in (m + 1)..n : i - m \in 1..(n - m) /\ m + (i - m) = i
        /\ \A i \in 1..(n - m - 1) : m + i # n /\ i \in 1..(n - m)
        /\ \A i \in (m + 1)..n : i # n => i - m \in 1..(n - m - 1)
    BY <1>1, <2>2
  <2>5. (\A i \in DOMAIN rel : rel[i] \notin Hidden) <=> (\A i \in (m + 1)..n : p[i] \notin Hidden)
    <3>1. \A i \in 1..(n - m) : rel[i] = p[m + i] /\ m + i \in (m + 1)..n
      BY <2>1, <2>4
    <3>2. \A i \in (m + 1)..n : i - m \in 1..(n - m) /\ rel[i - m] = p[i]
      <4> SUFFICES ASSUME NEW i \in (m + 1)..n PROVE i - m \in 1..(n - m) /\ rel[i - m] = p[i]
        OBVIOUS
      <4>1. i - m \in 1..(n - m) /\ m + (i - m) = i
        BY <2>4
      <4>2. rel[i - m] = p[m + (i - m)]
        BY <2>1, <4>1
      <4> QED BY <4>1, <4>2
    <3> QED BY <2>1, <3>1, <3>2
  <2>6. (\A i \in (IF e.dir THEN DOMAIN rel ELSE 1..(Len(rel) - 1)) : rel[i] \notin w.options.skip)
          <=> (\A i \in (m + 1)..n : e.dir \/ i # n => p[i] \notin w.options.skip)
    <3>2. \A i \in (m + 1)..n : i - m \in 1..(n - m) /\ rel[i - m] = p[i]
      <4> SUFFICES ASSUME NEW i \in (m + 1)..n PROVE i - m \in 1..(n - m) /\ rel[i - m] = p[i]
        OBVIOUS
      <4>1. i - m \in 1..(n - m) /\ m + (i - m) = i
        BY <2>4
      <4>2. rel[i - m] = p[m + (i - m)]
        BY <2>1, <4>1
      <4> QED BY <4>1, <4>2
    <3>1. CASE e.dir
      <4>1. \A i \in 1..(n - m) : rel[i] = p[m + i] /\ m + i \in (m + 1)..n
        BY <2>1, <2>4
      <4> QED BY <2>1, <3>1, <3>2, <4>1
    <3>3. CASE ~e.dir
      <4>1. \A i \in 1..(n - m - 1) : rel[i] = p[m + i] /\ m + i \in (m + 1)..n /\ m + i # n
        BY <2>1, <2>4
      <4>2. \A i \in (m + 1)..n : i # n => i - m \in 1..(n - m - 1)
        BY <2>4
      <4> QED BY <2>1, <3>2, <3>3, <4>1, <4>2
    <3> QED BY <3>1, <3>3
  <2>7. IsPrefix(root, p)
    BY <1>3 DEF root, p
  <2>8. Selected(w, e) <=>
          /\ n > m /\ n - m <= w.options.depth
          /\ w.options.hidden \/ \A i \in (m + 1)..n : p[i] \notin Hidden
          /\ \A i \in (m + 1)..n : e.dir \/ i # n => p[i] \notin w.options.skip
          /\ Wanted(w, e)
    BY <2>3, <2>5, <2>6
  <2> QED BY <2>7, <2>8 DEF root, p, m, n
<1> QED BY <1>2, <1>3

(* What is not passed over below a directory that is listed: a directory   *)
(* may be listed itself, and an entry that is wanted is selected.          *)
LEMMA PassesOn ==
  ASSUME NEW w, w.root \in Seq(STRING), w.options \in OptionRecord,
         NEW e \in Items, e.path # Root, Passed(w, Parent(e.path)),
         ~TooDeep(w, e), ~IsHidden(w, e), ~Skipped(w, e)
  PROVE  /\ e.dir => Passed(w, e.path)
         /\ Wanted(w, e) => Selected(w, e)
<1> DEFINE root == w.root
           p == e.path
           up == Parent(p)
           m == Len(root)
           n == Len(p)
<1>1. /\ p \in Seq(STRING) /\ root \in Seq(STRING) /\ up \in Seq(STRING)
      /\ m \in Nat /\ n \in Nat \ {0} /\ Len(up) = n - 1 /\ IsPrefix(up, p)
      /\ \A i \in 1..(n - 1) : up[i] = p[i]
  BY PathsAssumption, ParentIs DEF Items
<1>2. /\ IsPrefix(root, up) /\ IsPrefix(root, p) /\ m <= n - 1
      /\ \A i \in (m + 1)..(n - 1) : p[i] \notin w.options.skip
      /\ w.options.hidden \/ \A i \in (m + 1)..(n - 1) : p[i] \notin Hidden
  <2>1. IsPrefix(root, up) /\ IsPrefix(root, p)
    BY <1>1, PrefixesOrder DEF Passed
  <2>2. m <= n - 1
    BY <1>1, <2>1, PrefixesOrder
  <2>3. \A i \in (m + 1)..(n - 1) : i \in 1..(n - 1) /\ i \in (m + 1)..Len(up)
    BY <1>1
  <2> HIDE DEF root, p, up, m, n
  <2>4. /\ w.options.hidden \/ \A i \in (m + 1)..Len(up) : up[i] \notin Hidden
        /\ \A i \in (m + 1)..Len(up) : up[i] \notin w.options.skip
    BY DEF Passed, root, p, up, m
  <2> QED BY <1>1, <2>1, <2>2, <2>3, <2>4
<1>3. Len(Below0(root, p)) = n - m
  BY <1>1, <1>2, RelativeIs
<1>4. w.options.depth \in Nat /\ n - m <= w.options.depth
  <2>1. w.options.depth \in Nat
    BY DEF OptionRecord
  <2> DEFINE d == w.options.depth
  <2>2. ~(n - m > d)
    BY <1>3 DEF TooDeep
  <2> HIDE DEF d, m, n
  <2>3. d \in Nat
    BY <2>1 DEF d
  <2>4. n - m <= d
    BY <1>1, <2>2, <2>3
  <2> QED BY <2>1, <2>4 DEF d
<1>5. /\ w.options.hidden \/ p[n] \notin Hidden
      /\ e.dir => p[n] \notin w.options.skip
  BY DEF IsHidden, Skipped, Base
<1>6. \A i \in (m + 1)..n : i \in (m + 1)..(n - 1) \/ i = n
  BY <1>1
<1> HIDE DEF root, p, m, n, up
<1>7. /\ w.options.hidden \/ \A i \in (m + 1)..n : p[i] \notin Hidden
      /\ \A i \in (m + 1)..n : e.dir \/ i # n => p[i] \notin w.options.skip
  BY <1>2, <1>5, <1>6
<1>8. e.dir => Passed(w, p)
  <2>1. n <= m + w.options.depth
    BY <1>1, <1>4
  <2> QED BY <1>2, <1>7, <2>1 DEF Passed, root, m, n
<1>9. Wanted(w, e) => Selected(w, e)
  <2>1. n > m
    BY <1>1, <1>2
  <2> QED BY <1>1, <1>2, <1>4, <1>7, <2>1, SelectedMeans DEF root, p, m, n
<1> QED BY <1>8, <1>9 DEF p

(* The options pass nothing over on the way to an entry they select.       *)
LEMMA WayIsOpen ==
  ASSUME NEW w, w.root \in Seq(STRING), w.options \in OptionRecord,
         NEW e \in Items, IsPrefix(w.root, e.path), Len(e.path) > Len(w.root),
         NEW s \in Items, LeadsTo(e, s), Selected(w, s)
  PROVE  /\ ~TooDeep(w, e) /\ ~IsHidden(w, e) /\ ~Skipped(w, e)
         /\ e = s \/ (e.dir /\ e.path # s.path)
         /\ e = s => Wanted(w, e)
<1> DEFINE root == w.root
           p == e.path
           q == s.path
           m == Len(root)
           n == Len(p)
           k == Len(q)
<1>1. /\ p \in Seq(STRING) /\ q \in Seq(STRING) /\ root \in Seq(STRING)
      /\ m \in Nat /\ n \in Nat /\ k \in Nat /\ n > m
  BY PathsAssumption DEF Items
<1>2. IsPrefix(p, q) /\ (e = s \/ (e.dir /\ p # q))
  BY DEF LeadsTo
<1>3. n <= k /\ \A i \in 1..n : q[i] = p[i]
  BY <1>1, <1>2, PrefixMeans
<1>4. n \in (m + 1)..k /\ n \in 1..n
  BY <1>1, <1>3
<1>5. /\ k - m <= w.options.depth
      /\ w.options.hidden \/ \A i \in (m + 1)..k : q[i] \notin Hidden
      /\ \A i \in (m + 1)..k : s.dir \/ i # k => q[i] \notin w.options.skip
      /\ Wanted(w, s)
  BY SelectedMeans
<1>6. w.options.depth \in Nat /\ Len(Below0(root, p)) = n - m
  BY <1>1, RelativeIs DEF OptionRecord
<1>7. ~TooDeep(w, e)
  <2> DEFINE d == w.options.depth
  <2>1. d \in Nat /\ k - m <= d
    BY <1>5, <1>6
  <2> HIDE DEF d, m, n, k
  <2>2. ~(n - m > d)
    BY <1>1, <1>3, <2>1
  <2> QED BY <1>6, <2>2 DEF TooDeep, d, m, n
<1>8. ~IsHidden(w, e)
  BY <1>3, <1>4, <1>5 DEF IsHidden, Base
<1>9. ~Skipped(w, e)
  <2> SUFFICES ASSUME e.dir PROVE p[n] \notin w.options.skip
    BY DEF Skipped, Base
  <2>1. CASE e = s
    BY <1>4, <1>5, <2>1
  <2>2. CASE p # q
    <3>1. n # k
      BY <1>1, <1>2, <2>2, PrefixesOrder
    <3> QED BY <1>3, <1>4, <1>5, <3>1
  <2> QED BY <1>2, <2>1, <2>2
<1> QED BY <1>2, <1>5, <1>7, <1>8, <1>9

-----------------------------------------------------------------------------
(* What the steps of a walk make of its record.                            *)
Same(w, v) == v.request = w.request /\ v.root = w.root /\ v.options = w.options

LEMMA SameSelects ==
  ASSUME NEW w, NEW v, Same(w, v)
  PROVE  /\ \A e : Selected(v, e) <=> Selected(w, e)
         /\ \A p : Passed(v, p) <=> Passed(w, p)
         /\ \A e : TooDeep(v, e) <=> TooDeep(w, e)
<1>1. v.root = w.root /\ v.options = w.options
  BY DEF Same
<1>2. \A e : Wanted(v, e) <=> Wanted(w, e)
  BY <1>1 DEF Wanted
<1>3. \A e : Selected(v, e) <=> Selected(w, e)
  BY <1>1, <1>2 DEF Selected
<1>4. \A p : Passed(v, p) <=> Passed(w, p)
  BY <1>1 DEF Passed
<1> QED BY <1>1, <1>3, <1>4 DEF TooDeep

LEMMA RequestIs ==
  ASSUME NEW r \in Requests
  PROVE  /\ r.kind \in {"walk", "glob"}
         /\ r.kind = "walk" => WalkOptions(r) \in OptionRecord
         /\ r.kind = "glob" => GlobOptions(r) \in OptionRecord
         /\ ResultLimit(r) \in Nat
<1>1. r \in RequestSet
  BY RequestsAssumption
<1>2. CASE r.kind = "walk"
  <2>1. /\ r.depth \in Nat /\ r.limit \in Nat /\ r.hidden \in BOOLEAN /\ r.filesOnly \in BOOLEAN
        /\ r.skip \in SUBSET STRING /\ r.filter \in Seq(STRING)
    BY <1>1, <1>2 DEF RequestSet
  <2>2. WalkOptions(r) \in OptionRecord
    BY <2>1 DEF WalkOptions, OptionRecord
  <2>3. ResultLimit(r) \in Nat
    BY <2>1 DEF ResultLimit
  <2> QED BY <1>2, <2>2, <2>3
<1>3. CASE r.kind = "glob"
  <2>1. r.scan \in Nat /\ r.limit \in Nat /\ r.skip \in SUBSET STRING
    BY <1>1, <1>3 DEF RequestSet
  <2>2. << >> \in Seq(STRING)
    BY EmptySeq
  <2>3. GlobOptions(r) \in OptionRecord
    BY <2>1, <2>2 DEF GlobOptions, WalkOptions, OptionRecord
  <2>4. ResultLimit(r) \in Nat
    BY <2>1 DEF ResultLimit
  <2> QED BY <1>3, <2>3, <2>4
<1>4. r.kind \in {"walk", "glob"}
  BY <1>1 DEF RequestSet
<1> QED BY <1>2, <1>3, <1>4

LEMMA RecordIs ==
  ASSUME NEW w \in WalkRecord
  PROVE  /\ w # Idle /\ w.pc \in {"list", "look", "done"}
         /\ w.request \in Requests /\ w.root \in Seq(STRING) /\ w.at \in Seq(STRING)
         /\ w.options \in OptionRecord /\ w.pending \in Seq((SUBSET Items) \ {{}})
         /\ w.found \subseteq Items /\ w.count \in Nat /\ w.cut \in BOOLEAN
         /\ w.failed \in BOOLEAN /\ w.matches \subseteq Items
BY DEF WalkRecord, Idle

(* Finish answers a walk with what it found, and Glob with what matches of *)
(* that, all of it or as much as the limit allows.                         *)
Ended(w, failed) ==
  /\ walk' \in WalkRecord /\ walk'.pc = "done" /\ walk'.failed = failed
  /\ Same(w, walk') /\ walk'.found = w.found /\ walk'.count = w.count
  /\ w.cut => walk'.cut
  /\ (w.request.kind = "walk" \/ failed) => walk'.cut = w.cut /\ walk'.matches = w.matches
  /\ (w.request.kind = "glob" /\ ~failed) =>
       /\ walk'.matches \subseteq Matching(w)
       /\ ~walk'.cut => walk'.matches = Matching(w)
       /\ Cardinality(walk'.matches) <= ResultLimit(w.request)

LEMMA FinishIs ==
  ASSUME NEW w \in WalkRecord, IsFiniteSet(w.found), w.failed = FALSE, NEW failed \in BOOLEAN, Finish(w, failed)
  PROVE  Ended(w, failed)
<1> DEFINE M == Matching(w)
           limit == ResultLimit(w.request)
<1>1. M \subseteq w.found /\ M \subseteq Items /\ w.request \in Requests /\ w.cut \in BOOLEAN
  BY RecordIs DEF Matching
<1>2. limit \in Nat /\ w.request.kind \in {"walk", "glob"}
  BY <1>1, RequestIs
<1>3. IsFiniteSet(M) /\ Cardinality(M) \in Nat
  BY <1>1, FS_Subset, FS_CardinalityType
<1>4. CASE w.request.kind = "walk" \/ failed
  <2>1. walk' = [w EXCEPT !.pc = "done", !.failed = failed]
    BY <1>4 DEF Finish
  <2>2. walk' \in WalkRecord /\ walk'.pc = "done" /\ walk'.failed = failed
    BY <2>1 DEF WalkRecord
  <2>3. /\ Same(w, walk') /\ walk'.found = w.found /\ walk'.count = w.count
        /\ walk'.cut = w.cut /\ walk'.matches = w.matches
    BY <2>1 DEF WalkRecord, Same
  <2>4. ~(w.request.kind = "glob" /\ ~failed)
    BY <1>4
  <2> QED BY <2>2, <2>3, <2>4 DEF Ended
<1>5. CASE ~(w.request.kind = "walk" \/ failed)
  <2> DEFINE over == Cardinality(M) > limit
  <2>1. PICK some \in SUBSET M :
          /\ Cardinality(some) = IF Cardinality(M) > limit THEN limit ELSE Cardinality(M)
          /\ walk' = [w EXCEPT !.pc = "done", !.matches = some, !.cut = @ \/ Cardinality(M) > limit]
    BY <1>5 DEF Finish, Matching
  <2> HIDE DEF M, limit
  <2>2. /\ walk' \in WalkRecord /\ walk'.pc = "done" /\ walk'.failed = w.failed
        /\ walk'.matches = some /\ walk'.cut = (w.cut \/ over)
    BY <1>1, <2>1 DEF WalkRecord
  <2>3. Same(w, walk') /\ walk'.found = w.found /\ walk'.count = w.count
    BY <2>1 DEF WalkRecord, Same
  <2>4. Cardinality(some) <= limit
    BY <1>2, <1>3, <2>1
  <2>5. ~over => some = M
    BY <1>3, <2>1, FS_Subset
  <2>6. failed = FALSE /\ w.request.kind = "glob"
    BY <1>2, <1>5
  <2> QED BY <2>2, <2>3, <2>4, <2>5, <2>6 DEF Ended, M, limit
<1> QED BY <1>4, <1>5

(* A look that does not end the walk.                                      *)
Goes(left, found, count, e, enters) ==
  /\ walk' \in WalkRecord /\ Same(walk, walk')
  /\ walk'.pending = left /\ walk'.found = found /\ walk'.count = count
  /\ walk'.cut = walk.cut /\ walk'.failed = walk.failed /\ walk'.matches = walk.matches
  /\ walk'.pc = IF enters THEN "list" ELSE "look"
  /\ enters => walk'.at = e.path

LEMMA LookIs ==
  ASSUME walk \in WalkRecord, walk.pc = "look", NEW e \in Items, Look(e),
         Without(walk.pending, e) \in Seq((SUBSET Items) \ {{}})
  PROVE  LET left == Without(walk.pending, e)
             passed == TooDeep(walk, e) \/ IsHidden(walk, e) \/ Skipped(walk, e) IN
         \/ Finish(walk, TRUE)
         \/ passed /\ Goes(left, walk.found, walk.count, e, FALSE)
         \/ ~passed /\ ~Wanted(walk, e) /\ Goes(left, walk.found, walk.count, e, e.dir)
         \/ /\ ~passed /\ Wanted(walk, e) /\ walk.count >= walk.options.limit
            /\ Finish([walk EXCEPT !.cut = TRUE], FALSE)
         \/ /\ ~passed /\ Wanted(walk, e) /\ walk.count < walk.options.limit
            /\ Goes(left, walk.found \cup {e}, walk.count + 1, e, e.dir)
<1> DEFINE left == Without(walk.pending, e)
           passed == TooDeep(walk, e) \/ IsHidden(walk, e) \/ Skipped(walk, e)
           onward == [walk EXCEPT !.pending = left]
           more == [onward EXCEPT !.found = @ \cup {e}, !.count = @ + 1]
           entered(w) == IF e.dir THEN [w EXCEPT !.pc = "list", !.at = e.path] ELSE w
<1>1. IF ctx = "cancelled" THEN Finish(walk, TRUE)
      ELSE IF passed THEN walk' = onward
      ELSE IF ~Wanted(walk, e) THEN walk' = entered(onward)
      ELSE IF walk.count >= walk.options.limit THEN Finish([walk EXCEPT !.cut = TRUE], FALSE)
      ELSE walk' = entered(more)
  BY DEF Look
<1>2. /\ walk.count \in Nat /\ walk.options.limit \in Nat /\ walk.found \subseteq Items
      /\ e.path \in Seq(STRING) /\ e.dir \in BOOLEAN
  BY RecordIs, PathsAssumption DEF OptionRecord, Items
<1> HIDE DEF left, passed
<1>3. /\ onward \in WalkRecord /\ onward.pc = "look" /\ onward.pending = left
      /\ onward.found = walk.found /\ onward.count = walk.count
      /\ onward.cut = walk.cut /\ onward.failed = walk.failed /\ onward.matches = walk.matches
      /\ Same(walk, onward)
  BY DEF WalkRecord, Same, left
<1> HIDE DEF onward
<1>4. /\ more \in WalkRecord /\ more.pc = "look" /\ more.pending = left
      /\ more.found = walk.found \cup {e} /\ more.count = walk.count + 1
      /\ more.cut = walk.cut /\ more.failed = walk.failed /\ more.matches = walk.matches
      /\ Same(walk, more)
  <2>1. walk.found \cup {e} \subseteq Items /\ walk.count + 1 \in Nat
    BY <1>2
  <2> QED BY <1>3, <2>1 DEF WalkRecord, Same
<1> HIDE DEF more
<1>5. ASSUME NEW w \in WalkRecord, w.pc = "look", NEW found, NEW count, Same(walk, w),
             w.pending = left, w.found = found, w.count = count, w.cut = walk.cut,
             w.failed = walk.failed, w.matches = walk.matches, walk' = entered(w)
      PROVE  Goes(left, found, count, e, e.dir)
  <2>1. CASE e.dir
    <3>1. walk' = [w EXCEPT !.pc = "list", !.at = e.path]
      BY <1>5, <2>1
    <3> QED BY <1>2, <1>5, <2>1, <3>1 DEF Goes, WalkRecord, Same
  <2>2. CASE ~e.dir
    <3>1. walk' = w
      BY <1>5, <2>2
    <3> QED BY <1>5, <2>2, <3>1 DEF Goes
  <2> QED BY <2>1, <2>2
<1>6. walk' = onward => Goes(left, walk.found, walk.count, e, FALSE)
  BY <1>3 DEF Goes
<1>7. walk' = entered(onward) => Goes(left, walk.found, walk.count, e, e.dir)
  BY <1>3, <1>5
<1>8. walk' = entered(more) => Goes(left, walk.found \cup {e}, walk.count + 1, e, e.dir)
  BY <1>4, <1>5
<1> HIDE DEF entered
<1>9. ~(walk.count >= walk.options.limit) => walk.count < walk.options.limit
  BY <1>2
<1> QED BY <1>1, <1>6, <1>7, <1>8, <1>9 DEF left, passed

(* A walk that ends has found what it should.                              *)
LEMMA EndsRight ==
  ASSUME NEW w \in WalkRecord, NEW failed \in BOOLEAN, Ended(w, failed),
         \A e \in w.found : Selected(w, e) /\ e \in seen',
         IsFiniteSet(w.found), Cardinality(w.found) = w.count, w.count <= w.options.limit,
         w.matches = {},
         (~failed /\ ~w.cut) => \A s \in stable' : Selected(w, s) => s \in w.found,
         (~failed /\ w.cut) => /\ w.count = w.options.limit
                               /\ \E e \in seen' \ w.found : Selected(w, e)
  PROVE  FoundInv' /\ FrontierInv' /\ CoverInv' /\ DoneInv' /\ walk' \in WalkRecord
<1> DEFINE v == walk'
<1>1. /\ v \in WalkRecord /\ v.pc = "done" /\ v.failed = failed
      /\ v.found = w.found /\ v.count = w.count /\ v.options = w.options /\ v.request = w.request
      /\ w.cut => v.cut
      /\ (w.request.kind = "walk" \/ failed) => v.cut = w.cut /\ v.matches = w.matches
      /\ (w.request.kind = "glob" /\ ~failed) =>
           /\ v.matches \subseteq Matching(w)
           /\ ~v.cut => v.matches = Matching(w)
           /\ Cardinality(v.matches) <= ResultLimit(w.request)
  BY DEF Ended, Same
<1>2. \A e : Selected(v, e) <=> Selected(w, e)
  BY SameSelects DEF Ended
<1>3. w.request.kind \in {"walk", "glob"} /\ v # Idle
  BY <1>1, RecordIs, RequestIs
<1>4. Matching(v) = Matching(w) /\ Matching(w) \subseteq w.found
  BY DEF Matching, Ended, Same
<1>5. v.matches \subseteq w.found
  BY <1>1, <1>3, <1>4
<1> HIDE DEF v
<1>6. FoundInv'
  BY <1>1, <1>2, <1>5 DEF FoundInv, v
<1>7. FrontierInv' /\ CoverInv'
  BY <1>1 DEF FrontierInv, CoverInv, Walking, v
<1>8. DoneInv'
  <2>1. ~v.failed =>
          /\ ~v.cut => \A s \in stable' : Selected(v, s) => s \in v.found
          /\ (v.request.kind = "walk" /\ v.cut) =>
               v.count = v.options.limit /\ \E e \in seen' \ v.found : Selected(v, e)
          /\ v.request.kind = "glob" =>
               /\ v.matches \subseteq Matching(v)
               /\ ~v.cut => v.matches = Matching(v)
               /\ Cardinality(v.matches) <= ResultLimit(v.request)
    BY <1>1, <1>2, <1>3, <1>4
  <2> QED BY <2>1 DEF DoneInv, v
<1> QED BY <1>1, <1>6, <1>7, <1>8 DEF v

-----------------------------------------------------------------------------
(* cleanFSName yields a path, if any: by induction over the elements.      *)

LEMMA AllNumbers ==
  ASSUME NEW T, T \subseteq Nat, 0 \in T, \A n \in T : n + 1 \in T
  PROVE  T = Nat
<1> SUFFICES ASSUME Nat \ T # {} PROVE FALSE
  OBVIOUS
<1>1. PICK m \in Nat \ T : \A n \in Nat \ T : m <= n
  BY Least
<1>2. m # 0 /\ m - 1 \in Nat /\ ~(m <= m - 1) /\ (m - 1) + 1 = m
  BY <1>1
<1>3. m - 1 \in T
  BY <1>1, <1>2
<1> QED BY <1>1, <1>2, <1>3

CleanStep(before, x) ==
  IF x \in {"", "."} THEN before
  ELSE IF x = ".." /\ before # << >> /\ Base(before) # ".." THEN Parent(before)
  ELSE Append(before, x)
CleanSteps(name, f, n) ==
  f = [i \in 0..n |-> IF i = 0 THEN << >> ELSE CleanStep(f[i - 1], name[i])]

LEMMA CleanIs ==
  ASSUME NEW name \in Seq(STRING), NEW p \in CleanFSName(name)
  PROVE  p \in Seq(STRING)
<1> DEFINE m == Len(name)
           Has(n) == n <= m => \E f : CleanSteps(name, f, n)
           T == {n \in Nat : Has(n)}
           clean == CHOOSE f : CleanSteps(name, f, m)
           S == {n \in Nat : n <= m => clean[n] \in Seq(STRING)}
<1>1. m \in Nat
  BY LenProperties
<1>2. 0 \in T
  <2>1. CleanSteps(name, [i \in 0..0 |-> << >>], 0)
    BY DEF CleanSteps
  <2> QED BY <2>1
<1>3. ASSUME NEW n \in T PROVE n + 1 \in T
  <2> SUFFICES ASSUME n + 1 <= m PROVE \E f : CleanSteps(name, f, n + 1)
    OBVIOUS
  <2>1. n \in Nat /\ n <= m
    BY <1>1
  <2>2. PICK f : CleanSteps(name, f, n)
    BY <2>1
  <2> DEFINE value(i) == IF i = 0 THEN << >> ELSE CleanStep(f[i - 1], name[i])
             g == [i \in 0..(n + 1) |-> value(i)]
  <2>3. \A i \in 0..(n + 1) : i # 0 => i - 1 \in 0..n
    BY <2>1
  <2>4. \A i \in 0..n : f[i] = value(i) /\ i \in 0..(n + 1)
    BY <2>1, <2>2 DEF CleanSteps
  <2>5. \A i \in 0..n : g[i] = f[i]
    BY <2>4
  <2> HIDE DEF g
  <2>6. g = [i \in 0..(n + 1) |-> IF i = 0 THEN << >> ELSE CleanStep(g[i - 1], name[i])]
    <3>1. ASSUME NEW i \in 0..(n + 1)
          PROVE  value(i) = IF i = 0 THEN << >> ELSE CleanStep(g[i - 1], name[i])
      BY <2>3, <2>5
    <3> QED BY <3>1 DEF g
  <2> QED BY <2>6 DEF CleanSteps
<1> HIDE DEF Has
<1>4. m \in T
  <2> HIDE DEF T
  <2>1. T \subseteq Nat
    BY DEF T
  <2> QED BY <1>1, <1>2, <1>3, <2>1, AllNumbers
<1>5. \E f : CleanSteps(name, f, m)
  BY <1>1, <1>4 DEF Has
<1>6. CleanSteps(name, clean, m)
  BY <1>5
<1>7. p = clean[m]
  <2>1. clean = CHOOSE f : f = [i \in 0..m |-> IF i = 0 THEN << >> ELSE CleanStep(f[i - 1], name[i])]
    BY DEF CleanSteps
  <2> QED BY <2>1 DEF CleanFSName, CleanStep
<1> HIDE DEF clean, m
<1>8. /\ clean[0] = << >>
      /\ \A n \in Nat : n + 1 <= m => clean[n + 1] = CleanStep(clean[n], name[n + 1])
  <2>1. 0 \in 0..m /\ \A n \in Nat : n + 1 <= m => n + 1 \in 0..m /\ n + 1 # 0 /\ (n + 1) - 1 = n
    BY <1>1
  <2> QED BY <1>6, <2>1 DEF CleanSteps
<1>9. 0 \in S
  BY <1>8, EmptySeq
<1>10. ASSUME NEW n \in S PROVE n + 1 \in S
  <2> SUFFICES ASSUME n + 1 <= m PROVE clean[n + 1] \in Seq(STRING)
    OBVIOUS
  <2> DEFINE before == clean[n]
             x == name[n + 1]
  <2>1. before \in Seq(STRING) /\ n + 1 \in 1..m
    BY <1>1
  <2>2. x \in STRING
    BY <2>1, ElementOfSeq DEF m
  <2> HIDE DEF before, x
  <2>3. Append(before, x) \in Seq(STRING)
    BY <2>1, <2>2, AppendProperties
  <2>4. before # << >> => Parent(before) \in Seq(STRING)
    BY <2>1, ParentIs DEF Root
  <2>5. CleanStep(before, x) \in Seq(STRING)
    BY <2>1, <2>3, <2>4 DEF CleanStep
  <2> QED BY <1>8, <2>5 DEF before, x
<1>11. m \in S
  <2> HIDE DEF S
  <2>1. S \subseteq Nat
    BY DEF S
  <2> QED BY <1>1, <1>9, <1>10, <2>1, AllNumbers
<1> QED BY <1>1, <1>7, <1>11

-----------------------------------------------------------------------------
(* Directories and what they list.                                         *)

LEMMA AboveIsDir ==
  ASSUME Whole(nodes), NEW q \in DOMAIN nodes, NEW p \in Seq(STRING), IsPrefix(p, q), p # q
  PROVE  IsDir(p) /\ Len(p) < Len(q)
<1>1. q \in Seq(STRING) /\ Len(p) \in Nat /\ Len(q) \in Nat
  BY PathIs DEF Whole
<1>2. Len(p) <= Len(q) /\ Len(p) # Len(q)
  BY <1>1, PrefixesOrder
<1>3. Len(p) < Len(q) /\ Len(p) \in 0..(Len(q) - 1)
  BY <1>1, <1>2
<1>4. DirIn(nodes, p)
  BY <1>3 DEF Whole, IsPrefix
<1> QED BY <1>3, <1>4, Kind

LEMMA ListsTheWay ==
  ASSUME Whole(nodes), NEW p \in Seq(STRING), NEW q \in DOMAIN nodes, IsPrefix(p, q), p # q
  PROVE  /\ IsDir(p) /\ q[Len(p) + 1] \in Listing(p) /\ q[Len(p) + 1] \in STRING
         /\ IsPrefix(Append(p, q[Len(p) + 1]), q)
<1>1. q \in Seq(STRING) /\ Len(p) \in Nat /\ Len(q) \in Nat
  BY PathIs DEF Whole
<1>2. IsDir(p) /\ Len(p) < Len(q)
  BY AboveIsDir
<1>3. q \in Below(p)
  BY <1>1, <1>2 DEF Below, IsPrefix
<1>4. Len(p) + 1 \in 1..Len(q) /\ Len(q) > Len(p)
  BY <1>1, <1>2
<1>5. q[Len(p) + 1] \in STRING
  BY <1>1, <1>4, ElementOfSeq
<1> DEFINE x == q[Len(p) + 1]
<1>6. x \in Listing(p) /\ x \in STRING
  BY <1>3, <1>5 DEF Listing
<1>7. x = q[Len(p) + 1]
  OBVIOUS
<1> HIDE DEF x
<1>8. IsPrefix(Append(p, x), q)
  <2>1. \A u \in Seq(STRING) :
          IsPrefix(p, u) /\ Len(u) > Len(p) /\ u[Len(p) + 1] = x => IsPrefix(Append(p, x), u)
    BY <1>6, ChildIs
  <2> QED BY <1>1, <1>4, <1>7, <2>1
<1> QED BY <1>2, <1>6, <1>7, <1>8

LEMMA ListedIs ==
  ASSUME Whole(nodes), NEW p \in Paths, NEW x \in Listing(p)
  PROVE  x \in STRING /\ Append(p, x) \in DOMAIN nodes
<1>1. PICK q \in Below(p) : x = q[Len(p) + 1]
  BY DEF Listing
<1>2. q \in DOMAIN nodes /\ Len(q) > Len(p) /\ SubSeq(q, 1, Len(p)) = p
  BY DEF Below
<1>3. p \in Seq(STRING) /\ q \in Seq(STRING) /\ Len(p) \in Nat /\ Len(q) \in Nat
  BY <1>2, PathIs DEF Whole
<1>4. IsPrefix(p, q) /\ p # q
  BY <1>2, <1>3 DEF IsPrefix
<1>5. x \in STRING /\ IsPrefix(Append(p, x), q)
  BY <1>1, <1>2, <1>3, <1>4, ListsTheWay
<1>6. Append(p, x) \in Seq(STRING)
  BY <1>3, <1>5, AppendToPath
<1>7. Append(p, x) \in DOMAIN nodes
  BY <1>2, <1>5, <1>6, AboveIsDir DEF IsDir, Exists
<1> QED BY <1>5, <1>7

-----------------------------------------------------------------------------
(* Each step keeps the invariant of the walk.                              *)
Still == UNCHANGED <<nodes, last, history>>

LEMMA StillKeeps ==
  ASSUME Inv, HistoryInv, Still, walk # Idle
  PROVE  Inv' /\ HistoryInv' /\ stable' = stable /\ seen' = seen
<1>1. nodes' = nodes /\ last' = last /\ stable' = stable /\ seen' = seen
  BY DEF Still, history
<1>2. Inv'
  BY <1>1 DEF Inv, Whole, DirIn
<1>3. Entries' = Entries
  BY <1>1 DEF Entries, Entry, IsDir, Exists
<1> QED BY <1>1, <1>2, <1>3 DEF HistoryInv

LEMMA WalkIs ==
  ASSUME WalkInv, walk # Idle
  PROVE  /\ walk \in WalkRecord /\ Whole(nodes)
         /\ walk.root \in Seq(STRING) /\ walk.options \in OptionRecord
         /\ IsFiniteSet(walk.found) /\ walk.found \subseteq Items
         /\ walk.pending \in Seq((SUBSET Items) \ {{}})
         /\ Entries \subseteq Items /\ stable \subseteq Items
<1>1. walk \in WalkRecord /\ Whole(nodes) /\ IsFiniteSet(walk.found) /\ stable \subseteq Entries
  BY DEF WalkInv, WalkTypes, Inv, FoundInv, HistoryInv
<1>2. Entries \subseteq Items
  BY <1>1, EntriesHere
<1> QED BY <1>1, <1>2, RecordIs

LEMMA ListStep ==
  ASSUME WalkInv, walk # Idle, List
  PROVE  WalkInv'
<1> DEFINE v == walk'
           at == walk.at
           names == IF IsDir(at) THEN Listing(at) ELSE {}
           listed == {Entry(Append(at, x)) : x \in names}
           old == Waiting(walk.pending)
           new == Waiting(v.pending)
<1>1. /\ walk \in WalkRecord /\ Whole(nodes)
      /\ walk.pending \in Seq((SUBSET Items) \ {{}}) /\ walk.found \subseteq Items
      /\ Entries \subseteq Items /\ stable \subseteq Items
  BY WalkIs
<1>2. /\ walk.pc = "list" /\ Still /\ UNCHANGED ctx
      /\ v = [walk EXCEPT !.pc = "look",
                          !.pending = IF listed = {} THEN @ ELSE Append(@, listed)]
  BY DEF List, Still
<1>3. Inv' /\ HistoryInv' /\ stable' = stable /\ seen' = seen
  BY <1>2, StillKeeps DEF WalkInv
<1>4. /\ ~walk.cut /\ ~walk.failed /\ walk.matches = {} /\ HeldOnce(walk.pending)
      /\ at \in Paths /\ at \in Seq(STRING) /\ Passed(walk, at)
      /\ \A e \in old : ~IsPrefix(at, e.path) /\ ~IsPrefix(e.path, at)
      /\ \A f \in walk.found : IsPrefix(at, f.path) => f.path = at
  BY <1>2, PathsAssumption DEF WalkInv, FrontierInv, Walking
<1>5. \A e \in Items : e.path \in Seq(STRING)
  BY PathsAssumption DEF Items
<1>6. ASSUME NEW l \in listed
      PROVE  /\ l \in Entries /\ l \in Items /\ l \in seen /\ l.path # Root /\ Parent(l.path) = at
             /\ IsPrefix(at, l.path) /\ ~IsPrefix(l.path, at) /\ Len(l.path) = Len(at) + 1
             /\ \A q \in Seq(STRING) : IsPrefix(q, l.path) => IsPrefix(q, at) \/ q = l.path
  <2>1. PICK x \in Listing(at) : l = Entry(Append(at, x))
    OBVIOUS
  <2>2. x \in STRING /\ Append(at, x) \in DOMAIN nodes
    BY <1>1, <1>4, <2>1, ListedIs
  <2>3. l \in Entries /\ l.path = Append(at, x)
    BY <1>1, <2>1, <2>2, EntriesHere
  <2>4. l \in seen
    BY <2>3 DEF WalkInv, HistoryInv
  <2>5. /\ l.path # Root /\ Parent(l.path) = at /\ Len(l.path) = Len(at) + 1
        /\ IsPrefix(at, l.path) /\ ~IsPrefix(l.path, at)
        /\ \A q \in Seq(STRING) : IsPrefix(q, l.path) => IsPrefix(q, at) \/ q = l.path
    BY <1>4, <2>2, <2>3, ChildIs
  <2> QED BY <1>1, <2>3, <2>4, <2>5
<1> HIDE DEF listed, at, old
<1>7. v.pending \in Seq((SUBSET Items) \ {{}}) /\ new = old \cup listed /\ HeldOnce(v.pending)
  <2>1. v.pending = IF listed = {} THEN walk.pending ELSE Append(walk.pending, listed)
    BY <1>1, <1>2 DEF WalkRecord
  <2>2. CASE listed = {}
    BY <1>1, <1>4, <2>1, <2>2 DEF old
  <2>3. CASE listed # {}
    <3>1. listed \cap old = {}
      BY <1>4, <1>6
    <3>2. listed \in (SUBSET Items) \ {{}}
      BY <1>6, <2>3
    <3> QED BY <1>1, <1>4, <2>1, <2>3, <3>1, <3>2, WaitingMore DEF old
  <2> QED BY <2>2, <2>3
<1>8. /\ v \in WalkRecord /\ v.pc = "look" /\ Same(walk, v)
      /\ v.found = walk.found /\ v.count = walk.count /\ v.cut = walk.cut
      /\ v.failed = walk.failed /\ v.matches = walk.matches
  <2>1. (IF listed = {} THEN walk.pending ELSE Append(walk.pending, listed)) = v.pending
    BY <1>1, <1>2 DEF WalkRecord
  <2>2. v = [walk EXCEPT !.pc = "look", !.pending = v.pending]
    BY <1>2, <2>1
  <2> HIDE DEF v
  <2> QED BY <1>1, <1>7, <2>2 DEF WalkRecord, Same
<1>9. /\ \A e : Selected(v, e) <=> Selected(walk, e)
      /\ \A p : Passed(v, p) <=> Passed(walk, p)
  BY <1>8, SameSelects
<1>10. v # Idle
  BY <1>8, RecordIs
<1> HIDE DEF v, new
<1>11. FoundInv'
  <2>1. /\ \A e \in walk.found : Selected(walk, e) /\ e \in seen
        /\ IsFiniteSet(walk.found) /\ Cardinality(walk.found) = walk.count
        /\ walk.count <= walk.options.limit
        /\ walk.matches \subseteq walk.found
    BY DEF WalkInv, FoundInv
  <2> QED BY <1>3, <1>8, <1>9, <2>1 DEF FoundInv, Same, v
<1>12. FrontierInv'
  <2>1. \A e \in old :
          /\ e \in seen /\ e.path # Root /\ Passed(walk, Parent(e.path))
          /\ \A d \in old : IsPrefix(e.path, d.path) => d = e
          /\ \A f \in walk.found : ~IsPrefix(e.path, f.path)
    BY <1>2 DEF WalkInv, FrontierInv, Walking, old
  <2>2. ASSUME NEW e \in new
        PROVE  e \in seen /\ e.path # Root /\ Passed(v, Parent(e.path))
    BY <1>4, <1>6, <1>7, <1>9, <2>1, <2>2
  <2>3. ASSUME NEW e \in new, NEW d \in new, IsPrefix(e.path, d.path) PROVE d = e
    <3>0. e.path \in Seq(STRING) /\ d.path \in Seq(STRING) /\ at \in Seq(STRING)
      BY <1>4, <1>5 DEF new, Waiting
    <3>1. CASE e \in old /\ d \in old
      BY <2>1, <2>3, <3>1
    <3>2. CASE e \in old /\ d \in listed
      <4>1. IsPrefix(e.path, at) \/ e.path = d.path
        BY <1>6, <2>3, <3>0, <3>2
      <4>2. IsPrefix(at, d.path)
        BY <1>6, <3>2
      <4> QED BY <1>4, <3>2, <4>1, <4>2
    <3>3. CASE e \in listed /\ d \in old
      <4>1. IsPrefix(at, d.path)
        BY <1>6, <2>3, <3>0, <3>3, PrefixesOrder
      <4> QED BY <1>4, <3>3, <4>1
    <3>4. CASE e \in listed /\ d \in listed
      <4>1. e.path = d.path
        BY <1>6, <2>3, <3>0, <3>4
      <4>2. e = Entry(e.path) /\ d = Entry(d.path)
        BY <1>1, <1>6, <3>4, EntriesHere
      <4> QED BY <4>1, <4>2
    <3> QED BY <1>7, <3>1, <3>2, <3>3, <3>4
  <2>4. ASSUME NEW e \in new, NEW f \in walk.found PROVE ~IsPrefix(e.path, f.path)
    <3>1. CASE e \in old
      BY <2>1, <3>1
    <3>2. CASE e \in listed
      <4> SUFFICES ASSUME IsPrefix(e.path, f.path) PROVE FALSE
        OBVIOUS
      <4>0. e.path \in Seq(STRING) /\ f.path \in Seq(STRING) /\ at \in Seq(STRING)
        BY <1>1, <1>4, <1>5, <1>6, <3>2
      <4>1. IsPrefix(at, f.path)
        BY <1>6, <3>2, <4>0, PrefixesOrder
      <4>2. f.path = at
        BY <1>4, <4>1
      <4> QED BY <1>6, <3>2, <4>2
    <3> QED BY <1>7, <3>1, <3>2
  <2>5. \A e \in new :
          /\ e \in seen /\ e.path # Root /\ Passed(v, Parent(e.path))
          /\ \A d \in new : IsPrefix(e.path, d.path) => d = e
          /\ \A f \in v.found : ~IsPrefix(e.path, f.path)
    BY <1>8, <2>2, <2>3, <2>4
  <2> QED BY <1>3, <1>4, <1>7, <1>8, <2>5 DEF FrontierInv, v, new
<1>13. CoverInv'
  <2> SUFFICES ASSUME NEW s \in stable, Selected(walk, s), s \notin walk.found
               PROVE  \E e \in new : LeadsTo(e, s)
    BY <1>3, <1>8, <1>9 DEF CoverInv, Ahead, v, new
  <2>1. Ahead(walk, s)
    BY <1>2 DEF WalkInv, CoverInv, Walking
  <2>2. CASE \E e \in old : LeadsTo(e, s)
    BY <1>7, <2>2
  <2>3. CASE IsPrefix(at, s.path) /\ at # s.path
    <3> DEFINE x == s.path[Len(at) + 1]
               l == Entry(Append(at, x))
    <3>1. s.path \in DOMAIN nodes /\ s = Entry(s.path) /\ s.path \in Seq(STRING)
      <4>1. s \in Entries
        BY DEF WalkInv, HistoryInv
      <4> QED BY <1>1, <1>5, <4>1, EntriesHere
    <3>2. /\ IsDir(at) /\ x \in Listing(at) /\ x \in STRING
          /\ IsPrefix(Append(at, x), s.path)
      BY <1>1, <1>4, <2>3, <3>1, ListsTheWay
    <3>3. l \in listed
      BY <3>2 DEF listed
    <3>4. Append(at, x) \in Seq(STRING) /\ Append(at, x) \in DOMAIN nodes
      BY <1>1, <1>4, <3>2, ListedIs, ChildIs
    <3>5. l.path = Append(at, x) /\ l.dir = IsDir(Append(at, x))
      BY <1>1, <3>4, EntriesHere
    <3>6. CASE Append(at, x) = s.path
      BY <1>7, <3>1, <3>2, <3>3, <3>5, <3>6 DEF LeadsTo
    <3>7. CASE Append(at, x) # s.path
      <4>1. IsDir(Append(at, x))
        BY <1>1, <3>1, <3>2, <3>4, <3>7, AboveIsDir
      <4> QED BY <1>7, <3>2, <3>3, <3>5, <3>7, <4>1 DEF LeadsTo
    <3> QED BY <3>6, <3>7
  <2> QED BY <2>1, <2>2, <2>3 DEF Ahead, old, at
<1>14. DoneInv'
  BY <1>8 DEF DoneInv, v
<1>15. WalkTypes'
  BY <1>2, <1>8 DEF WalkInv, WalkTypes, v
<1> QED BY <1>3, <1>11, <1>12, <1>13, <1>14, <1>15 DEF WalkInv

(* The entry that is looked at.                                            *)
LEMMA LookedAt ==
  ASSUME WalkInv, walk # Idle, walk.pc = "look", walk.pending # << >>,
         NEW e \in walk.pending[Len(walk.pending)]
  PROVE  /\ Without(walk.pending, e) \in Seq((SUBSET Items) \ {{}})
         /\ Waiting(Without(walk.pending, e)) = Waiting(walk.pending) \ {e}
         /\ HeldOnce(Without(walk.pending, e))
         /\ e \in Items /\ e \in Waiting(walk.pending) /\ e \in seen /\ e \notin walk.found
         /\ e.path \in Seq(STRING) /\ e.path \in Paths /\ e.path # Root /\ Passed(walk, Parent(e.path))
         /\ IsPrefix(walk.root, e.path) /\ Len(e.path) > Len(walk.root)
<1>1. HeldOnce(walk.pending) /\ walk.pending \in Seq((SUBSET Items) \ {{}}) /\ walk.root \in Seq(STRING)
  BY WalkIs DEF WalkInv, FrontierInv, Walking
<1>2. /\ Without(walk.pending, e) \in Seq((SUBSET Items) \ {{}})
      /\ Waiting(Without(walk.pending, e)) = Waiting(walk.pending) \ {e}
      /\ HeldOnce(Without(walk.pending, e))
      /\ e \in Items /\ e \in Waiting(walk.pending)
  BY <1>1, WaitingLess
<1>3. /\ e \in seen /\ e.path # Root /\ Passed(walk, Parent(e.path))
      /\ \A f \in walk.found : ~IsPrefix(e.path, f.path)
  BY <1>2 DEF WalkInv, FrontierInv, Walking
<1>4. e.path \in Seq(STRING) /\ e.path \in Paths
  BY <1>2, PathsAssumption DEF Items
<1>5. e \notin walk.found
  BY <1>3, <1>4, PrefixesOrder
<1>6. IsPrefix(walk.root, e.path) /\ Len(e.path) > Len(walk.root)
  <2> DEFINE up == Parent(e.path)
  <2>1. up \in Seq(STRING) /\ IsPrefix(up, e.path) /\ Len(up) = Len(e.path) - 1 /\ Len(e.path) \in Nat
    BY <1>3, <1>4, ParentIs
  <2>2. IsPrefix(walk.root, up)
    BY <1>3 DEF Passed
  <2> HIDE DEF up
  <2>3. IsPrefix(walk.root, e.path) /\ Len(walk.root) <= Len(up)
    BY <1>1, <1>4, <2>1, <2>2, PrefixesOrder
  <2>4. Len(walk.root) \in Nat
    BY <1>1
  <2> QED BY <2>1, <2>3, <2>4
<1> QED BY <1>2, <1>3, <1>4, <1>5, <1>6

LEMMA GoesRight ==
  ASSUME WalkInv, walk # Idle, walk.pc = "look", walk.pending # << >>,
         NEW e \in walk.pending[Len(walk.pending)], Still, UNCHANGED ctx,
         NEW found, NEW count, NEW enters \in BOOLEAN,
         Goes(Without(walk.pending, e), found, count, e, enters),
         walk.found \subseteq found, found \subseteq walk.found \cup {e},
         \A f \in found : Selected(walk, f), IsFiniteSet(found), Cardinality(found) = count,
         count <= walk.options.limit, enters => Passed(walk, e.path),
         \A s \in stable : Selected(walk, s) /\ LeadsTo(e, s) =>
           s \in found \/ (enters /\ e.path # s.path)
  PROVE  WalkInv'
<1> DEFINE v == walk'
           old == Waiting(walk.pending)
           new == Waiting(v.pending)
<1>1. /\ new = old \ {e} /\ HeldOnce(v.pending)
      /\ e \in Items /\ e \in old /\ e \in seen
      /\ e.path \in Seq(STRING) /\ e.path \in Paths
  BY LookedAt DEF Goes
<1>2. /\ v \in WalkRecord /\ Same(walk, v) /\ v.found = found /\ v.count = count
      /\ v.cut = walk.cut /\ v.failed = walk.failed /\ v.matches = walk.matches
      /\ v.pc = IF enters THEN "list" ELSE "look"
      /\ enters => v.at = e.path
  BY DEF Goes
<1>3. Inv' /\ HistoryInv' /\ stable' = stable /\ seen' = seen
  BY StillKeeps DEF WalkInv
<1>4. /\ \A x : Selected(v, x) <=> Selected(walk, x)
      /\ \A p : Passed(v, p) <=> Passed(walk, p)
  BY <1>2, SameSelects
<1>5. v # Idle /\ v.pc \in {"list", "look"} /\ (v.pc = "list" <=> enters)
  BY <1>2, RecordIs
<1>6. \A x \in old : x.path \in Seq(STRING)
  BY PathsAssumption DEF Items, Waiting
<1>7. /\ ~walk.cut /\ ~walk.failed /\ walk.matches = {}
      /\ \A x \in old :
           /\ x \in seen /\ x.path # Root /\ Passed(walk, Parent(x.path))
           /\ \A d \in old : IsPrefix(x.path, d.path) => d = x
           /\ \A f \in walk.found : ~IsPrefix(x.path, f.path)
  BY DEF WalkInv, FrontierInv, Walking
<1> HIDE DEF v, old, new
<1>8. FoundInv'
  <2>1. walk.matches \subseteq walk.found /\ \A f \in walk.found : f \in seen
    BY DEF WalkInv, FoundInv
  <2>2. \A f \in found : f \in seen
    BY <1>1, <2>1
  <2> QED BY <1>2, <1>3, <1>4, <2>1, <2>2 DEF FoundInv, Same, v
<1>9. FrontierInv'
  <2>1. ASSUME NEW x \in new
        PROVE  /\ x \in seen /\ x.path # Root /\ Passed(v, Parent(x.path))
               /\ \A d \in new : IsPrefix(x.path, d.path) => d = x
               /\ \A f \in found : ~IsPrefix(x.path, f.path)
    <3>1. x \in old /\ x # e
      BY <1>1
    <3>2. \A f \in found : ~IsPrefix(x.path, f.path)
      BY <1>1, <1>7, <3>1
    <3> QED BY <1>1, <1>4, <1>7, <3>1, <3>2
  <2>2. ASSUME enters
        PROVE  /\ v.at \in Paths /\ Passed(v, v.at)
               /\ \A x \in new : ~IsPrefix(v.at, x.path) /\ ~IsPrefix(x.path, v.at)
               /\ \A f \in found : IsPrefix(v.at, f.path) => f.path = v.at
    <3>1. v.at = e.path /\ v.at \in Paths /\ Passed(v, v.at)
      BY <1>1, <1>2, <1>4, <2>2
    <3>2. \A x \in new : ~IsPrefix(e.path, x.path) /\ ~IsPrefix(x.path, e.path)
      BY <1>1, <1>7
    <3>3. \A f \in found : IsPrefix(e.path, f.path) => f.path = e.path
      BY <1>1, <1>7
    <3> QED BY <3>1, <3>2, <3>3
  <2> QED BY <1>1, <1>2, <1>3, <1>5, <1>7, <2>1, <2>2 DEF FrontierInv, v, new
<1>10. CoverInv'
  <2> SUFFICES ASSUME NEW s \in stable, Selected(walk, s), s \notin found
               PROVE  Ahead(v, s)
    BY <1>2, <1>3, <1>4 DEF CoverInv, v
  <2>1. PICK d \in old : LeadsTo(d, s)
    <3>1. s \notin walk.found
      OBVIOUS
    <3> QED BY <3>1 DEF WalkInv, CoverInv, Walking, Ahead, old
  <2>2. CASE d # e
    BY <1>1, <2>1, <2>2 DEF Ahead, new
  <2>3. CASE d = e
    <3>1. enters /\ e.path # s.path /\ IsPrefix(e.path, s.path)
      BY <2>1, <2>3 DEF LeadsTo
    <3> QED BY <1>2, <1>5, <3>1 DEF Ahead
  <2> QED BY <2>2, <2>3
<1>11. DoneInv'
  BY <1>5 DEF DoneInv, v
<1>12. WalkTypes'
  BY <1>2 DEF WalkInv, WalkTypes, v
<1> QED BY <1>3, <1>8, <1>9, <1>10, <1>11, <1>12 DEF WalkInv

LEMMA LookStep ==
  ASSUME WalkInv, walk # Idle, walk.pc = "look", walk.pending # << >>,
         NEW e \in walk.pending[Len(walk.pending)], Look(e)
  PROVE  WalkInv'
<1> DEFINE left == Without(walk.pending, e)
           passed == TooDeep(walk, e) \/ IsHidden(walk, e) \/ Skipped(walk, e)
<1>1. /\ walk \in WalkRecord /\ walk.root \in Seq(STRING) /\ walk.options \in OptionRecord
      /\ walk.options.limit \in Nat /\ walk.count \in Nat
      /\ IsFiniteSet(walk.found) /\ stable \subseteq Items
  BY WalkIs, RecordIs DEF OptionRecord
<1>2. /\ left \in Seq((SUBSET Items) \ {{}})
      /\ e \in Items /\ e \in seen /\ e \notin walk.found
      /\ e.path # Root /\ Passed(walk, Parent(e.path))
      /\ IsPrefix(walk.root, e.path) /\ Len(e.path) > Len(walk.root)
      /\ e.dir \in BOOLEAN
  BY LookedAt DEF Items
<1>3. Still /\ UNCHANGED ctx
  BY DEF Look, Still
<1>4. Inv' /\ HistoryInv' /\ stable' = stable /\ seen' = seen
  BY <1>3, StillKeeps DEF WalkInv
<1>5. /\ \A f \in walk.found : Selected(walk, f) /\ f \in seen
      /\ Cardinality(walk.found) = walk.count /\ walk.count <= walk.options.limit
      /\ ~walk.cut /\ ~walk.failed /\ walk.matches = {}
  BY DEF WalkInv, FoundInv, FrontierInv, Walking
<1>5a. walk.failed = FALSE /\ walk.cut = FALSE
  BY <1>1, <1>5, RecordIs
<1>6. ~passed => /\ e.dir => Passed(walk, e.path)
                 /\ Wanted(walk, e) => Selected(walk, e)
  BY <1>1, <1>2, PassesOn
<1>7. ASSUME NEW s \in stable, Selected(walk, s), LeadsTo(e, s)
      PROVE  ~passed /\ (e = s \/ (e.dir /\ e.path # s.path)) /\ (e = s => Wanted(walk, e))
  <2>1. s \in Items
    BY <1>1
  <2> QED BY <1>1, <1>2, <1>7, <2>1, WayIsOpen
<1> HIDE DEF passed, left
<1>8. CASE Finish(walk, TRUE)
  <2>1. Ended(walk, TRUE)
    BY <1>1, <1>5, <1>5a, <1>8, FinishIs
  <2>2. FoundInv' /\ FrontierInv' /\ CoverInv' /\ DoneInv' /\ walk' \in WalkRecord
    BY <1>1, <1>4, <1>5, <2>1, EndsRight
  <2> QED BY <1>3, <1>4, <2>2 DEF WalkInv, WalkTypes
<1>9. CASE passed /\ Goes(left, walk.found, walk.count, e, FALSE)
  BY <1>1, <1>3, <1>5, <1>7, <1>9, GoesRight DEF left
<1>10. CASE ~passed /\ ~Wanted(walk, e) /\ Goes(left, walk.found, walk.count, e, e.dir)
  <2>1. \A s \in stable : Selected(walk, s) /\ LeadsTo(e, s) => e.dir /\ e.path # s.path
    BY <1>7, <1>10
  <2> QED BY <1>1, <1>2, <1>3, <1>5, <1>6, <1>10, <2>1, GoesRight DEF left
<1>11. CASE /\ ~passed /\ Wanted(walk, e) /\ walk.count >= walk.options.limit
            /\ Finish([walk EXCEPT !.cut = TRUE], FALSE)
  <2> DEFINE w == [walk EXCEPT !.cut = TRUE]
  <2>1. /\ w \in WalkRecord /\ Same(walk, w) /\ w.found = walk.found /\ w.count = walk.count
        /\ w.matches = walk.matches /\ w.failed = walk.failed /\ w.cut = TRUE
        /\ w.options = walk.options
    BY <1>1, <1>5a DEF WalkRecord, Same
  <2> HIDE DEF w
  <2>2. Ended(w, FALSE)
    <3>1. Finish(w, FALSE)
      BY <1>11 DEF w
    <3>2. IsFiniteSet(w.found) /\ w.failed = FALSE /\ FALSE \in BOOLEAN
      BY <1>1, <1>5a, <2>1
    <3> QED BY <2>1, <3>1, <3>2, FinishIs
  <2>3. \A x : Selected(w, x) <=> Selected(walk, x)
    BY <2>1, SameSelects
  <2>4. w.count = w.options.limit
    BY <1>1, <1>5, <1>11, <2>1
  <2>5. e \in seen' \ w.found /\ Selected(w, e)
    BY <1>2, <1>4, <1>6, <1>11, <2>1, <2>3
  <2>6. FoundInv' /\ FrontierInv' /\ CoverInv' /\ DoneInv' /\ walk' \in WalkRecord
    <3>1. \A x \in w.found : Selected(w, x) /\ x \in seen'
      BY <1>4, <1>5, <2>1, <2>3
    <3>2. IsFiniteSet(w.found) /\ Cardinality(w.found) = w.count /\ w.count <= w.options.limit
          /\ w.matches = {}
      BY <1>1, <1>5, <2>1
    <3> QED BY <2>1, <2>2, <2>4, <2>5, <3>1, <3>2, EndsRight
  <2> QED BY <1>3, <1>4, <2>6 DEF WalkInv, WalkTypes
<1>12. CASE /\ ~passed /\ Wanted(walk, e) /\ walk.count < walk.options.limit
            /\ Goes(left, walk.found \cup {e}, walk.count + 1, e, e.dir)
  <2> DEFINE found == walk.found \cup {e}
  <2>1. IsFiniteSet(found) /\ Cardinality(found) = walk.count + 1
    <3>1. IsFiniteSet(walk.found) /\ e \notin walk.found /\ Cardinality(walk.found) = walk.count
      BY <1>1, <1>2, <1>5
    <3>2. IsFiniteSet(found) /\ Cardinality(found) = Cardinality(walk.found) + 1
      BY <3>1, FS_AddElement
    <3> QED BY <3>1, <3>2
  <2>2. walk.count + 1 <= walk.options.limit
    BY <1>1, <1>12
  <2>3. \A f \in found : Selected(walk, f)
    BY <1>5, <1>6, <1>12
  <2>4. \A s \in stable : Selected(walk, s) /\ LeadsTo(e, s) => s \in found \/ (e.dir /\ e.path # s.path)
    BY <1>7
  <2>5. walk.found \subseteq found /\ found \subseteq walk.found \cup {e}
    OBVIOUS
  <2> HIDE DEF found
  <2>6. Goes(left, found, walk.count + 1, e, e.dir)
    BY <1>12 DEF found
  <2>7. e.dir => Passed(walk, e.path)
    BY <1>6, <1>12
  <2> QED BY <1>2, <1>3, <2>1, <2>2, <2>3, <2>4, <2>5, <2>6, <2>7, GoesRight DEF left
<1>13. walk \in WalkRecord /\ e \in Items /\ left \in Seq((SUBSET Items) \ {{}})
  BY <1>1, <1>2
<1> QED BY <1>8, <1>9, <1>10, <1>11, <1>12, <1>13, LookIs DEF left, passed

LEMMA StartStep ==
  ASSUME WalkInv, NEW r \in Requests, Start(r)
  PROVE  WalkInv'
<1>1. PICK root \in CleanFSName(r.root) :
        LET w == [pc |-> "list", request |-> r, root |-> root, at |-> root,
                  options |-> IF r.kind = "walk" THEN WalkOptions(r) ELSE GlobOptions(r),
                  pending |-> << >>, found |-> {}, count |-> 0, cut |-> FALSE,
                  failed |-> FALSE, matches |-> {}]
        IN IF Exists(root) /\ ctx = "cancelled" THEN Finish(w, TRUE)
           ELSE IF IsDir(root) THEN walk' = w
           ELSE Finish(w, FALSE)
  BY DEF Start
<1> DEFINE options == IF r.kind = "walk" THEN WalkOptions(r) ELSE GlobOptions(r)
           w == [pc |-> "list", request |-> r, root |-> root, at |-> root, options |-> options,
                 pending |-> << >>, found |-> {}, count |-> 0, cut |-> FALSE,
                 failed |-> FALSE, matches |-> {}]
<1>2. root \in Seq(STRING)
  <2>1. r.root \in Seq(STRING)
    BY RequestsAssumption DEF RequestSet
  <2> QED BY <2>1, CleanIs
<1>3. options \in OptionRecord
  BY RequestIs
<1> HIDE DEF options
<1>4. /\ nodes' = nodes /\ last' = last /\ stable' = Entries /\ seen' = Entries
      /\ walk = Idle /\ ctx' = ctx
  BY DEF Start
<1>5. Whole(nodes) /\ ctx \in {"live", "cancelled"}
  BY DEF WalkInv, Inv, WalkTypes
<1>6. Inv' /\ HistoryInv'
  <2>1. Inv'
    BY <1>4 DEF WalkInv, Inv, Whole, DirIn
  <2>2. Entries' = Entries
    BY <1>4 DEF Entries, Entry, IsDir, Exists
  <2> QED BY <1>4, <2>1, <2>2 DEF HistoryInv
<1>7. IsFiniteSet({}) /\ Cardinality({}) = 0
  BY FS_EmptySet
<1>8. /\ w \in WalkRecord /\ w.root = root /\ w.at = root /\ w.pc = "list" /\ w.options = options
      /\ w.pending = << >> /\ w.found = {} /\ w.count = 0 /\ w.cut = FALSE /\ w.failed = FALSE
      /\ w.matches = {}
  <2>1. << >> \in Seq((SUBSET Items) \ {{}}) /\ {} \in SUBSET Items /\ 0 \in Nat
    BY NothingWaits
  <2> QED BY <1>2, <1>3, <2>1 DEF WalkRecord
<1>9. options.depth \in Nat /\ options.limit \in Nat
  BY <1>3 DEF OptionRecord
<1>10. ASSUME NEW s \in Entries, Selected(w, s)
       PROVE  IsDir(root) /\ IsPrefix(root, s.path) /\ root # s.path
  <2>1. s \in Items /\ s.path \in DOMAIN nodes
    BY <1>5, EntriesHere
  <2>2. IsPrefix(root, s.path) /\ Len(s.path) > Len(root)
    BY <1>2, <1>8, <1>10, <2>1, SelectedMeans
  <2>3. Len(root) \in Nat
    BY <1>2
  <2>4. root # s.path
    BY <2>2, <2>3
  <2> QED BY <1>2, <1>5, <2>1, <2>2, <2>4, AboveIsDir
<1>11. IF Exists(root) /\ ctx = "cancelled" THEN Finish(w, TRUE)
       ELSE IF IsDir(root) THEN walk' = w
       ELSE Finish(w, FALSE)
  BY <1>1 DEF options
<1> HIDE DEF w
<1>12. ASSUME NEW failed \in BOOLEAN, Finish(w, failed), failed \/ ~IsDir(root)
       PROVE  WalkInv'
  <2>1. Ended(w, failed)
    BY <1>7, <1>8, <1>12, FinishIs
  <2>2. /\ \A e \in w.found : Selected(w, e) /\ e \in seen'
        /\ IsFiniteSet(w.found) /\ Cardinality(w.found) = w.count /\ w.count <= w.options.limit
        /\ w.matches = {}
    BY <1>7, <1>8, <1>9
  <2>3. (~failed /\ ~w.cut) => \A s \in stable' : Selected(w, s) => s \in w.found
    BY <1>4, <1>10, <1>12
  <2>4. (~failed /\ w.cut) => /\ w.count = w.options.limit
                              /\ \E e \in seen' \ w.found : Selected(w, e)
    BY <1>8
  <2>5. FoundInv' /\ FrontierInv' /\ CoverInv' /\ DoneInv' /\ walk' \in WalkRecord
    BY <1>8, <2>1, <2>2, <2>3, <2>4, EndsRight
  <2> QED BY <1>4, <1>5, <1>6, <2>5 DEF WalkInv, WalkTypes
<1>13. CASE walk' = w /\ IsDir(root)
  <2>1. root \in Paths
    BY <1>5, <1>13 DEF IsDir, Exists, Whole
  <2>2. Passed(w, root)
    <3>1. Len(root) \in Nat /\ IsPrefix(root, root)
      BY <1>2, PrefixesOrder
    <3>2. Len(root) <= Len(root) + options.depth
      BY <1>9, <3>1
    <3>3. (Len(root) + 1)..Len(root) = {}
      BY <3>1
    <3> QED BY <1>8, <3>1, <3>2, <3>3 DEF Passed
  <2>3. w # Idle
    BY <1>8, RecordIs
  <2>4. FoundInv'
    <3>1. IsFiniteSet(w.found) /\ Cardinality(w.found) = w.count /\ w.count <= w.options.limit
          /\ w.found = {} /\ w.matches = {}
      BY <1>7, <1>8, <1>9
    <3> QED BY <1>13, <3>1 DEF FoundInv
  <2>5. FrontierInv'
    BY <1>8, <1>13, <2>1, <2>2, NothingWaits DEF FrontierInv
  <2>6. CoverInv'
    BY <1>4, <1>8, <1>10, <1>13 DEF CoverInv, Ahead
  <2>7. DoneInv'
    BY <1>8, <1>13 DEF DoneInv
  <2>8. WalkTypes'
    BY <1>4, <1>5, <1>8, <1>13 DEF WalkTypes
  <2> QED BY <1>6, <2>4, <2>5, <2>6, <2>7, <2>8 DEF WalkInv
<1> QED BY <1>11, <1>12, <1>13

LEMMA EndsStep ==
  ASSUME WalkInv, walk # Idle, Ends
  PROVE  WalkInv'
<1>1. /\ walk \in WalkRecord /\ IsFiniteSet(walk.found)
  BY WalkIs
<1>2. walk.pc = "look" /\ walk.pending = << >> /\ Finish(walk, FALSE) /\ Still /\ UNCHANGED ctx
  BY DEF Ends, Still
<1>3. Inv' /\ HistoryInv' /\ stable' = stable /\ seen' = seen
  BY <1>2, StillKeeps DEF WalkInv
<1>4. /\ \A f \in walk.found : Selected(walk, f) /\ f \in seen
      /\ Cardinality(walk.found) = walk.count /\ walk.count <= walk.options.limit
      /\ ~walk.cut /\ ~walk.failed /\ walk.matches = {}
  BY <1>2 DEF WalkInv, FoundInv, FrontierInv, Walking
<1>5. walk.failed = FALSE
  BY <1>1, <1>4, RecordIs
<1>6. Ended(walk, FALSE)
  BY <1>1, <1>2, <1>5, FinishIs
<1>7. \A s \in stable : Selected(walk, s) => s \in walk.found
  BY <1>2, NothingWaits DEF WalkInv, CoverInv, Walking, Ahead
<1>8. FoundInv' /\ FrontierInv' /\ CoverInv' /\ DoneInv' /\ walk' \in WalkRecord
  <2>1. \A f \in walk.found : Selected(walk, f) /\ f \in seen'
    BY <1>3, <1>4
  <2>2. FALSE \in BOOLEAN /\ (\A s \in stable' : Selected(walk, s) => s \in walk.found)
    BY <1>3, <1>7
  <2> QED BY <1>1, <1>4, <1>6, <2>1, <2>2, EndsRight
<1> QED BY <1>2, <1>3, <1>8 DEF WalkInv, WalkTypes

LEMMA ReturnStep ==
  ASSUME WalkInv, Return
  PROVE  WalkInv'
<1>1. /\ nodes' = nodes /\ last' = last /\ walk' = Idle /\ ctx' = "live"
  BY DEF Return
<1>2. Inv'
  BY <1>1 DEF WalkInv, Inv, Whole, DirIn
<1> QED BY <1>1, <1>2 DEF WalkInv, WalkTypes, HistoryInv, FoundInv, FrontierInv, CoverInv,
                        DoneInv, Walking

(* The context and the files of others are no part of what a walk found.   *)
LEMMA SameWalk ==
  ASSUME WalkInv, Inv', HistoryInv', walk' = walk, ctx' \in {"live", "cancelled"},
         walk # Idle => seen \subseteq seen' /\ stable' \subseteq stable
  PROVE  WalkInv'
<1>1. /\ \A e : Selected(walk, e)' <=> Selected(walk, e)
      /\ \A p : Passed(walk, p)' <=> Passed(walk, p)
      /\ \A s : Ahead(walk, s)' <=> Ahead(walk, s)
  BY DEF Selected, Passed, Ahead, Wanted
<1>2. FoundInv'
  BY <1>1 DEF WalkInv, FoundInv
<1> QED BY <1>1, <1>2 DEF WalkInv, WalkTypes, FrontierInv, CoverInv,
                        DoneInv, Walking

LEMMA FileStepKeeps ==
  ASSUME Careful, WalkInv, FileStep
  PROVE  WalkInv'
<1>1. Inv' /\ walk' = walk /\ ctx' = ctx
  BY NextDone DEF FileStep, WalkInv, Done
<1>2. CASE walk = Idle
  <2>1. HistoryInv'
    BY <1>1, <1>2 DEF HistoryInv
  <2> QED BY <1>1, <1>2, <2>1, SameWalk DEF WalkInv, WalkTypes
<1>3. CASE walk # Idle
  <2>1. stable' = stable \cap Entries' /\ seen' = seen \cup Entries'
    BY <1>3 DEF FileStep
  <2>2. HistoryInv'
    BY <2>1 DEF HistoryInv
  <2> QED BY <1>1, <2>1, <2>2, SameWalk DEF WalkInv, WalkTypes
<1> QED BY <1>2, <1>3

LEMMA IdleHasNoSteps ==
  ASSUME walk = Idle
  PROVE  ~WalkStep
BY DEF WalkStep, List, Ends, Return, Idle

LEMMA WalkInitInv == WalkInit => WalkInv
<1> SUFFICES ASSUME WalkInit PROVE WalkInv
  OBVIOUS
<1>1. Init /\ walk = Idle /\ ctx = "live"
  BY DEF WalkInit
<1> QED BY <1>1, InitInv DEF WalkInv, WalkTypes, HistoryInv, FoundInv, FrontierInv, CoverInv,
                             DoneInv, Walking

LEMMA WalkInvKept ==
  ASSUME Careful, WalkInv, [WalkNext]_walkVars
  PROVE  WalkInv'
<1>1. CASE FileStep
  BY <1>1, FileStepKeeps
<1>2. CASE WalkStep
  <2>1. walk # Idle
    BY <1>2, IdleHasNoSteps
  <2>2. CASE List
    BY <2>1, <2>2, ListStep
  <2>3. CASE Ends
    BY <2>1, <2>3, EndsStep
  <2>4. CASE Return
    BY <2>4, ReturnStep
  <2>5. CASE /\ walk.pc = "look"
             /\ walk.pending # << >>
             /\ \E e \in walk.pending[Len(walk.pending)] : Look(e)
    BY <2>1, <2>5, LookStep
  <2> QED BY <1>2, <2>2, <2>3, <2>4, <2>5 DEF WalkStep
<1>3. CASE Cancel \/ UNCHANGED walkVars
  <2>1. /\ nodes' = nodes /\ last' = last /\ walk' = walk /\ stable' = stable /\ seen' = seen
        /\ ctx' \in {"live", "cancelled"}
    BY <1>3 DEF Cancel, walkVars, history, WalkInv, WalkTypes
  <2>2. Inv'
    BY <2>1 DEF WalkInv, Inv, Whole, DirIn
  <2>3. Entries' = Entries
    BY <2>1 DEF Entries, Entry, IsDir, Exists
  <2>4. HistoryInv'
    BY <2>1, <2>3 DEF WalkInv, HistoryInv
  <2> QED BY <2>1, <2>2, <2>4, SameWalk
<1>4. CASE \E r \in Requests : Start(r)
  BY <1>4, StartStep
<1> QED BY <1>1, <1>2, <1>3, <1>4 DEF WalkNext

LEMMA ReadsWalk == ReadSpec => WalkSpec
<1>1. ReadInit => WalkInit
  BY DEF ReadInit
<1>2. [ReadNext]_readVars => [WalkNext]_walkVars
  BY DEF ReadNext, readVars, OpenFile, ReadStep, ReadAll, ReadLine, CancelRead, ReadReturns
<1> QED BY <1>1, <1>2, PTL DEF ReadSpec, WalkSpec

LEMMA WalkInvAlways ==
  ASSUME Careful
  PROVE  ReadSpec => []WalkInv
<1>1. WalkInv /\ [WalkNext]_walkVars => WalkInv'
  BY WalkInvKept
<1>2. WalkSpec => []WalkInv
  BY <1>1, WalkInitInv, PTL DEF WalkSpec
<1> QED BY <1>2, ReadsWalk, PTL

LEMMA WalkInvRight ==
  ASSUME WalkInv
  PROVE  WalkIsRight
<1>1. walk = Idle \/ walk \in WalkRecord
  BY DEF WalkInv, WalkTypes
<1>2. CASE walk = Idle
  BY <1>2 DEF WalkIsRight, WalkTypeOK, WalkIsSound, WalkIsComplete, Idle, WalkInv, WalkTypes
<1>3. CASE walk \in WalkRecord
  <2>1. walk # Idle /\ walk.pc \in {"list", "look", "done"} /\ walk.pending \in Seq((SUBSET Items) \ {{}})
        /\ walk.found \subseteq Items /\ walk.cut \in BOOLEAN
    BY <1>3, RecordIs
  <2>2. WalkTypeOK
    BY <2>1 DEF WalkTypeOK, WalkInv, WalkTypes, FoundInv, Items
  <2>3. WalkIsSound
    BY <2>1 DEF WalkIsSound, WalkInv, FoundInv
  <2>4. WalkIsComplete
    BY <2>1 DEF WalkIsComplete, WalkInv, DoneInv
  <2> QED BY <2>2, <2>3, <2>4 DEF WalkIsRight
<1> QED BY <1>1, <1>2, <1>3

(* Walk finds nothing but what the options select and what was there at    *)
(* some time meanwhile, each once and within the limit; and all of it that *)
(* was there all the time unless it says that it was cut short, whatever   *)
(* others create, remove and rename between its looks and listings.        *)
THEOREM WalksAreRight ==
  ASSUME Careful
  PROVE  ReadSpec => []WalkIsRight
BY WalkInvAlways, WalkInvRight, PTL

(* Walks and reads, in any order with the calls of others, leave listings  *)
(* right and files as they are.                                            *)
THEOREM ReadsKeepTheFiles ==
  ASSUME Careful
  PROVE  ReadSpec => []ListingAgrees /\ FilesAreKept
<1>1. WalkInv /\ [WalkNext]_walkVars => [Kept]_vars
  <2> SUFFICES ASSUME WalkInv, WalkNext \/ UNCHANGED walkVars PROVE Kept \/ UNCHANGED vars
    OBVIOUS
  <2>1. CASE FileStep
    BY <2>1, NextDone DEF FileStep, WalkInv, Done
  <2>2. CASE ~FileStep
    BY <2>2 DEF WalkNext, WalkStep, List, Ends, Return, Look, Cancel, Start, walkVars, vars
  <2> QED BY <2>1, <2>2
<1>2. ReadSpec => [][Kept]_vars
  BY WalkInvAlways, ReadsWalk, <1>1, PTL DEF WalkSpec
<1>3. WalkInv => ListingAgrees
  BY InvListing DEF WalkInv
<1> QED BY <1>2, <1>3, WalkInvAlways, KeptIsIt, PTL

-----------------------------------------------------------------------------
(* Patterns.  match[i][j] says that the rest of the pattern fits the rest  *)
(* of the names; as it says so by recursion over i, it is compared from    *)
(* the end of the pattern backwards with what Fits says of the rest.       *)
Cuts(pattern, p, i, j, c) ==
  /\ c[i - 1] = j - 1 /\ c[Len(pattern)] = Len(p)
  /\ \A k \in i..Len(pattern) :
       IF pattern[k] = DoubleStar THEN c[k - 1] <= c[k]
       ELSE c[k] = c[k - 1] + 1 /\ ElementMatches(pattern[k], p[c[k]])
FitsFrom(pattern, p, i, j) ==
  \E c \in [(i - 1)..Len(pattern) -> 0..Len(p)] : Cuts(pattern, p, i, j, c)

LEMMA FitsEnd ==
  ASSUME NEW pattern \in Seq(STRING), NEW p \in Seq(STRING), NEW j \in 1..(Len(p) + 1)
  PROVE  FitsFrom(pattern, p, Len(pattern) + 1, j) <=> j > Len(p)
<1> DEFINE n == Len(pattern)
           m == Len(p)
           i == n + 1
<1>1. n \in Nat /\ m \in Nat
  OBVIOUS
<1>2. (n + 1)..n = {} /\ i - 1 = n /\ (i - 1)..n = {n} /\ j - 1 \in 0..m
  BY <1>1
<1>3. ASSUME FitsFrom(pattern, p, i, j) PROVE j > m
  <2>1. PICK c \in [(i - 1)..n -> 0..m] : c[i - 1] = j - 1 /\ c[n] = m
    BY <1>3 DEF FitsFrom, Cuts
  <2> QED BY <1>1, <1>2, <2>1
<1>4. ASSUME j > m PROVE FitsFrom(pattern, p, i, j)
  <2> DEFINE c == [k \in {n} |-> m]
  <2>1. j - 1 = m /\ m \in 0..m
    BY <1>1, <1>4
  <2>2. c \in [(i - 1)..n -> 0..m] /\ c[i - 1] = j - 1 /\ c[n] = m
    BY <1>2, <2>1
  <2> HIDE DEF c
  <2>3. Cuts(pattern, p, i, j, c)
    BY <1>2, <2>2 DEF Cuts
  <2> QED BY <2>2, <2>3 DEF FitsFrom
<1> QED BY <1>3, <1>4

(* The first cut of the rest is where the next rest begins.                *)
LEMMA FitsNext ==
  ASSUME NEW pattern \in Seq(STRING), NEW p \in Seq(STRING),
         NEW i \in 1..Len(pattern), NEW j \in 1..(Len(p) + 1)
  PROVE  FitsFrom(pattern, p, i, j) <=>
           \E k \in 1..(Len(p) + 1) :
             /\ FitsFrom(pattern, p, i + 1, k)
             /\ IF pattern[i] = DoubleStar THEN j <= k
                ELSE k = j + 1 /\ ElementMatches(pattern[i], p[j])
<1> DEFINE n == Len(pattern)
           m == Len(p)
           One(x, y) == IF pattern[i] = DoubleStar THEN x <= y
                        ELSE y = x + 1 /\ ElementMatches(pattern[i], p[y])
<1>1. /\ n \in Nat /\ m \in Nat /\ i \in Nat /\ j \in Nat /\ i \in i..n /\ i \in (i - 1)..n
      /\ i - 1 \in (i - 1)..n /\ n \in (i - 1)..n /\ (i + 1) - 1 = i /\ n \in i..n /\ i - 1 # i
      /\ \A k \in (i + 1)..n : k \in i..n /\ k - 1 \in i..n /\ k # i - 1 /\ k - 1 # i - 1
      /\ \A k \in i..n : k \in (i - 1)..n /\ k # i - 1 /\ (k # i => k \in (i + 1)..n)
      /\ j - 1 \in 0..m /\ n # i - 1
  OBVIOUS
<1>2. ASSUME NEW k \in 1..(m + 1)
      PROVE  One(j - 1, k - 1) <=> IF pattern[i] = DoubleStar THEN j <= k
                                   ELSE k = j + 1 /\ ElementMatches(pattern[i], p[j])
  <2>1. k \in Nat /\ (j - 1 <= k - 1 <=> j <= k) /\ (k - 1 = j - 1 + 1 <=> k = j + 1)
        /\ (k = j + 1 => k - 1 = j)
    BY <1>1
  <2> QED BY <2>1
<1>3. ASSUME FitsFrom(pattern, p, i, j)
      PROVE  \E k \in 1..(m + 1) : FitsFrom(pattern, p, i + 1, k) /\ One(j - 1, k - 1)
  <2>1. PICK c \in [(i - 1)..n -> 0..m] : Cuts(pattern, p, i, j, c)
    BY <1>3 DEF FitsFrom
  <2>2. /\ c[i - 1] = j - 1 /\ c[n] = m
        /\ \A k \in i..n : IF pattern[k] = DoubleStar THEN c[k - 1] <= c[k]
                           ELSE c[k] = c[k - 1] + 1 /\ ElementMatches(pattern[k], p[c[k]])
    BY <2>1 DEF Cuts
  <2> DEFINE d == [k \in i..n |-> c[k]]
             k0 == c[i] + 1
  <2>3. c[i] \in 0..m
    BY <1>1
  <2>4. k0 \in 1..(m + 1) /\ k0 - 1 = c[i]
    BY <1>1, <2>3
  <2>5. One(j - 1, c[i])
    BY <1>1, <2>2
  <2>6. d \in [((i + 1) - 1)..n -> 0..m]
    BY <1>1
  <2>7. \A k \in i..n : d[k] = c[k]
    OBVIOUS
  <2> HIDE DEF d, One
  <2>8. Cuts(pattern, p, i + 1, k0, d)
    <3>1. d[(i + 1) - 1] = k0 - 1 /\ d[n] = m
      BY <1>1, <2>2, <2>4, <2>7
    <3>2. ASSUME NEW k \in (i + 1)..n
          PROVE  IF pattern[k] = DoubleStar THEN d[k - 1] <= d[k]
                 ELSE d[k] = d[k - 1] + 1 /\ ElementMatches(pattern[k], p[d[k]])
      <4>1. k \in i..n /\ d[k] = c[k] /\ d[k - 1] = c[k - 1]
        BY <1>1, <2>7
      <4> QED BY <2>2, <4>1
    <3> QED BY <3>1, <3>2 DEF Cuts
  <2>9. FitsFrom(pattern, p, i + 1, k0)
    BY <2>6, <2>8 DEF FitsFrom
  <2> HIDE DEF k0
  <2> QED BY <2>4, <2>5, <2>9
<1>4. ASSUME NEW k0 \in 1..(m + 1), FitsFrom(pattern, p, i + 1, k0), One(j - 1, k0 - 1)
      PROVE  FitsFrom(pattern, p, i, j)
  <2>1. PICK d \in [((i + 1) - 1)..n -> 0..m] : Cuts(pattern, p, i + 1, k0, d)
    BY <1>4 DEF FitsFrom
  <2>2. /\ d[i] = k0 - 1 /\ d[n] = m
        /\ \A k \in (i + 1)..n : IF pattern[k] = DoubleStar THEN d[k - 1] <= d[k]
                           ELSE d[k] = d[k - 1] + 1 /\ ElementMatches(pattern[k], p[d[k]])
    BY <1>1, <2>1 DEF Cuts
  <2> DEFINE c == [k \in (i - 1)..n |-> IF k = i - 1 THEN j - 1 ELSE d[k]]
  <2>3. \A k \in i..n : d[k] \in 0..m
    BY <1>1, <2>1
  <2>4. c \in [(i - 1)..n -> 0..m]
    <3>1. \A k \in (i - 1)..n : k # i - 1 => k \in i..n
      BY <1>1
    <3> QED BY <1>1, <2>3, <3>1
  <2>5. c[i - 1] = j - 1 /\ \A k \in i..n : c[k] = d[k]
    BY <1>1
  <2> HIDE DEF c
  <2>6. ASSUME NEW k \in i..n
        PROVE  IF pattern[k] = DoubleStar THEN c[k - 1] <= c[k]
               ELSE c[k] = c[k - 1] + 1 /\ ElementMatches(pattern[k], p[c[k]])
    <3>1. CASE k = i
      BY <1>1, <1>4, <2>2, <2>5, <3>1
    <3>2. CASE k # i
      <4>1. k \in (i + 1)..n /\ k - 1 \in i..n
        BY <1>1, <3>2
      <4>2. c[k] = d[k] /\ c[k - 1] = d[k - 1]
        BY <2>5, <4>1
      <4> QED BY <2>2, <4>1, <4>2
    <3> QED BY <3>1, <3>2
  <2>7. Cuts(pattern, p, i, j, c)
    BY <1>1, <2>2, <2>5, <2>6 DEF Cuts
  <2> QED BY <2>4, <2>7 DEF FitsFrom
<1> HIDE DEF One
<1> QED BY <1>2, <1>3, <1>4

Rows(pattern, p, f) ==
  f = [i \in 1..(Len(pattern) + 1) |->
         [j \in 1..(Len(p) + 1) |->
            IF i > Len(pattern) THEN j > Len(p)
            ELSE IF pattern[i] = DoubleStar THEN \E k \in j..(Len(p) + 1) : f[i + 1][k]
            ELSE j <= Len(p) /\ ElementMatches(pattern[i], p[j]) /\ f[i + 1][j + 1]]]

LEMMA RowsExist ==
  ASSUME NEW pattern \in Seq(STRING), NEW p \in Seq(STRING)
  PROVE  \E f : Rows(pattern, p, f)
<1> DEFINE n == Len(pattern)
           m == Len(p)
           F(i, j) == FitsFrom(pattern, p, i, j)
           f == [i \in 1..(n + 1) |-> [j \in 1..(m + 1) |-> F(i, j)]]
<1>1. n \in Nat /\ m \in Nat
  OBVIOUS
<1>2. \A i \in 1..(n + 1), j \in 1..(m + 1) : f[i][j] = F(i, j)
  OBVIOUS
<1>3. ASSUME NEW i \in 1..(n + 1), NEW j \in 1..(m + 1)
      PROVE  F(i, j) = IF i > n THEN j > m
                       ELSE IF pattern[i] = DoubleStar THEN \E k \in j..(m + 1) : f[i + 1][k]
                       ELSE j <= m /\ ElementMatches(pattern[i], p[j]) /\ f[i + 1][j + 1]
  <2> HIDE DEF f
  <2>0. F(i, j) \in BOOLEAN
    BY DEF FitsFrom
  <2>1. CASE i > n
    <3>1. i = n + 1
      BY <1>1, <2>1
    <3>2. F(i, j) <=> j > m
      BY <3>1, FitsEnd
    <3> HIDE DEF F
    <3> QED BY <2>0, <2>1, <3>2
  <2>2. CASE ~(i > n)
    <3>1. i \in 1..n /\ i + 1 \in 1..(n + 1)
      BY <1>1, <2>2
    <3>2. F(i, j) <=>
           \E k \in 1..(m + 1) :
             /\ F(i + 1, k)
             /\ IF pattern[i] = DoubleStar THEN j <= k
                ELSE k = j + 1 /\ ElementMatches(pattern[i], p[j])
      BY <3>1, FitsNext
    <3> HIDE DEF F
    <3>3. \A k \in 1..(m + 1) : f[i + 1][k] = F(i + 1, k)
      BY <1>2, <3>1
    <3>4. CASE pattern[i] = DoubleStar
      <4>1. \A k : k \in j..(m + 1) <=> k \in 1..(m + 1) /\ j <= k
        BY <1>1
      <4> QED BY <2>0, <2>2, <3>2, <3>3, <3>4, <4>1
    <3>5. CASE pattern[i] # DoubleStar
      <4>1. j <= m <=> j + 1 \in 1..(m + 1)
        BY <1>1
      <4> QED BY <2>0, <2>2, <3>2, <3>3, <3>5, <4>1
    <3> QED BY <3>4, <3>5
  <2> QED BY <2>1, <2>2
<1>4. f = [i \in 1..(n + 1) |-> [j \in 1..(m + 1) |->
         IF i > n THEN j > m
         ELSE IF pattern[i] = DoubleStar THEN \E k \in j..(m + 1) : f[i + 1][k]
         ELSE j <= m /\ ElementMatches(pattern[i], p[j]) /\ f[i + 1][j + 1]]]
  <2> DEFINE V(i, j) == IF i > n THEN j > m
                        ELSE IF pattern[i] = DoubleStar THEN \E k \in j..(m + 1) : f[i + 1][k]
                        ELSE j <= m /\ ElementMatches(pattern[i], p[j]) /\ f[i + 1][j + 1]
  <2>1. \A i \in 1..(n + 1), j \in 1..(m + 1) : F(i, j) = V(i, j)
    BY <1>3
  <2> HIDE DEF F, V
  <2>2. f = [i \in 1..(n + 1) |-> [j \in 1..(m + 1) |-> V(i, j)]]
    BY <2>1
  <2> QED BY <2>2 DEF V
<1> QED BY <1>4 DEF Rows

(* matchSegments says yes of a pattern and a path exactly when the path    *)
(* can be cut into one piece for each element of the pattern, whatever     *)
(* their lengths and however many ** there are.                            *)
THEOREM MatchMeansFits ==
  ASSUME NEW pattern \in Seq(STRING), NEW p \in Seq(STRING)
  PROVE  MatchSegments(pattern, p) <=> Fits(pattern, p)
<1> DEFINE n == Len(pattern)
           m == Len(p)
           f == CHOOSE g : Rows(pattern, p, g)
           F(i, j) == FitsFrom(pattern, p, i, j)
           S == {d \in Nat : d <= n => \A j \in 1..(m + 1) : f[n + 1 - d][j] <=> F(n + 1 - d, j)}
<1>1. n \in Nat /\ m \in Nat
  OBVIOUS
<1>2. Rows(pattern, p, f)
  BY RowsExist
<1>3. MatchSegments(pattern, p) = f[1][1]
  <2>1. f = CHOOSE g : g = [i \in 1..(n + 1) |->
         [j \in 1..(m + 1) |->
            IF i > n THEN j > m
            ELSE IF pattern[i] = DoubleStar THEN \E k \in j..(m + 1) : g[i + 1][k]
            ELSE j <= m /\ ElementMatches(pattern[i], p[j]) /\ g[i + 1][j + 1]]]
    BY DEF Rows
  <2> QED BY <2>1 DEF MatchSegments
<1> HIDE DEF f
<1>4. \A i \in 1..(n + 1), j \in 1..(m + 1) :
        f[i][j] = IF i > n THEN j > m
                  ELSE IF pattern[i] = DoubleStar THEN \E k \in j..(m + 1) : f[i + 1][k]
                  ELSE j <= m /\ ElementMatches(pattern[i], p[j]) /\ f[i + 1][j + 1]
  BY <1>2 DEF Rows
<1>5. 0 \in S
  <2>1. n + 1 - 0 = n + 1 /\ n + 1 \in 1..(n + 1) /\ n + 1 > n
    BY <1>1
  <2>2. ASSUME NEW j \in 1..(m + 1) PROVE f[n + 1][j] <=> F(n + 1, j)
    BY <1>4, <2>1, FitsEnd
  <2> HIDE DEF F
  <2> QED BY <2>1, <2>2
<1>6. ASSUME NEW d \in S PROVE d + 1 \in S
  <2> SUFFICES ASSUME d + 1 <= n, NEW j \in 1..(m + 1)
               PROVE  f[n + 1 - (d + 1)][j] <=> F(n + 1 - (d + 1), j)
    OBVIOUS
  <2> DEFINE i == n - d
  <2>1. n + 1 - (d + 1) = i /\ i \in 1..n /\ i \in 1..(n + 1) /\ ~(i > n) /\ n + 1 - d = i + 1
        /\ d <= n
    BY <1>1
  <2>2. \A k \in 1..(m + 1) : f[i + 1][k] <=> F(i + 1, k)
    BY <2>1
  <2> HIDE DEF i
  <2>3. F(i, j) <=>
           \E k \in 1..(m + 1) :
             /\ F(i + 1, k)
             /\ IF pattern[i] = DoubleStar THEN j <= k
                ELSE k = j + 1 /\ ElementMatches(pattern[i], p[j])
    BY <2>1, FitsNext
  <2> HIDE DEF F
  <2>4. \A k : k \in j..(m + 1) <=> k \in 1..(m + 1) /\ j <= k
    BY <1>1
  <2>5. j <= m <=> j + 1 \in 1..(m + 1)
    BY <1>1
  <2>6. f[i][j] = IF pattern[i] = DoubleStar THEN \E k \in j..(m + 1) : f[i + 1][k]
                  ELSE j <= m /\ ElementMatches(pattern[i], p[j]) /\ f[i + 1][j + 1]
    BY <1>4, <2>1
  <2>7. f[i][j] <=> F(i, j)
    <3>1. CASE pattern[i] = DoubleStar
      BY <2>2, <2>3, <2>4, <2>6, <3>1
    <3>2. CASE pattern[i] # DoubleStar
      BY <2>2, <2>3, <2>5, <2>6, <3>2
    <3> QED BY <3>1, <3>2
  <2> QED BY <2>1, <2>7
<1>7. n \in S
  <2> HIDE DEF S
  <2>1. S \subseteq Nat
    BY DEF S
  <2> QED BY <1>1, <1>5, <1>6, <2>1, AllNumbers
<1>8. f[1][1] <=> F(1, 1)
  <2>1. n + 1 - n = 1 /\ n <= n /\ 1 \in 1..(m + 1)
    BY <1>1
  <2> HIDE DEF F
  <2> QED BY <1>7, <2>1
<1>9. F(1, 1) <=> Fits(pattern, p)
  <2>1. 1 - 1 = 0 /\ DOMAIN pattern = 1..n
    BY <1>1
  <2> QED BY <2>1 DEF FitsFrom, Cuts, Fits
<1> HIDE DEF F
<1> QED BY <1>3, <1>8, <1>9

LEMMA CompileIs ==
  ASSUME NEW r \in Requests, r.kind = "glob"
  PROVE  Compile(r.pattern) \subseteq Seq(STRING)
<1> DEFINE b == r.pattern.before
           a == r.pattern.after
           alt == r.pattern.braces
<1>1. b \in Seq(STRING) /\ a \in Seq(STRING) /\ alt \in Seq(Seq(STRING))
  BY RequestsAssumption DEF RequestSet
<1>2. \A x \in Seq(STRING), y \in Seq(STRING) : x \o y \in Seq(STRING)
  BY ConcatProperties
<1>3. \A i \in DOMAIN alt : alt[i] \in Seq(STRING)
  BY <1>1, LenProperties, ElementOfSeq
<1>4. b \o a \in Seq(STRING) /\ \A i \in DOMAIN alt : b \o alt[i] \o a \in Seq(STRING)
  BY <1>1, <1>2, <1>3
<1> HIDE DEF b, a, alt
<1>5. Compile(r.pattern) \subseteq {b \o a} \cup {b \o alt[i] \o a : i \in DOMAIN alt}
  BY DEF Compile, b, a, alt
<1> QED BY <1>4, <1>5

LEMMA GlobInvRight ==
  ASSUME WalkInv
  PROVE  GlobIsRight
<1> SUFFICES ASSUME walk.pc = "done", walk.request.kind = "glob", ~walk.failed
             PROVE  GlobIsRight
  BY DEF GlobIsRight
<1> DEFINE patterns == Compile(walk.request.pattern)
           fits(e) == \E pattern \in patterns :
                        Fits(pattern, Below0(walk.root, e.path)) \/ Fits(pattern, e.path)
<1>1. walk # Idle
  BY DEF Idle
<1>2. /\ walk \in WalkRecord /\ walk.root \in Seq(STRING) /\ walk.found \subseteq Items
      /\ stable \subseteq Items /\ walk.request \in Requests
  BY <1>1, WalkIs, RecordIs
<1>3. /\ ~walk.cut => \A s \in stable : Selected(walk, s) => s \in walk.found
      /\ walk.matches \subseteq Matching(walk)
      /\ ~walk.cut => walk.matches = Matching(walk)
      /\ Cardinality(walk.matches) <= ResultLimit(walk.request)
  BY <1>1 DEF WalkInv, DoneInv
<1>4. patterns \subseteq Seq(STRING)
  BY <1>2, CompileIs
<1>5. \A f \in walk.found : Selected(walk, f)
  BY <1>1 DEF WalkInv, FoundInv
<1> HIDE DEF patterns
<1>6. ASSUME NEW e \in Items, Selected(walk, e)
      PROVE  fits(e) <=> Match(patterns, Below0(walk.root, e.path)) \/ Match(patterns, e.path)
  <2> DEFINE rel == Below0(walk.root, e.path)
  <2>1. e.path \in Seq(STRING) /\ IsPrefix(walk.root, e.path) /\ rel # << >>
    BY <1>6, PathsAssumption DEF Selected, Items
  <2>2. rel \in Seq(STRING) /\ Len(e.path) > Len(walk.root)
    BY <1>2, <2>1, RelativeIs
  <2>3. e.path # << >>
    BY <1>2, <2>1, <2>2, LenProperties, EmptySeq
  <2> HIDE DEF rel
  <2>4. \A pattern \in patterns :
          /\ MatchSegments(pattern, rel) <=> Fits(pattern, rel)
          /\ MatchSegments(pattern, e.path) <=> Fits(pattern, e.path)
    BY <1>4, <2>1, <2>2, MatchMeansFits
  <2> QED BY <2>1, <2>3, <2>4 DEF Match, rel
<1>7. ASSUME NEW e \in Items, Selected(walk, e)
      PROVE  e \in Matching(walk) <=> e \in walk.found /\ fits(e)
  BY <1>6, <1>7 DEF Matching, patterns
<1>8. \A e \in walk.matches : fits(e)
  BY <1>2, <1>3, <1>5, <1>7 DEF Matching
<1>9. ~walk.cut => \A e \in stable : (Selected(walk, e) /\ fits(e)) => e \in walk.matches
  BY <1>2, <1>3, <1>7
<1> QED BY <1>3, <1>8, <1>9 DEF GlobIsRight, patterns

(* Glob answers nothing but what one of the pattern's alternatives fits,   *)
(* from the base or from the top, no more than its limit, and, unless it   *)
(* says that it left some out, all of it that was there all the time.      *)
THEOREM GlobsAreRight ==
  ASSUME Careful
  PROVE  ReadSpec => []GlobIsRight
BY WalkInvAlways, GlobInvRight, PTL

-----------------------------------------------------------------------------
(* A read under way: how far it has come, and what it has taken so far.    *)
ReadRecord ==
  [pc : {"limit", "lines", "done"}, request : ReadRequests, data : Seq(STRING),
   rest : Seq(STRING), line : Nat, out : Seq(STRING), truncated : BOOLEAN,
   failed : BOOLEAN, ctx : {"live", "cancelled"}]

Pos(state) == Len(state.data) - Len(state.rest)
Before(r, bytes) == Cardinality({i \in DOMAIN bytes : LineOf(bytes, i) < First(r)})
UpTo(r, bytes) ==
  Cardinality({i \in DOMAIN bytes : r.end <= 0 \/ LineOf(bytes, i) <= Last(r)})

(* The place is the beginning of a line of the window or before it, and    *)
(* what was taken is all of the window that lies before the place.         *)
PlaceInv(state) ==
  LET r == state.request
      bytes == state.data
      pos == Pos(state) IN
  /\ r.kind = "lines" /\ pos \in 0..Len(bytes)
  /\ state.rest = SubSeq(bytes, pos + 1, Len(bytes))
  /\ pos = 0 \/ bytes[pos] = NewLine
  /\ state.line = LineOf(bytes, pos + 1)
  /\ Last(r) > 0 => state.line <= Last(r)
  /\ state.out = SubSeq(bytes, Before(r, bytes) + 1, pos)
  /\ r.max > 0 => Len(state.out) <= r.max
  /\ state.truncated = FALSE

ReadInv ==
  /\ reading = NoRead \/ reading \in ReadRecord
  /\ reading.pc = "limit" => reading.request.kind = "limit"
  /\ reading.pc = "lines" => PlaceInv(reading)
  /\ ReadIsRight

(* Slices: what lies after place a up to place b.                          *)
LEMMA SliceIs ==
  ASSUME NEW s \in Seq(STRING), NEW a \in Nat, NEW b \in 0..Len(s)
  PROVE  /\ SubSeq(s, a + 1, b) \in Seq(STRING)
         /\ Len(SubSeq(s, a + 1, b)) = IF a < b THEN b - a ELSE 0
         /\ \A i \in 1..(b - a) : SubSeq(s, a + 1, b)[i] = s[a + i]
         /\ b <= a => SubSeq(s, a + 1, b) = << >>
<1> DEFINE m == a + 1
           t == SubSeq(s, m, b)
<1>1. Len(s) \in Nat /\ m \in Int /\ b \in Int /\ a \in Nat /\ b \in Nat /\ b <= Len(s)
  OBVIOUS
<1>2. \A i \in m..b : s[i] \in STRING
  BY <1>1, ElementOfSeq
<1>3. /\ t \in Seq(STRING) /\ Len(t) = IF m <= b THEN b - m + 1 ELSE 0
      /\ \A i \in 1..(b - m + 1) : t[i] = s[m + i - 1]
  BY <1>1, <1>2, SubSeqProperties
<1> HIDE DEF t
<1>4. (m <= b <=> a < b) /\ b - m + 1 = b - a /\ \A i \in 1..(b - a) : m + i - 1 = a + i
  BY <1>1
<1>5. Len(t) = IF a < b THEN b - a ELSE 0
  BY <1>3, <1>4
<1>6. b <= a => t = << >>
  BY <1>1, <1>3, <1>5, EmptySeq
<1>7. \A i \in 1..(b - a) : t[i] = s[a + i]
  BY <1>3, <1>4
<1> QED BY <1>3, <1>5, <1>6, <1>7 DEF t

LEMMA SlicesJoin ==
  ASSUME NEW s \in Seq(STRING), NEW a \in Nat, NEW b \in Nat, NEW c \in 0..Len(s),
         a <= b, b <= c
  PROVE  SubSeq(s, a + 1, b) \o SubSeq(s, b + 1, c) = SubSeq(s, a + 1, c)
<1> DEFINE x == SubSeq(s, a + 1, b)
           y == SubSeq(s, b + 1, c)
           z == SubSeq(s, a + 1, c)
<1>1. Len(s) \in Nat /\ c \in Nat /\ b \in 0..Len(s)
  OBVIOUS
<1>2a. /\ (IF a < b THEN b - a ELSE 0) = b - a /\ (IF b < c THEN c - b ELSE 0) = c - b
       /\ (IF a < c THEN c - a ELSE 0) = c - a
  BY <1>1
<1>2b. x \in Seq(STRING) /\ Len(x) = b - a /\ \A i \in 1..(b - a) : x[i] = s[a + i]
  <2>1. /\ x \in Seq(STRING) /\ Len(x) = IF a < b THEN b - a ELSE 0
        /\ \A i \in 1..(b - a) : x[i] = s[a + i]
    BY <1>1, SliceIs
  <2> HIDE DEF x
  <2> QED BY <1>2a, <2>1
<1>2c. y \in Seq(STRING) /\ Len(y) = c - b /\ \A i \in 1..(c - b) : y[i] = s[b + i]
  <2>1. /\ y \in Seq(STRING) /\ Len(y) = IF b < c THEN c - b ELSE 0
        /\ \A i \in 1..(c - b) : y[i] = s[b + i]
    BY <1>1, SliceIs
  <2> HIDE DEF y
  <2> QED BY <1>2a, <2>1
<1>2d. z \in Seq(STRING) /\ Len(z) = c - a /\ \A i \in 1..(c - a) : z[i] = s[a + i]
  <2>1. /\ z \in Seq(STRING) /\ Len(z) = IF a < c THEN c - a ELSE 0
        /\ \A i \in 1..(c - a) : z[i] = s[a + i]
    BY <1>1, SliceIs
  <2> HIDE DEF z
  <2> QED BY <1>2a, <2>1
<1>2. /\ x \in Seq(STRING) /\ Len(x) = b - a /\ \A i \in 1..(b - a) : x[i] = s[a + i]
      /\ y \in Seq(STRING) /\ Len(y) = c - b /\ \A i \in 1..(c - b) : y[i] = s[b + i]
      /\ z \in Seq(STRING) /\ Len(z) = c - a /\ \A i \in 1..(c - a) : z[i] = s[a + i]
  BY <1>2b, <1>2c, <1>2d
<1> HIDE DEF x, y, z
<1>3. /\ x \o y \in Seq(STRING) /\ Len(x \o y) = (b - a) + (c - b)
      /\ \A i \in 1..((b - a) + (c - b)) :
           (x \o y)[i] = IF i <= b - a THEN x[i] ELSE y[i - (b - a)]
  <2>1. /\ x \o y \in Seq(STRING) /\ Len(x \o y) = Len(x) + Len(y)
        /\ \A i \in 1..(Len(x) + Len(y)) :
             (x \o y)[i] = IF i <= Len(x) THEN x[i] ELSE y[i - Len(x)]
    BY <1>2, ConcatProperties
  <2>2. Len(x) = b - a /\ Len(y) = c - b
    BY <1>2
  <2> QED BY <2>1, <2>2
<1>4. (b - a) + (c - b) = c - a
  BY <1>1
<1>5. ASSUME NEW i \in 1..(c - a) PROVE (x \o y)[i] = z[i]
  <2>1. CASE i <= b - a
    <3>1. i \in 1..(b - a)
      BY <1>1, <2>1
    <3> QED BY <1>2, <1>3, <1>4, <2>1, <3>1
  <2>2. CASE ~(i <= b - a)
    <3>1. i - (b - a) \in 1..(c - b) /\ b + (i - (b - a)) = a + i
      BY <1>1, <2>2
    <3> QED BY <1>2, <1>3, <1>4, <2>2, <3>1
  <2> QED BY <2>1, <2>2
<1> QED BY <1>2, <1>3, <1>4, <1>5, SeqEqual DEF x, y, z

LEMMA SliceOfSlice ==
  ASSUME NEW s \in Seq(STRING), NEW a \in Nat, NEW b \in 0..Len(s), a <= b,
         NEW i \in Nat, NEW j \in 0..(b - a), i <= j
  PROVE  SubSeq(SubSeq(s, a + 1, b), i + 1, j) = SubSeq(s, (a + i) + 1, a + j)
<1> DEFINE x == SubSeq(s, a + 1, b)
           y == SubSeq(x, i + 1, j)
           z == SubSeq(s, (a + i) + 1, a + j)
<1>1. Len(s) \in Nat /\ b \in Nat /\ j \in Nat /\ a + i \in Nat /\ a + j \in 0..Len(s)
      /\ (a < b => b - a = b - a) /\ (~(a < b) => b - a = 0)
      /\ (a + j) - (a + i) = j - i
  OBVIOUS
<1>2. x \in Seq(STRING) /\ Len(x) = b - a /\ \A k \in 1..(b - a) : x[k] = s[a + k]
  BY <1>1, SliceIs
<1> HIDE DEF x
<1>2a. (IF i < j THEN j - i ELSE 0) = j - i /\ (a + i < a + j <=> i < j)
  BY <1>1
<1>3. y \in Seq(STRING) /\ Len(y) = j - i /\ \A k \in 1..(j - i) : y[k] = x[i + k]
  <2>1. j \in 0..Len(x)
    BY <1>2
  <2>2. /\ y \in Seq(STRING) /\ Len(y) = IF i < j THEN j - i ELSE 0
        /\ \A k \in 1..(j - i) : y[k] = x[i + k]
    BY <1>2, <2>1, SliceIs
  <2> HIDE DEF y
  <2> QED BY <1>2a, <2>2
<1>4. z \in Seq(STRING) /\ Len(z) = j - i /\ \A k \in 1..(j - i) : z[k] = s[(a + i) + k]
  <2>1. /\ z \in Seq(STRING)
        /\ Len(z) = IF a + i < a + j THEN (a + j) - (a + i) ELSE 0
        /\ \A k \in 1..((a + j) - (a + i)) : z[k] = s[(a + i) + k]
    BY <1>1, SliceIs
  <2> HIDE DEF z
  <2> QED BY <1>1, <1>2a, <2>1
<1> HIDE DEF y, z
<1>5. \A k \in 1..(j - i) : i + k \in 1..(b - a) /\ a + (i + k) = (a + i) + k
  BY <1>1
<1>6. \A k \in 1..(j - i) : y[k] = z[k]
  BY <1>2, <1>3, <1>4, <1>5
<1> QED BY <1>3, <1>4, <1>6, SeqEqual DEF x, y, z

(* A set of places that reaches down to the first holds as many as its     *)
(* last one says.                                                          *)
LEMMA PlacesCount ==
  ASSUME NEW n \in Nat, NEW S, S \subseteq 1..n,
         \A i \in S : \A j \in 1..i : j \in S
  PROVE  Cardinality(S) \in 0..n /\ \A i \in 1..n : i \in S <=> i <= Cardinality(S)
<1> DEFINE T == {i \in Nat : i + 1 \notin S}
<1>1. T \subseteq Nat /\ n \in T
  OBVIOUS
<1>2. PICK t \in T : \A i \in T : t <= i
  <2> HIDE DEF T
  <2> QED BY <1>1, Least
<1>3. t \in 0..n
  BY <1>1, <1>2
<1>4. ASSUME NEW i \in 1..n PROVE i \in S <=> i <= t
  <2>1. CASE i <= t
    <3>1. i - 1 \in Nat /\ ~(t <= i - 1) /\ (i - 1) + 1 = i
      BY <1>3, <2>1
    <3> QED BY <1>2, <2>1, <3>1
  <2>2. CASE ~(i <= t)
    <3>1. t + 1 \in 1..i /\ t + 1 \notin S
      BY <1>2, <1>3, <2>2
    <3> QED BY <2>2, <3>1
  <2> QED BY <2>1, <2>2
<1> HIDE DEF T
<1>5. S = 1..t
  <2>1. \A i : i \in 1..t <=> i \in 1..n /\ i <= t
    BY <1>3
  <2> QED BY <1>4, <2>1
<1>6. Cardinality(1..t) = t
  <2>1. 1 \in Int /\ t \in Int
    BY <1>3
  <2>2. Cardinality(1..t) = IF 1 > t THEN 0 ELSE t - 1 + 1
    BY <2>1, FS_Interval
  <2> QED BY <1>3, <2>2
<1> QED BY <1>3, <1>4, <1>5, <1>6

(* Lines are numbered upwards, from 1.                                     *)
LEMMA LinesAre ==
  ASSUME NEW s \in Seq(STRING)
  PROVE  /\ IsFiniteSet(LineEnds(s)) /\ LineEnds(s) \subseteq 1..Len(s)
         /\ \A i \in Int : LineOf(s, i) \in Nat /\ LineOf(s, i) >= 1
         /\ \A i, j \in Int : i <= j => LineOf(s, i) <= LineOf(s, j)
         /\ LineOf(s, 1) = 1 /\ LineOf(s, Len(s) + 1) = 1 + Cardinality(LineEnds(s))
<1> DEFINE n == Len(s)
           E == LineEnds(s)
           To(i) == {k \in E : k < i}
<1>1. n \in Nat /\ DOMAIN s = 1..n /\ E \subseteq 1..n
  BY DEF LineEnds
<1> HIDE DEF E, n
<1>2. IsFiniteSet(E)
  <2>1. IsFiniteSet(1..n)
    BY <1>1, FS_Interval
  <2> QED BY <1>1, <2>1, FS_Subset
<1>3. \A i : IsFiniteSet(To(i)) /\ Cardinality(To(i)) \in Nat
  BY <1>2, FS_Subset, FS_CardinalityType
<1>4. \A i : LineOf(s, i) = 1 + Cardinality(To(i))
  BY DEF LineOf, E
<1>5. ASSUME NEW i \in Int, NEW j \in Int, i <= j
      PROVE  Cardinality(To(i)) <= Cardinality(To(j))
  <2>1. \A k \in E : k \in Int
    BY <1>1
  <2>2. To(i) \subseteq To(j)
    BY <1>5, <2>1
  <2> HIDE DEF To
  <2> QED BY <1>3, <2>2, FS_Subset
<1>6. To(1) = {} /\ To(n + 1) = E
  <2>1. \A k \in E : ~(k < 1) /\ k < n + 1
    BY <1>1
  <2> QED BY <2>1
<1> HIDE DEF To
<1>7. LineOf(s, 1) = 1 /\ LineOf(s, n + 1) = 1 + Cardinality(E)
  <2>1. Cardinality(To(1)) = 0
    BY <1>6, FS_EmptySet
  <2> QED BY <1>4, <1>6, <2>1
<1>8. \A i \in Int : LineOf(s, i) \in Nat /\ LineOf(s, i) >= 1
  BY <1>3, <1>4
<1>9. \A i, j \in Int : i <= j => LineOf(s, i) <= LineOf(s, j)
  BY <1>3, <1>4, <1>5
<1> QED BY <1>1, <1>2, <1>7, <1>8, <1>9 DEF E, n

(* The line that begins after place pos.                                   *)
LEMMA NextLineIs ==
  ASSUME NEW s \in Seq(STRING), NEW pos \in 0..Len(s)
  PROVE  LET rest == SubSeq(s, pos + 1, Len(s))
             length == LineLength(rest) IN
         /\ rest \in Seq(STRING) /\ Len(rest) = Len(s) - pos
         /\ length \in 0..Len(rest) /\ pos + length \in pos..Len(s)
         /\ \A i \in (pos + 1)..(pos + length) : LineOf(s, i) = LineOf(s, pos + 1)
         /\ LineEnds(rest) = {} => length = Len(rest) /\ pos + length = Len(s)
                                   /\ LineOf(s, Len(s) + 1) = LineOf(s, pos + 1)
         /\ LineEnds(rest) # {} =>
              /\ length \in 1..Len(rest) /\ s[pos + length] = NewLine
              /\ LineOf(s, pos + length + 1) = LineOf(s, pos + 1) + 1
<1> DEFINE n == Len(s)
           rest == SubSeq(s, pos + 1, n)
           length == LineLength(rest)
           E == LineEnds(rest)
           F == LineEnds(s)
           To(i) == {j \in F : j < i}
<1>1. n \in Nat /\ pos \in Nat /\ n \in 0..n /\ pos <= n
  OBVIOUS
<1>2. rest \in Seq(STRING) /\ Len(rest) = n - pos /\ \A i \in 1..(n - pos) : rest[i] = s[pos + i]
  BY <1>1, SliceIs
<1> HIDE DEF rest
<1>3. E \subseteq 1..(n - pos) /\ \A i \in 1..(n - pos) : i \in E <=> s[pos + i] = NewLine
  BY <1>1, <1>2 DEF LineEnds
<1>4. F \subseteq 1..n /\ IsFiniteSet(F) /\ \A i \in 1..n : i \in F <=> s[i] = NewLine
  BY LinesAre DEF LineEnds
<1>5. /\ E = {} => length = n - pos
      /\ E # {} => length \in E /\ \A j \in E : length <= j
  <2>1. CASE E = {}
    BY <1>2, <2>1 DEF LineLength
  <2>2. CASE E # {}
    <3>1. E \subseteq Nat
      BY <1>1, <1>3
    <3>2. \E i \in E : \A j \in E : i <= j
      BY <2>2, <3>1, Least
    <3> QED BY <2>2, <3>2 DEF LineLength
  <2> QED BY <2>1, <2>2
<1> HIDE DEF E, F, length
<1>6. /\ length \in 0..(n - pos) /\ pos + length \in pos..n
      /\ E = {} => pos + length = n
      /\ E # {} => length \in 1..(n - pos) /\ s[pos + length] = NewLine
  <2>1. CASE E = {}
    BY <1>1, <1>5, <2>1
  <2>2. CASE E # {}
    <3>1. length \in 1..(n - pos) /\ s[pos + length] = NewLine
      BY <1>3, <1>5, <2>2
    <3> QED BY <1>1, <2>2, <3>1
  <2> QED BY <2>1, <2>2
<1>6a. \A j \in F : j \in 1..n
  BY <1>4
<1>7. ASSUME NEW j \in F, j > pos, E = {} \/ j < pos + length PROVE FALSE
  <2>1. j - pos \in 1..(n - pos) /\ pos + (j - pos) = j
    BY <1>1, <1>6a, <1>7
  <2>2. j - pos \in E
    BY <1>3, <1>4, <1>6a, <2>1
  <2>3. E # {} /\ length <= j - pos /\ j < pos + length /\ length \in Nat
    BY <1>5, <1>6, <1>7, <2>2
  <2> QED BY <1>1, <2>1, <2>3
<1>8. ASSUME NEW i \in (pos + 1)..(pos + length) PROVE To(i) = To(pos + 1)
  <2>1. i \in Nat /\ pos + 1 <= i /\ i <= pos + length /\ length \in Nat
    BY <1>1, <1>6
  <2>2. ASSUME NEW j \in F PROVE j < i <=> j < pos + 1
    <3>1. j \in Nat /\ ~(j > pos /\ j < pos + length)
      BY <1>6a, <1>7
    <3> QED BY <1>1, <2>1, <3>1
  <2> QED BY <2>2
<1>9. \A i \in (pos + 1)..(pos + length) : LineOf(s, i) = LineOf(s, pos + 1)
  BY <1>8 DEF LineOf, F
<1>10. E = {} => To(n + 1) = To(pos + 1)
  <2>1. ASSUME E = {}, NEW j \in F PROVE j < n + 1 <=> j < pos + 1
    <3>1. j \in 1..n /\ ~(j > pos)
      BY <1>6a, <1>7, <2>1
    <3> QED BY <1>1, <3>1
  <2> QED BY <2>1
<1>11. E # {} => LineOf(s, pos + length + 1) = LineOf(s, pos + 1) + 1
  <2> SUFFICES ASSUME E # {} PROVE LineOf(s, pos + length + 1) = LineOf(s, pos + 1) + 1
    OBVIOUS
  <2>1. pos + length \in F /\ pos + length \in Int
    <3>1. pos + length \in 1..n
      BY <1>1, <1>6
    <3> QED BY <1>4, <1>6, <3>1
  <2>2. To(pos + length + 1) = To(pos + 1) \cup {pos + length} /\ pos + length \notin To(pos + 1)
    <3>1. length \in Nat /\ length >= 1
      BY <1>1, <1>6
    <3>2. ASSUME NEW j \in F
          PROVE  j < pos + length + 1 <=> j < pos + 1 \/ j = pos + length
      <4>1. j \in Nat /\ ~(j > pos /\ j < pos + length)
        BY <1>6a, <1>7
      <4> QED BY <1>1, <3>1, <4>1
    <3>3. ~(pos + length < pos + 1)
      BY <1>1, <3>1
    <3> QED BY <2>1, <3>2, <3>3
  <2>3. IsFiniteSet(To(pos + 1)) /\ Cardinality(To(pos + 1)) \in Nat
    BY <1>4, FS_Subset, FS_CardinalityType
  <2> HIDE DEF To
  <2>4. Cardinality(To(pos + length + 1)) = Cardinality(To(pos + 1)) + 1
    BY <2>2, <2>3, FS_AddElement
  <2>5. /\ LineOf(s, pos + length + 1) = 1 + Cardinality(To(pos + length + 1))
        /\ LineOf(s, pos + 1) = 1 + Cardinality(To(pos + 1))
    BY DEF LineOf, To, F
  <2> QED BY <2>3, <2>4, <2>5
<1>12. E = {} => LineOf(s, n + 1) = LineOf(s, pos + 1)
  BY <1>10 DEF LineOf, F
<1> QED BY <1>2, <1>5, <1>6, <1>9, <1>11, <1>12 DEF rest, length, E

(* The window, by the lines of its bytes.                                  *)
LEMMA WindowIs ==
  ASSUME NEW r, r.start \in Int, r.end \in Int, NEW s \in Seq(STRING)
  PROVE  /\ First(r) \in Int /\ Last(r) \in Int /\ First(r) >= 1
         /\ Last(r) > 0 => First(r) <= Last(r)
         /\ Last(r) <= 0 <=> r.end <= 0
         /\ Before(r, s) \in 0..Len(s) /\ UpTo(r, s) \in 0..Len(s)
         /\ \A i \in 1..Len(s) : LineOf(s, i) < First(r) <=> i <= Before(r, s)
         /\ \A i \in 1..Len(s) : r.end <= 0 \/ LineOf(s, i) <= Last(r) <=> i <= UpTo(r, s)
         /\ Window(r, s) = SubSeq(s, Before(r, s) + 1, UpTo(r, s))
<1> DEFINE n == Len(s)
           A == {i \in 1..n : LineOf(s, i) < First(r)}
           B == {i \in 1..n : r.end <= 0 \/ LineOf(s, i) <= Last(r)}
<1>1. n \in Nat /\ DOMAIN s = 1..n
  OBVIOUS
<1>2. /\ First(r) \in Int /\ Last(r) \in Int /\ First(r) >= 1
      /\ Last(r) > 0 => First(r) <= Last(r)
      /\ Last(r) <= 0 <=> r.end <= 0
  BY DEF First, Last
<1>3. ASSUME NEW i \in 1..n, NEW j \in 1..i PROVE j \in 1..n /\ LineOf(s, j) <= LineOf(s, i)
             /\ LineOf(s, j) \in Nat /\ LineOf(s, i) \in Nat
  <2>1. j \in Int /\ i \in Int /\ j <= i /\ j \in 1..n
    BY <1>1
  <2> QED BY <2>1, LinesAre
<1>4. ASSUME NEW i \in A, NEW j \in 1..i PROVE j \in A
  <2>1. i \in 1..n /\ LineOf(s, i) < First(r)
    OBVIOUS
  <2> QED BY <1>2, <1>3, <2>1
<1>5. ASSUME NEW i \in B, NEW j \in 1..i PROVE j \in B
  <2>1. i \in 1..n /\ (r.end <= 0 \/ LineOf(s, i) <= Last(r))
    OBVIOUS
  <2> QED BY <1>2, <1>3, <2>1
<1>6. Before(r, s) = Cardinality(A) /\ UpTo(r, s) = Cardinality(B)
  BY <1>1 DEF Before, UpTo
<1>7. Window(r, s) = SubSeq(s, Before(r, s) + 1, UpTo(r, s))
  BY DEF Window, Before, UpTo
<1>8. A \subseteq 1..n /\ B \subseteq 1..n
  OBVIOUS
<1>9. /\ \A i \in 1..n : i \in A <=> LineOf(s, i) < First(r)
      /\ \A i \in 1..n : i \in B <=> r.end <= 0 \/ LineOf(s, i) <= Last(r)
  OBVIOUS
<1> HIDE DEF A, B
<1>10. Cardinality(A) \in 0..n /\ \A i \in 1..n : i \in A <=> i <= Cardinality(A)
  BY <1>1, <1>4, <1>8, PlacesCount
<1>11. Cardinality(B) \in 0..n /\ \A i \in 1..n : i \in B <=> i <= Cardinality(B)
  BY <1>1, <1>5, <1>8, PlacesCount
<1> QED BY <1>2, <1>6, <1>7, <1>9, <1>10, <1>11

LEMMA ReadRequestIs ==
  ASSUME NEW r \in ReadRequests
  PROVE  /\ r.kind \in {"limit", "lines"} /\ r.name \in Seq(STRING)
         /\ r.max \in Int /\ r.max <= MaxInt
         /\ r.kind = "lines" => r.start \in Int /\ r.end \in Int
<1>1. Ints \subseteq Int /\ \A n \in Ints : n <= MaxInt
  BY MaxIntAssumption DEF Ints
<1>2. /\ r.kind \in {"limit", "lines"} /\ r.name \in Seq(STRING) /\ r.max \in Ints
      /\ r.kind = "lines" => r.start \in Ints /\ r.end \in Ints
  BY ReadsAssumption DEF ReadSet
<1> QED BY <1>1, <1>2

LEMMA ReadRecordIs ==
  ASSUME NEW v \in ReadRecord
  PROVE  /\ v # NoRead /\ v.pc \in {"limit", "lines", "done"} /\ v.request \in ReadRequests
         /\ v.data \in Seq(STRING) /\ v.rest \in Seq(STRING) /\ v.line \in Nat
         /\ v.out \in Seq(STRING) /\ v.truncated \in BOOLEAN /\ v.failed \in BOOLEAN
BY DEF ReadRecord, NoRead

(* What the next line has to do with the window.                           *)
LEMMA NextTakes ==
  ASSUME NEW v \in ReadRecord, PlaceInv(v)
  PROVE  LET r == v.request
             s == v.data
             a == Before(r, s)
             b == UpTo(r, s)
             q == Pos(v) + LineLength(v.rest) IN
         /\ Pos(v) \in 0..Len(s) /\ q \in Pos(v)..Len(s) /\ LineLength(v.rest) \in 0..Len(v.rest)
         /\ InWindow(r, v.line) <=> v.line >= First(r)
         /\ ~InWindow(r, v.line) => q <= a
         /\ InWindow(r, v.line) => a <= Pos(v) /\ q <= b
         /\ LineEnds(v.rest) = {} => q = Len(s)
         /\ PastWindow(r, v.line) => InWindow(r, v.line) /\ q = b
<1> DEFINE r == v.request
           s == v.data
           n == Len(s)
           a == Before(r, s)
           b == UpTo(r, s)
           pos == Pos(v)
           rest == SubSeq(s, pos + 1, n)
           length == LineLength(rest)
           q == pos + length
           ends == LineEnds(rest)
<1>1. /\ s \in Seq(STRING) /\ r \in ReadRequests /\ v.line \in Nat
  BY ReadRecordIs
<1>2. /\ r.kind = "lines" /\ pos \in 0..n /\ v.rest = rest
      /\ v.line = LineOf(s, pos + 1) /\ (Last(r) > 0 => v.line <= Last(r))
  BY DEF PlaceInv
<1>3. r.start \in Int /\ r.end \in Int /\ n \in Nat /\ pos \in Nat
  BY <1>1, <1>2, ReadRequestIs
<1>4. /\ Len(rest) = n - pos /\ length \in 0..(n - pos) /\ q \in pos..n
      /\ \A i \in (pos + 1)..q : LineOf(s, i) = LineOf(s, pos + 1)
      /\ ends = {} => q = n /\ LineOf(s, n + 1) = LineOf(s, pos + 1)
      /\ ends # {} => LineOf(s, q + 1) = LineOf(s, pos + 1) + 1
  BY <1>1, <1>2, NextLineIs
<1>5. /\ First(r) \in Int /\ Last(r) \in Int /\ First(r) >= 1
      /\ Last(r) > 0 => First(r) <= Last(r)
      /\ Last(r) <= 0 <=> r.end <= 0
      /\ a \in 0..n /\ b \in 0..n
      /\ \A i \in 1..n : LineOf(s, i) < First(r) <=> i <= a
      /\ \A i \in 1..n : r.end <= 0 \/ LineOf(s, i) <= Last(r) <=> i <= b
  BY <1>1, <1>3, WindowIs
<1>6. \A i, j \in Int : /\ LineOf(s, i) \in Nat
                        /\ i <= j => LineOf(s, i) <= LineOf(s, j)
  BY <1>1, LinesAre
<1>7. \A i \in 1..q : LineOf(s, i) <= v.line
  <2> SUFFICES ASSUME NEW i \in 1..q PROVE LineOf(s, i) <= v.line
    OBVIOUS
  <2>1. i \in Int /\ pos + 1 \in Int /\ (i <= pos + 1 \/ i \in (pos + 1)..q)
    BY <1>3, <1>4
  <2>2. CASE i <= pos + 1
    BY <1>2, <1>6, <2>1, <2>2
  <2>3. CASE i \in (pos + 1)..q
    BY <1>1, <1>2, <1>4, <2>3
  <2> QED BY <2>1, <2>2, <2>3
<1> DEFINE line == v.line
           first == First(r)
           last0 == Last(r)
<1>8. InWindow(r, line) <=> line >= first
  BY <1>1, <1>2, <1>5 DEF InWindow
<1>9. v.rest = rest /\ Pos(v) = pos
  BY <1>2
<1> HIDE DEF pos, rest, length, ends, q, a, b, n, s, line, first, last0
<1>10. ~InWindow(r, line) => q <= a
  <2> SUFFICES ASSUME ~(line >= first) PROVE q <= a
    BY <1>8
  <2>1. CASE q = 0
    BY <1>5, <2>1
  <2>2. CASE q # 0
    <3>1. q \in 1..n /\ q \in 1..q
      BY <1>3, <1>4, <2>2
    <3>2. LineOf(s, q) <= line /\ LineOf(s, q) \in Nat
      BY <1>6, <1>7, <3>1 DEF line
    <3>3. LineOf(s, q) < first
      BY <1>1, <1>5, <3>2 DEF line, first
    <3> QED BY <1>5, <3>1, <3>3 DEF first
  <2> QED BY <2>1, <2>2
<1>11. InWindow(r, line) => a <= pos
  <2> SUFFICES ASSUME line >= first, ~(a <= pos) PROVE FALSE
    BY <1>8
  <2>1. pos + 1 \in 1..n /\ pos + 1 <= a
    BY <1>3, <1>5
  <2>2. line < first
    BY <1>2, <1>5, <2>1 DEF line, first
  <2> QED BY <1>1, <1>5, <2>2 DEF line, first
<1>12. InWindow(r, line) => q <= b
  <2>1. CASE q = 0
    BY <1>5, <2>1
  <2>2. CASE q # 0
    <3>1. q \in 1..n /\ q \in 1..q
      BY <1>3, <1>4, <2>2
    <3>2. LineOf(s, q) <= line /\ LineOf(s, q) \in Nat /\ line \in Nat
      BY <1>1, <1>6, <1>7, <3>1 DEF line
    <3>3. r.end <= 0 \/ (last0 > 0 /\ line <= last0)
      BY <1>2, <1>3, <1>5 DEF line, last0
    <3>4. r.end <= 0 \/ LineOf(s, q) <= last0
      BY <1>5, <3>2, <3>3 DEF last0
    <3> QED BY <1>5, <3>1, <3>4 DEF last0
  <2> QED BY <2>1, <2>2
<1>13. PastWindow(r, line) => InWindow(r, line) /\ q = b
  <2> SUFFICES ASSUME PastWindow(r, line) PROVE InWindow(r, line) /\ q = b
    OBVIOUS
  <2>1. last0 > 0 /\ line >= last0 /\ line <= last0 /\ first <= last0
    BY <1>2, <1>5 DEF PastWindow, line, last0, first
  <2>2. line >= first /\ line = last0 /\ line \in Nat
    BY <1>1, <1>5, <2>1 DEF line, last0, first
  <2>3. q <= b
    BY <1>8, <1>12, <2>2
  <2>4. ASSUME ~(b <= q) PROVE FALSE
    <3>1. q + 1 \in 1..n /\ q + 1 <= b /\ q # n
      BY <1>3, <1>4, <1>5, <2>4
    <3>2. LineOf(s, q + 1) = line + 1
      BY <1>2, <1>4, <3>1 DEF line
    <3>3. r.end <= 0 \/ LineOf(s, q + 1) <= last0
      BY <1>5, <3>1 DEF last0
    <3>4. ~(r.end <= 0)
      BY <1>5, <2>1 DEF last0
    <3> QED BY <2>2, <3>2, <3>3, <3>4
  <2>5. q \in Nat /\ b \in Nat
    BY <1>3, <1>4, <1>5
  <2> QED BY <1>8, <2>2, <2>3, <2>4, <2>5
<1> QED BY <1>2, <1>4, <1>8, <1>9, <1>10, <1>11, <1>12, <1>13 DEF pos, rest, length, ends, q, a, b, n, s, line, first

(* What is taken with the next line.                                       *)
LEMMA TakenIs ==
  ASSUME NEW v \in ReadRecord, PlaceInv(v)
  PROVE  LET r == v.request
             s == v.data
             a == Before(r, s)
             pos == Pos(v)
             length == LineLength(v.rest)
             line == SubSeq(v.rest, 1, length) IN
         /\ Len(line) = length /\ line \in Seq(STRING)
         /\ InWindow(r, v.line) =>
              /\ Len(v.out) = pos - a /\ a <= pos
              /\ v.out \o line = SubSeq(s, a + 1, pos + length)
              /\ \A k \in 0..length : v.out \o SubSeq(line, 1, k) = SubSeq(s, a + 1, pos + k)
         /\ ~InWindow(r, v.line) => v.out = SubSeq(s, a + 1, pos + length)
<1> DEFINE r == v.request
           s == v.data
           n == Len(s)
           a == Before(r, s)
           pos == Pos(v)
           rest == v.rest
           length == LineLength(rest)
           line == SubSeq(rest, 1, length)
<1>1. s \in Seq(STRING) /\ r \in ReadRequests /\ rest \in Seq(STRING)
  BY ReadRecordIs
<1>2. /\ rest = SubSeq(s, pos + 1, n) /\ v.out = SubSeq(s, a + 1, pos) /\ r.kind = "lines"
  BY DEF PlaceInv
<1>3. n \in Nat /\ r.start \in Int /\ r.end \in Int
  BY <1>1, <1>2, ReadRequestIs
<1>4. a \in 0..n
  BY <1>1, <1>3, WindowIs
<1>5. /\ pos \in 0..n /\ pos + length \in pos..n /\ length \in 0..Len(rest)
      /\ ~InWindow(r, v.line) => pos + length <= a
      /\ InWindow(r, v.line) => a <= pos
  BY NextTakes
<1> HIDE DEF r, s, n, a, pos, rest, length
<1>6. /\ n \in 0..n /\ pos \in Nat /\ pos <= n /\ length \in Nat /\ a \in Nat /\ length <= n - pos
      /\ length \in 0..(n - pos)
  BY <1>3, <1>4, <1>5
<1>7. line = SubSeq(s, pos + 1, pos + length)
  <2>1. SubSeq(SubSeq(s, pos + 1, n), 0 + 1, length) = SubSeq(s, (pos + 0) + 1, pos + length)
    <3>1. 0 \in Nat /\ 0 <= length /\ n \in 0..Len(s)
      BY <1>6 DEF n
    <3> QED BY <1>1, <1>6, <3>1, SliceOfSlice
  <2>2. 0 + 1 = 1 /\ (pos + 0) + 1 = pos + 1
    BY <1>6
  <2> QED BY <1>2, <2>1, <2>2
<1>8. Len(line) = length /\ line \in Seq(STRING)
  BY <1>1, <1>5, CutIs
<1>9. ASSUME NEW k \in 0..length PROVE SubSeq(line, 1, k) = SubSeq(s, pos + 1, pos + k)
  <2>1. SubSeq(SubSeq(s, pos + 1, pos + length), 0 + 1, k) = SubSeq(s, (pos + 0) + 1, pos + k)
    <3>1. /\ 0 \in Nat /\ 0 <= k /\ pos + length \in 0..Len(s) /\ pos <= pos + length
          /\ k \in 0..((pos + length) - pos)
      BY <1>5, <1>6 DEF n
    <3> QED BY <1>1, <1>6, <3>1, SliceOfSlice
  <2>2. 0 + 1 = 1 /\ (pos + 0) + 1 = pos + 1
    BY <1>6
  <2> QED BY <1>7, <2>1, <2>2
<1> HIDE DEF line
<1>10. ASSUME InWindow(r, v.line)
       PROVE  /\ Len(v.out) = pos - a
              /\ v.out \o line = SubSeq(s, a + 1, pos + length)
              /\ \A k \in 0..length : v.out \o SubSeq(line, 1, k) = SubSeq(s, a + 1, pos + k)
  <2>1. a <= pos /\ pos \in 0..Len(s)
    BY <1>5, <1>10 DEF n
  <2>2. Len(v.out) = pos - a
    <3>1. Len(SubSeq(s, a + 1, pos)) = IF a < pos THEN pos - a ELSE 0
      BY <1>1, <1>6, <2>1, SliceIs
    <3>2. ~(a < pos) => pos - a = 0
      BY <1>6, <2>1
    <3> QED BY <1>2, <3>1, <3>2
  <2>3. ASSUME NEW k \in 0..length
        PROVE  SubSeq(s, a + 1, pos) \o SubSeq(s, pos + 1, pos + k) = SubSeq(s, a + 1, pos + k)
    <3>1. pos + k \in 0..Len(s) /\ pos <= pos + k
      BY <1>5, <1>6 DEF n
    <3> QED BY <1>1, <1>6, <2>1, <3>1, SlicesJoin
  <2>4. \A k \in 0..length : v.out \o SubSeq(line, 1, k) = SubSeq(s, a + 1, pos + k)
    BY <1>2, <1>9, <2>3
  <2>5. length \in 0..length
    BY <1>6
  <2>6. v.out \o line = SubSeq(s, a + 1, pos + length)
    BY <1>2, <1>7, <2>3, <2>5
  <2> QED BY <2>2, <2>4, <2>6
<1>11. ASSUME ~InWindow(r, v.line) PROVE v.out = SubSeq(s, a + 1, pos + length)
  <2>1. pos + length <= a /\ pos <= a /\ pos + length \in 0..Len(s) /\ pos \in 0..Len(s)
    BY <1>5, <1>6, <1>11 DEF n
  <2>2. SubSeq(s, a + 1, pos) = << >> /\ SubSeq(s, a + 1, pos + length) = << >>
    BY <1>1, <1>6, <2>1, SliceIs
  <2> QED BY <1>2, <2>2
<1> QED BY <1>5, <1>8, <1>10, <1>11 DEF r, s, a, pos, rest, length, line

(* What ReadIsRight says, of a call that is done.                          *)
Right(state) ==
  (state.pc = "done" /\ ~state.failed) =>
    LET r == state.request
        asked == IF r.kind = "limit" THEN state.data ELSE Window(r, state.data)
        fits == r.max <= 0 \/ Len(asked) <= r.max IN
    IF r.kind = "limit" /\ r.max = MaxInt /\ MaxInt > 0
      THEN state.out = << >> /\ ~state.truncated
      ELSE /\ state.out = IF fits THEN asked ELSE SubSeq(asked, 1, r.max)
           /\ ~fits => state.truncated
           /\ (fits /\ state.truncated) =>
                /\ r.kind = "lines" /\ Len(asked) = r.max
                /\ asked[Len(asked)] = NewLine
                /\ r.end <= 0 \/ Last(r) > Cardinality(LineEnds(state.data))

StateInv(state) ==
  /\ state = NoRead \/ state \in ReadRecord
  /\ state.pc = "limit" => state.request.kind = "limit"
  /\ state.pc = "lines" => PlaceInv(state)
  /\ Right(state)

LEMMA ReadInvIs == (ReadInv <=> StateInv(reading)) /\ (ReadInv' <=> StateInv(reading'))
BY DEF ReadInv, StateInv, ReadIsRight, Right

LEMMA IdleIsRight == StateInv(NoRead)
BY DEF StateInv, NoRead, Right

LEMMA FailedIsRight ==
  ASSUME NEW v \in ReadRecord, v.pc = "done", v.failed
  PROVE  StateInv(v)
BY DEF StateInv, Right

LEMMA OpenStep ==
  ASSUME Inv, NEW r \in ReadRequests, OpenFile(r)
  PROVE  StateInv(reading')
<1>1. PICK p \in CleanFSName(r.name) :
        /\ Exists(p)
        /\ reading' = [pc |-> r.kind, request |-> r, data |-> DataOf(p), rest |-> DataOf(p),
                       line |-> 1, out |-> << >>, truncated |-> FALSE, failed |-> FALSE,
                       ctx |-> "live"]
  BY DEF OpenFile
<1> DEFINE s == DataOf(p)
           n == Len(s)
           v == reading'
<1>2. s \in Seq(STRING)
  <2>1. CASE IsDir(p)
    BY <2>1, EmptySeq DEF DataOf
  <2>2. CASE ~IsDir(p)
    <3>1. nodes[p] \in Node /\ ~nodes[p].dir
      BY <1>1, <2>2 DEF Inv, Whole, IsDir, Exists
    <3>2. nodes[p].data \in Contents
      BY <3>1 DEF Node
    <3> QED BY <2>2, <3>2, BytesAssumption DEF DataOf
  <2> QED BY <2>1, <2>2
<1>3. r.kind \in {"limit", "lines"} /\ r.max \in Int
      /\ (r.kind = "lines" => r.start \in Int /\ r.end \in Int)
  BY ReadRequestIs
<1> HIDE DEF s
<1>4. /\ v \in ReadRecord /\ v.pc = r.kind /\ v.request = r /\ v.data = s /\ v.rest = s
      /\ v.line = 1 /\ v.out = << >> /\ v.truncated = FALSE
  <2>1. << >> \in Seq(STRING) /\ 1 \in Nat
    BY EmptySeq
  <2> QED BY <1>1, <1>2, <1>3, <2>1 DEF ReadRecord, s
<1> HIDE DEF v
<1>5. ASSUME r.kind = "lines" PROVE PlaceInv(v)
  <2>1. n \in Nat /\ Pos(v) = 0
    BY <1>2, <1>4 DEF Pos
  <2>2. 0 + 1 = 1 /\ 0 \in 0..n
    BY <2>1
  <2>3. SubSeq(s, 1, n) = s
    <3>1. n \in 0..n
      BY <2>1
    <3>2. SubSeq(s, 1, n) \in Seq(STRING) /\ Len(SubSeq(s, 1, n)) = n
          /\ \A i \in 1..n : SubSeq(s, 1, n)[i] = s[i]
      BY <1>2, <3>1, CutIs
    <3> QED BY <1>2, <3>2, SeqEqual
  <2>4. LineOf(s, 1) = 1
    BY <1>2, LinesAre
  <2>5. Last(r) > 0 => 1 <= Last(r)
    BY <1>2, <1>3, <1>5, WindowIs
  <2>6. Before(r, s) \in 0..n
    BY <1>2, <1>3, <1>5, WindowIs
  <2>7. SubSeq(s, Before(r, s) + 1, 0) = << >>
    <3>1. Before(r, s) \in Nat /\ 0 <= Before(r, s) /\ 0 \in 0..Len(s)
      BY <2>2, <2>6
    <3> QED BY <1>2, <3>1, SliceIs
  <2>8. r.max > 0 => Len(<< >>) <= r.max
    BY <1>3
  <2> QED BY <1>4, <1>5, <2>1, <2>2, <2>3, <2>4, <2>5, <2>7, <2>8 DEF PlaceInv
<1> QED BY <1>3, <1>4, <1>5 DEF StateInv, Right, v

(* What is let through of a file for a bound, and what is handed on.       *)
LEMMA LimitedIs ==
  ASSUME NEW s \in Seq(STRING), NEW max \in Int, max > 0, max <= MaxInt
  PROVE  LET data == Limited(s, Plus(max, 1)) IN
         /\ data \in Seq(STRING)
         /\ max = MaxInt => data = << >>
         /\ max # MaxInt =>
              /\ Len(data) > max <=> Len(s) > max
              /\ Len(s) > max => SubSeq(data, 1, max) = SubSeq(s, 1, max)
              /\ ~(Len(s) > max) => data = s
<1> DEFINE n == Plus(max, 1)
<1>1. MaxInt \in Nat /\ Len(s) \in Nat
  BY MaxIntAssumption, LenProperties
<1>2. max = MaxInt => n <= 0
  BY <1>1 DEF Plus
<1>3. max # MaxInt => n = max + 1
  BY <1>1 DEF Plus
<1> HIDE DEF n
<1>4. CASE max = MaxInt
  <2>1. Limited(s, n) = << >>
    BY <1>2, <1>4 DEF Limited
  <2> QED BY <1>4, <2>1, EmptySeq DEF n
<1>5. CASE max # MaxInt /\ max + 1 < Len(s)
  <2>1. Limited(s, n) = SubSeq(s, 1, max + 1)
    BY <1>1, <1>3, <1>5 DEF Limited
  <2>2. max + 1 \in 0..Len(s) /\ max \in 0..(max + 1)
    BY <1>1, <1>5
  <2>3. SubSeq(s, 1, max + 1) \in Seq(STRING) /\ Len(SubSeq(s, 1, max + 1)) = max + 1
    BY <2>2, CutIs
  <2>4. SubSeq(SubSeq(s, 1, max + 1), 1, max) = SubSeq(s, 1, max)
    BY <2>2, CutOfCut
  <2> QED BY <1>1, <1>5, <2>1, <2>3, <2>4 DEF n
<1>6. CASE max # MaxInt /\ ~(max + 1 < Len(s))
  <2>1. Limited(s, n) = s
    BY <1>1, <1>3, <1>6 DEF Limited
  <2>2. Len(s) > max => SubSeq(s, 1, max) = SubSeq(s, 1, max)
    OBVIOUS
  <2> QED BY <1>6, <2>1 DEF n
<1> QED BY <1>4, <1>5, <1>6

LEMMA ReadAllStep ==
  ASSUME StateInv(reading), ReadAll
  PROVE  StateInv(reading')
<1> DEFINE s == reading.data
           max == reading.request.max
           data == IF max <= 0 THEN s ELSE Limited(s, Plus(max, 1))
           cut == max > 0 /\ Len(data) > max
           fits == max <= 0 \/ Len(s) <= max
           v == reading'
<1>1. /\ reading \in ReadRecord /\ reading.request.kind = "limit"
      /\ s \in Seq(STRING) /\ max \in Int /\ max <= MaxInt /\ Len(s) \in Nat
  BY ReadRecordIs, ReadRequestIs DEF StateInv, ReadAll, NoRead
<1> DEFINE out == IF cut THEN SubSeq(data, 1, max) ELSE data
           failed == max > 0 /\ reading.ctx = "cancelled"
           odd == max = MaxInt /\ MaxInt > 0
<1>2. v = [[reading EXCEPT !.out = out, !.truncated = cut] EXCEPT !.pc = "done", !.failed = failed]
  BY DEF ReadAll, Over
<1>3. /\ data \in Seq(STRING) /\ Len(data) \in Nat
      /\ odd => data = << >> /\ ~cut
      /\ ~odd =>
           /\ cut <=> ~fits
           /\ cut => SubSeq(data, 1, max) = SubSeq(s, 1, max)
           /\ ~cut => data = s
  <2>1. CASE max <= 0
    BY <1>1, <2>1
  <2>2. CASE max > 0
    <3>1. data = Limited(s, Plus(max, 1))
      BY <1>1, <2>2
    <3>2. data \in Seq(STRING) /\ (max = MaxInt => data = << >>)
      BY <1>1, <2>2, <3>1, LimitedIs
    <3>3. max # MaxInt =>
            /\ Len(data) > max <=> Len(s) > max
            /\ Len(s) > max => SubSeq(data, 1, max) = SubSeq(s, 1, max)
            /\ ~(Len(s) > max) => data = s
      BY <1>1, <2>2, <3>1, LimitedIs
    <3> HIDE DEF data
    <3>4. Len(data) \in Nat /\ Len(<< >>) = 0
      BY <3>2, LenProperties, EmptySeq
    <3>5. odd <=> max = MaxInt
      BY <2>2
    <3> QED BY <1>1, <2>2, <3>2, <3>3, <3>4, <3>5
  <2> QED BY <1>1, <2>1, <2>2
<1> HIDE DEF data
<1>4. out \in Seq(STRING) /\ cut \in BOOLEAN /\ failed \in BOOLEAN
  <2>1. cut => SubSeq(data, 1, max) \in Seq(STRING)
    <3>1. cut => max \in 0..Len(data)
      BY <1>1, <1>3
    <3> QED BY <1>3, <3>1, CutIs
  <2> QED BY <1>3, <2>1
<1> HIDE DEF cut, fits, odd
<1>5. /\ odd => out = << >> /\ ~cut
      /\ ~odd => (cut <=> ~fits) /\ (out = IF fits THEN s ELSE SubSeq(s, 1, max))
  <2>1. out = IF cut THEN SubSeq(data, 1, max) ELSE data
    OBVIOUS
  <2> HIDE DEF out
  <2>2. odd => out = << >> /\ ~cut
    BY <1>3, <2>1
  <2>3. ASSUME ~odd, cut PROVE ~fits /\ out = SubSeq(s, 1, max)
    BY <1>3, <2>1, <2>3
  <2>4. ASSUME ~odd, ~cut PROVE fits /\ out = s
    BY <1>3, <2>1, <2>4
  <2> QED BY <2>2, <2>3, <2>4
<1> HIDE DEF out, failed, v
<1>6. /\ v \in ReadRecord /\ v.pc = "done" /\ v.request = reading.request /\ v.data = s
      /\ v.out = out /\ v.truncated = cut
  BY <1>1, <1>2, <1>4 DEF ReadRecord
<1>7. Right(v)
  <2>1. CASE odd
    BY <1>1, <1>5, <1>6, <2>1 DEF Right, odd
  <2>2. CASE ~odd
    <3>1. out = (IF fits THEN s ELSE SubSeq(s, 1, max)) /\ (~fits => cut) /\ ~(fits /\ cut)
      BY <1>5, <2>2
    <3> QED BY <1>1, <1>6, <2>2, <3>1 DEF Right, fits, odd
  <2> QED BY <2>1, <2>2
<1> QED BY <1>6, <1>7 DEF StateInv, v

LEMMA ReadLineStep ==
  ASSUME StateInv(reading), ReadLine
  PROVE  StateInv(reading')
<1> DEFINE r == reading.request
           s == reading.data
           n == Len(s)
           a == Before(r, s)
           b == UpTo(r, s)
           pos == Pos(reading)
           rest == reading.rest
           out == reading.out
           length == LineLength(rest)
           line == SubSeq(rest, 1, length)
           wanted == InWindow(r, reading.line)
           full == wanted /\ r.max > 0 /\ (Len(out) >= r.max \/ Len(line) > r.max - Len(out))
           taken == IF wanted THEN out \o Fitting(r, out, line) ELSE out
           next == [reading EXCEPT !.out = taken]
           v == reading'
           asked == SubSeq(s, a + 1, b)
<1>1. reading \in ReadRecord /\ PlaceInv(reading) /\ reading.pc = "lines"
  BY DEF StateInv, ReadLine, NoRead
<1>2. /\ r \in ReadRequests /\ s \in Seq(STRING) /\ rest \in Seq(STRING) /\ out \in Seq(STRING)
      /\ reading.line \in Nat /\ reading.failed \in BOOLEAN
  BY <1>1, ReadRecordIs
<1>3. /\ r.kind = "lines" /\ rest = SubSeq(s, pos + 1, n) /\ (pos = 0 \/ s[pos] = NewLine)
      /\ reading.line = LineOf(s, pos + 1) /\ (Last(r) > 0 => reading.line <= Last(r))
      /\ out = SubSeq(s, a + 1, pos) /\ (r.max > 0 => Len(out) <= r.max)
      /\ reading.truncated = FALSE
  <2>1. r.kind = "lines" /\ rest = SubSeq(s, pos + 1, n) /\ (pos = 0 \/ s[pos] = NewLine)
    BY <1>1 DEF PlaceInv
  <2>2. reading.line = LineOf(s, pos + 1) /\ (Last(r) > 0 => reading.line <= Last(r))
    BY <1>1 DEF PlaceInv
  <2>3. /\ out = SubSeq(s, a + 1, pos) /\ (r.max > 0 => Len(out) <= r.max)
        /\ reading.truncated = FALSE
    BY <1>1 DEF PlaceInv
  <2> QED BY <2>1, <2>2, <2>3
<1>4. r.max \in Int /\ r.start \in Int /\ r.end \in Int /\ n \in Nat /\ Len(out) \in Nat
  <2>1. r.max \in Int /\ r.start \in Int /\ r.end \in Int
    <3>1. r \in ReadRequests /\ r.kind = "lines"
      BY <1>2, <1>3
    <3> HIDE DEF r
    <3> QED BY <3>1, ReadRequestIs
  <2>2. n \in Nat /\ Len(out) \in Nat
    BY <1>2, LenProperties
  <2> QED BY <2>1, <2>2
<1>5. /\ pos \in 0..n /\ pos + length \in pos..n /\ length \in 0..Len(rest)
      /\ ~wanted => pos + length <= a
      /\ wanted => a <= pos /\ pos + length <= b
      /\ LineEnds(rest) = {} => pos + length = n
      /\ PastWindow(r, reading.line) => wanted /\ pos + length = b
  BY <1>1, NextTakes
<1>6. /\ Len(line) = length /\ line \in Seq(STRING)
      /\ wanted =>
           /\ Len(out) = pos - a /\ a <= pos
           /\ out \o line = SubSeq(s, a + 1, pos + length)
           /\ \A k \in 0..length : out \o SubSeq(line, 1, k) = SubSeq(s, a + 1, pos + k)
      /\ ~wanted => out = SubSeq(s, a + 1, pos + length)
  BY <1>1, TakenIs
<1>7. /\ a \in 0..n /\ b \in 0..n /\ Window(r, s) = asked
      /\ Last(r) \in Int /\ First(r) \in Int /\ (Last(r) <= 0 <=> r.end <= 0)
      /\ Last(r) > 0 => First(r) <= Last(r)
  BY <1>2, <1>4, WindowIs
<1>8. IF reading.ctx = "cancelled" THEN Over([reading EXCEPT !.out = << >>], TRUE)
      ELSE IF full THEN Over([next EXCEPT !.truncated = TRUE], FALSE)
      ELSE IF LineEnds(rest) = {} \/ PastWindow(r, reading.line) THEN Over(next, FALSE)
      ELSE v = [next EXCEPT !.line = @ + 1, !.rest = SubSeq(@, length + 1, Len(@))]
  <2>1. next = [reading EXCEPT !.out = IF wanted THEN @ \o Fitting(r, @, line) ELSE @]
    OBVIOUS
  <2>2. reading.ctx = "cancelled" => Over([reading EXCEPT !.out = << >>], TRUE)
    BY DEF ReadLine
  <2>3. reading.ctx # "cancelled" /\ full => Over([next EXCEPT !.truncated = TRUE], FALSE)
    BY <2>1 DEF ReadLine
  <2>4. reading.ctx # "cancelled" /\ ~full =>
          IF LineEnds(rest) = {} \/ PastWindow(r, reading.line) THEN Over(next, FALSE)
          ELSE v = [next EXCEPT !.line = @ + 1, !.rest = SubSeq(@, length + 1, Len(@))]
    BY <2>1 DEF ReadLine
  <2> HIDE DEF r, rest, length, next, v, full
  <2> QED BY <2>2, <2>3, <2>4
<1>10. pos \in Nat /\ a \in Nat /\ b \in Nat /\ length \in Nat /\ pos + length \in Nat
       /\ n = Len(s) /\ Len(rest) \in Nat
  <2>1. pos \in 0..n /\ a \in 0..n /\ b \in 0..n /\ length \in 0..Len(rest)
    BY <1>5, <1>7
  <2>2. n \in Nat /\ Len(rest) \in Nat
    BY <1>2, LenProperties
  <2>3. n = Len(s)
    OBVIOUS
  <2> HIDE DEF pos, a, b, n, length, rest
  <2> QED BY <2>1, <2>2, <2>3
<1>9. /\ asked \in Seq(STRING)
      /\ Len(asked) = IF a < b THEN b - a ELSE 0
      /\ \A i \in 1..(b - a) : asked[i] = s[a + i]
  BY <1>2, <1>7, <1>10, SliceIs
<1>9a. /\ Len(rest) = n - pos
       /\ LineEnds(rest) # {} =>
            /\ length \in 1..Len(rest) /\ s[pos + length] = NewLine
            /\ LineOf(s, pos + length + 1) = LineOf(s, pos + 1) + 1
  <2> DEFINE left == SubSeq(s, pos + 1, n)
  <2>1. /\ Len(left) = n - pos
        /\ LineEnds(left) # {} =>
             /\ LineLength(left) \in 1..Len(left) /\ s[pos + LineLength(left)] = NewLine
             /\ LineOf(s, pos + LineLength(left) + 1) = LineOf(s, pos + 1) + 1
    BY <1>2, <1>5, NextLineIs
  <2>2. rest = left
    BY <1>3
  <2> HIDE DEF left
  <2> QED BY <2>1, <2>2
<1> HIDE DEF r, s, n, a, b, pos, rest, out, length, line, asked
<1>11. taken \in Seq(STRING) /\ (~full => taken = SubSeq(s, a + 1, pos + length))
       /\ (~full /\ r.max > 0 => Len(taken) <= r.max)
  <2>1. CASE ~wanted
    BY <1>2, <1>3, <1>6, <2>1
  <2>2. CASE wanted /\ ~full
    <3>1. Fitting(r, out, line) = line
      BY <2>2 DEF Fitting
    <3>2. out \o line \in Seq(STRING) /\ Len(out \o line) = Len(out) + Len(line)
      BY <1>2, <1>6, ConcatProperties
    <3>3. r.max > 0 => Len(out) + Len(line) <= r.max
      BY <1>4, <1>6, <1>10, <2>2
    <3> QED BY <1>6, <2>2, <3>1, <3>2, <3>3
  <2>3. CASE full
    <3>1. Fitting(r, out, line) \in Seq(STRING)
      <4>1. CASE Len(line) > r.max - Len(out)
        <5>1. r.max - Len(out) \in 0..Len(line)
          <6>1. r.max > 0 /\ Len(out) <= r.max
            BY <1>3, <2>3
          <6> QED BY <1>4, <1>6, <1>10, <4>1, <6>1
        <5>2. SubSeq(line, 1, r.max - Len(out)) \in Seq(STRING)
          BY <1>6, <5>1, CutIs
        <5> QED BY <1>6, <5>2 DEF Fitting
      <4>2. CASE ~(Len(line) > r.max - Len(out))
        BY <1>6, <4>2 DEF Fitting
      <4> QED BY <4>1, <4>2
    <3> QED BY <1>2, <2>3, <3>1, ConcatProperties
  <2> QED BY <2>1, <2>2, <2>3
<1> HIDE DEF taken
<1>12. next \in ReadRecord /\ next.out = taken /\ next.request = r /\ next.data = s
       /\ next.truncated = FALSE /\ next.line = reading.line /\ next.rest = rest
  BY <1>1, <1>3, <1>11 DEF ReadRecord, r, s, rest
<1> HIDE DEF next, full, wanted
<1>13. CASE Over([reading EXCEPT !.out = << >>], TRUE)
  <2>1. v = [[reading EXCEPT !.out = << >>] EXCEPT !.pc = "done", !.failed = TRUE]
    BY <1>13 DEF Over
  <2> HIDE DEF v
  <2>2. v \in ReadRecord /\ v.pc = "done" /\ v.failed = TRUE
    BY <1>1, <2>1, EmptySeq DEF ReadRecord
  <2> QED BY <2>2, FailedIsRight DEF v
<1>14. ASSUME NEW x \in BOOLEAN, v = [[next EXCEPT !.truncated = x] EXCEPT !.pc = "done", !.failed = FALSE],
              taken = IF r.max <= 0 \/ Len(asked) <= r.max THEN asked ELSE SubSeq(asked, 1, r.max),
              ~(r.max <= 0 \/ Len(asked) <= r.max) => x,
              ((r.max <= 0 \/ Len(asked) <= r.max) /\ x) =>
                /\ Len(asked) = r.max /\ asked[Len(asked)] = NewLine
                /\ r.end <= 0 \/ Last(r) > Cardinality(LineEnds(s))
       PROVE  StateInv(v)
  <2> HIDE DEF v
  <2>1. /\ v \in ReadRecord /\ v.pc = "done" /\ v.failed = FALSE /\ v.truncated = x
        /\ v.out = taken /\ v.request = r /\ v.data = s
    BY <1>12, <1>14 DEF ReadRecord
  <2>2. Window(r, s) = asked /\ r.kind = "lines" /\ "lines" # "limit"
    BY <1>3, <1>7
  <2>3. Right(v)
    BY <1>14, <2>1, <2>2 DEF Right
  <2> QED BY <2>1, <2>3 DEF StateInv
<1>15. CASE full /\ Over([next EXCEPT !.truncated = TRUE], FALSE)
  <2>1. /\ wanted /\ r.max > 0 /\ (Len(out) >= r.max \/ Len(line) > r.max - Len(out))
    BY <1>15 DEF full
  <2>2. Len(out) = pos - a /\ a <= pos /\ pos + length <= b /\ Len(out) <= r.max
    BY <1>3, <1>5, <1>6, <2>1
  <2>3. CASE Len(line) > r.max - Len(out)
    <3> DEFINE k == r.max - Len(out)
    <3>1. k \in 0..length /\ pos + k = a + r.max /\ a + r.max < b /\ k < length
      <4>1. /\ r.max \in Nat /\ Len(out) \in Nat /\ Len(out) <= r.max
            /\ r.max - Len(out) < length
        BY <1>4, <1>6, <2>1, <2>2, <2>3
      <4>2. Len(out) = pos - a /\ pos + length <= b
        BY <2>2
      <4> QED BY <1>10, <4>1, <4>2
    <3>2. taken = out \o SubSeq(line, 1, k)
      BY <2>1, <2>3 DEF taken, Fitting
    <3> HIDE DEF k
    <3>3. taken = SubSeq(s, a + 1, a + r.max)
      BY <1>6, <2>1, <3>1, <3>2
    <3>4. Len(asked) = b - a /\ ~(r.max <= 0 \/ Len(asked) <= r.max)
      <4>1. a < b /\ r.max < b - a
        BY <1>4, <1>10, <2>1, <3>1
      <4> QED BY <1>4, <1>9, <1>10, <2>1, <4>1
    <3>5. SubSeq(asked, 1, r.max) = SubSeq(s, a + 1, a + r.max)
      <4>1. SubSeq(SubSeq(s, a + 1, b), 0 + 1, r.max) = SubSeq(s, (a + 0) + 1, a + r.max)
        <5>1. 0 \in Nat /\ r.max \in 0..(b - a) /\ 0 <= r.max /\ b \in 0..Len(s) /\ a <= b
          <6>1. b \in 0..Len(s)
            BY <1>7, <1>10
          <6>2. r.max \in 0..(b - a) /\ 0 <= r.max /\ a <= b
            BY <1>4, <1>10, <2>1, <3>1
          <6> QED BY <6>1, <6>2
        <5>2. s \in Seq(STRING) /\ a \in Nat
          BY <1>2, <1>10
        <5> QED BY <5>1, <5>2, SliceOfSlice
      <4>2. 0 + 1 = 1 /\ (a + 0) + 1 = a + 1
        BY <1>10
      <4> QED BY <4>1, <4>2 DEF asked
    <3> QED BY <1>14, <1>15, <3>3, <3>4, <3>5 DEF Over
  <2>4. CASE ~(Len(line) > r.max - Len(out))
    <3>1. Len(out) = r.max /\ length = 0 /\ line = << >>
      <4>1. Len(out) = r.max /\ length = 0
        BY <1>4, <1>6, <1>10, <2>1, <2>2, <2>4
      <4> QED BY <1>6, <4>1, EmptySeq
    <3>2. LineEnds(rest) = {}
      BY <1>9a, <3>1
    <3>3. pos = n /\ b = n
      BY <1>4, <1>5, <1>7, <1>10, <2>2, <3>1, <3>2
    <3>4. taken = SubSeq(s, a + 1, b)
      <4>1. taken = out \o line
        BY <2>1, <2>4 DEF taken, Fitting
      <4>2. pos + length = b
        BY <1>10, <3>1, <3>3
      <4> QED BY <1>6, <2>1, <4>1, <4>2
    <3>5. taken = asked /\ Len(asked) = b - a /\ Len(asked) = r.max /\ a < b
      <4>1. b - a = r.max /\ a < b
        BY <1>4, <1>10, <2>1, <2>2, <3>1, <3>3
      <4> QED BY <1>9, <3>4, <4>1 DEF asked
    <3>6. asked[Len(asked)] = NewLine
      <4>1. b - a \in 1..(b - a) /\ a + (b - a) = b /\ pos # 0
        BY <1>10, <3>3, <3>5
      <4>2. asked[b - a] = s[a + (b - a)]
        BY <1>9, <4>1
      <4>3. s[b] = NewLine
        BY <1>3, <3>3, <4>1
      <4> QED BY <3>5, <4>1, <4>2, <4>3
    <3>7. r.end <= 0 \/ Last(r) > Cardinality(LineEnds(s))
      <4>1. reading.line = 1 + Cardinality(LineEnds(s)) /\ Cardinality(LineEnds(s)) \in Nat
        <5>1. IsFiniteSet(LineEnds(s)) /\ LineOf(s, n + 1) = 1 + Cardinality(LineEnds(s))
          BY <1>2, LinesAre DEF n
        <5> QED BY <1>3, <3>3, <5>1, FS_CardinalityType
      <4>2. Last(r) > 0 \/ r.end <= 0
        BY <1>4, <1>7
      <4>3. Last(r) > 0 => Last(r) > Cardinality(LineEnds(s))
        BY <1>3, <1>7, <4>1
      <4> QED BY <4>2, <4>3
    <3>8. r.max <= 0 \/ Len(asked) <= r.max
      BY <1>4, <3>5
    <3>9. v = [[next EXCEPT !.truncated = TRUE] EXCEPT !.pc = "done", !.failed = FALSE]
      BY <1>15 DEF Over
    <3> QED BY <1>14, <3>5, <3>6, <3>7, <3>8, <3>9
  <2> QED BY <2>3, <2>4
<1>16. CASE /\ ~full /\ Over(next, FALSE)
            /\ LineEnds(rest) = {} \/ PastWindow(r, reading.line)
  <2>1. taken = SubSeq(s, a + 1, pos + length) /\ (r.max > 0 => Len(taken) <= r.max)
    BY <1>11, <1>16
  <2>2. taken = asked
    <3>1. CASE pos + length = b
      BY <2>1, <3>1 DEF asked
    <3>2. CASE pos + length # b
      <4>1. pos + length = n /\ ~wanted
        BY <1>5, <1>7, <1>10, <1>16, <3>2
      <4>2. n <= a /\ b <= a /\ n \in 0..Len(s) /\ b \in 0..Len(s)
        BY <1>4, <1>5, <1>7, <1>10, <4>1
      <4>3. SubSeq(s, a + 1, n) = << >> /\ asked = << >>
        BY <1>2, <1>10, <4>2, SliceIs DEF asked
      <4> QED BY <2>1, <4>1, <4>3
    <3> QED BY <3>1, <3>2
  <2>3. r.max <= 0 \/ Len(asked) <= r.max
    <3>1. r.max <= 0 \/ r.max > 0
      BY <1>4
    <3> QED BY <2>1, <2>2, <3>1
  <2>4. v = [[next EXCEPT !.truncated = FALSE] EXCEPT !.pc = "done", !.failed = FALSE]
    <3>1. next = [next EXCEPT !.truncated = FALSE]
      BY <1>12 DEF ReadRecord
    <3> QED BY <1>16, <3>1 DEF Over
  <2> QED BY <1>14, <2>2, <2>3, <2>4
<1>17. CASE /\ ~full /\ ~(LineEnds(rest) = {} \/ PastWindow(r, reading.line))
            /\ v = [next EXCEPT !.line = @ + 1, !.rest = SubSeq(@, length + 1, Len(@))]
  <2> DEFINE q == pos + length
             onward == SubSeq(rest, length + 1, Len(rest))
  <2>1. /\ Len(rest) = n - pos /\ s[q] = NewLine /\ LineOf(s, q + 1) = LineOf(s, pos + 1) + 1
        /\ length \in 1..Len(rest)
    BY <1>9a, <1>17
  <2>2. q \in 0..n /\ q \in Nat /\ length <= Len(rest)
    BY <1>5, <1>10, <2>1
  <2>3. onward = SubSeq(s, q + 1, n)
    <3>1. SubSeq(SubSeq(s, pos + 1, n), length + 1, n - pos) = SubSeq(s, (pos + length) + 1, pos + (n - pos))
      <4>1. n \in 0..Len(s) /\ pos <= n /\ n - pos \in 0..(n - pos) /\ length <= n - pos
        BY <1>5, <1>10, <2>1, <2>2
      <4> QED BY <1>2, <1>10, <4>1, SliceOfSlice
    <3>2. pos + (n - pos) = n
      BY <1>10
    <3> QED BY <1>3, <2>1, <3>1, <3>2
  <2>4. onward \in Seq(STRING) /\ Len(onward) = n - q
    <3>1. n \in 0..Len(s)
      BY <1>4, <1>10
    <3>2. onward \in Seq(STRING) /\ Len(onward) = IF q < n THEN n - q ELSE 0
      <4>1. s \in Seq(STRING) /\ q \in Nat
        BY <1>2, <2>2
      <4> HIDE DEF q, onward
      <4>2. /\ SubSeq(s, q + 1, n) \in Seq(STRING)
            /\ Len(SubSeq(s, q + 1, n)) = IF q < n THEN n - q ELSE 0
        BY <3>1, <4>1, SliceIs
      <4> QED BY <2>3, <4>2
    <3> QED BY <1>10, <2>2, <3>2
  <2>5. reading.line + 1 \in Nat /\ (Last(r) > 0 => reading.line + 1 <= Last(r))
    <3>1. ~(Last(r) > 0 /\ reading.line >= Last(r)) /\ reading.line \in Nat /\ Last(r) \in Int
      BY <1>2, <1>7, <1>17 DEF PastWindow
    <3> QED BY <3>1
  <2> HIDE DEF onward, q, v
  <2>6. v = [next EXCEPT !.line = reading.line + 1, !.rest = onward]
    BY <1>12, <1>17 DEF onward, ReadRecord
  <2>7. /\ v \in ReadRecord /\ v.pc = "lines" /\ v.request = r /\ v.data = s /\ v.out = taken
        /\ v.line = reading.line + 1 /\ v.rest = onward /\ v.truncated = FALSE
    <3>1. next.pc = "lines"
      BY <1>1 DEF next, ReadRecord
    <3> QED BY <1>12, <2>4, <2>5, <2>6, <3>1 DEF ReadRecord
  <2>8. Pos(v) = q
    BY <1>10, <2>2, <2>4, <2>7 DEF Pos
  <2>9. PlaceInv(v)
    <3>1. v.line = LineOf(s, q + 1) /\ (q = 0 \/ s[q] = NewLine)
      BY <1>3, <2>1, <2>7
    <3>2. taken = SubSeq(s, a + 1, q) /\ (r.max > 0 => Len(taken) <= r.max)
      BY <1>11, <1>17 DEF q
    <3> QED BY <1>3, <2>2, <2>3, <2>5, <2>7, <2>8, <3>1, <3>2 DEF PlaceInv, a, n
  <2>10. v # NoRead
    BY <2>7, ReadRecordIs
  <2> QED BY <2>7, <2>9 DEF StateInv, Right, v
<1> QED BY <1>8, <1>13, <1>15, <1>16, <1>17

LEMMA CancelReadStep ==
  ASSUME StateInv(reading), CancelRead
  PROVE  StateInv(reading')
<1> DEFINE v == reading'
<1>1. /\ reading \in ReadRecord /\ reading.pc \in {"limit", "lines"}
      /\ v = [reading EXCEPT !.ctx = "cancelled"]
  BY DEF StateInv, CancelRead, NoRead
<1> HIDE DEF v
<1>2. /\ v \in ReadRecord /\ v.pc = reading.pc /\ v.request = reading.request
      /\ v.data = reading.data /\ v.rest = reading.rest /\ v.line = reading.line
      /\ v.out = reading.out /\ v.truncated = reading.truncated
  BY <1>1 DEF ReadRecord
<1>3. PlaceInv(reading) => PlaceInv(v)
  BY <1>2 DEF PlaceInv, Pos
<1> QED BY <1>1, <1>2, <1>3 DEF StateInv, Right, v

LEMMA ReadInvKept ==
  ASSUME WalkInv, ReadInv, [ReadNext]_readVars
  PROVE  ReadInv'
<1>1. StateInv(reading)
  BY ReadInvIs
<1>2. StateInv(reading')
  <2>1. CASE reading' = reading
    BY <1>1, <2>1
  <2>2. CASE \E r \in ReadRequests : OpenFile(r)
    BY <2>2, OpenStep DEF WalkInv
  <2>3. CASE ReadAll
    BY <1>1, <2>3, ReadAllStep
  <2>4. CASE ReadLine
    BY <1>1, <2>4, ReadLineStep
  <2>5. CASE CancelRead
    BY <1>1, <2>5, CancelReadStep
  <2>6. CASE ReadReturns
    BY <2>6, IdleIsRight DEF ReadReturns
  <2> QED BY <2>1, <2>2, <2>3, <2>4, <2>5, <2>6 DEF ReadNext, ReadStep, readVars
<1> QED BY <1>2, ReadInvIs

(* A read of a file or of a window of its lines answers the beginning of   *)
(* what was asked for, as much of it as the bound allows, and says so when *)
(* it left something out, for any contents, window, bound and cancelling   *)
(* but one: ReadFileLimit with the greatest int reads nothing, silently.   *)
THEOREM ReadsAreRight ==
  ASSUME Careful
  PROVE  ReadSpec => []ReadIsRight
<1>1. ReadInit => ReadInv
  BY IdleIsRight, ReadInvIs DEF ReadInit
<1>2. WalkInv /\ ReadInv /\ [ReadNext]_readVars => ReadInv'
  BY ReadInvKept
<1>3. ReadInv => ReadIsRight
  BY DEF ReadInv
<1> QED BY <1>1, <1>2, <1>3, WalkInvAlways, PTL DEF ReadSpec

=============================================================================
