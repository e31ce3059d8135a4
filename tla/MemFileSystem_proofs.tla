------------------------- MODULE MemFileSystem_proofs -------------------------
(***************************************************************************)
(* Theorems about MemFileSystem, for every set of paths, names and         *)
(* contents and any sequence of calls by callers that keep away from what  *)
(* Careful lists.                                                          *)
(*                                                                         *)
(* The map is whole when every path in it stands in directories up to the  *)
(* root.  Each operation is made of steps from a whole map to a whole map: *)
(* writing directories that are closed upwards, putting a file where no    *)
(* directory is, dropping what has nothing below it.                       *)
(***************************************************************************)
EXTENDS MemFileSystem, SequenceTheorems, WellFoundedInduction, TLAPS

Careful ==
  {"write_directory", "rename_directory", "mkdir_file", "root", "same_name"} \subseteq Avoids

DirIn(map, p) == p \in DOMAIN map /\ map[p].dir = TRUE
FileIn(map, p) == p \in DOMAIN map /\ map[p].dir = FALSE

Whole(map) ==
  /\ DOMAIN map \subseteq Paths
  /\ \A p \in DOMAIN map : map[p] \in Node
  /\ DirIn(map, Root)
  /\ \A p \in DOMAIN map : \A n \in 0..(Len(p) - 1) : DirIn(map, SubSeq(p, 1, n))

Inv == Whole(nodes) /\ last.ok \in BOOLEAN

-----------------------------------------------------------------------------
(* Paths and their prefixes.                                               *)

LEMMA CutIs ==
  ASSUME NEW p \in Seq(STRING), NEW n \in 0..Len(p)
  PROVE  /\ SubSeq(p, 1, n) \in Seq(STRING)
         /\ Len(SubSeq(p, 1, n)) = n
         /\ \A i \in 1..n : SubSeq(p, 1, n)[i] = p[i]
<1>1. Len(p) \in Nat /\ n \in Int /\ \A i \in 1..n : p[i] \in STRING
  BY ElementOfSeq
<1>2. /\ SubSeq(p, 1, n) \in Seq(STRING)
      /\ Len(SubSeq(p, 1, n)) = IF 1 <= n THEN n - 1 + 1 ELSE 0
      /\ \A i \in 1..(n - 1 + 1) : SubSeq(p, 1, n)[i] = p[1 + i - 1]
  BY <1>1, SubSeqProperties
<1> QED BY <1>1, <1>2

LEMMA CutOfCut ==
  ASSUME NEW p \in Seq(STRING), NEW n \in 0..Len(p), NEW m \in 0..n
  PROVE  SubSeq(SubSeq(p, 1, n), 1, m) = SubSeq(p, 1, m)
<1>1. Len(p) \in Nat /\ m \in 0..Len(p)
  OBVIOUS
<1>2. SubSeq(p, 1, n) \in Seq(STRING) /\ Len(SubSeq(p, 1, n)) = n
  BY CutIs
<1> DEFINE a == SubSeq(SubSeq(p, 1, n), 1, m)
           b == SubSeq(p, 1, m)
<1>3. a \in Seq(STRING) /\ Len(a) = m /\ \A i \in 1..m : a[i] = SubSeq(p, 1, n)[i]
  BY <1>2, CutIs
<1>4. b \in Seq(STRING) /\ Len(b) = m /\ \A i \in 1..m : b[i] = p[i]
  BY <1>1, CutIs
<1>5. \A i \in 1..m : SubSeq(p, 1, n)[i] = p[i]
  BY CutIs
<1> HIDE DEF a, b
<1>6. a = b
  BY <1>3, <1>4, <1>5, SeqEqual
<1> QED BY <1>6 DEF a, b

LEMMA PathIs ==
  ASSUME NEW p \in Paths
  PROVE  /\ p \in Seq(STRING) /\ Len(p) \in Nat
         /\ \A n \in 0..Len(p) : SubSeq(p, 1, n) \in Paths /\ Len(SubSeq(p, 1, n)) = n
         /\ SubSeq(p, 1, 0) = Root /\ SubSeq(p, 1, Len(p)) = p
         /\ Len(p) = 0 <=> p = Root
<1>1. p \in Seq(STRING) /\ Len(p) \in Nat
  BY PathsAssumption
<1>2. SubSeq(p, 1, 0) = << >> /\ SubSeq(p, 1, Len(p)) = p
  BY <1>1, SubSeqEmpty, SubSeqFull
<1>3. Len(p) = 0 <=> p = << >>
  BY <1>1, EmptySeq
<1>4. \A n \in 0..Len(p) : SubSeq(p, 1, n) \in Paths /\ Len(SubSeq(p, 1, n)) = n
  BY <1>1, CutIs, PathsAssumption
<1> QED BY <1>1, <1>2, <1>3, <1>4 DEF Root

(* The parents of a path are its prefixes but itself. *)
LEMMA ParentsAre ==
  ASSUME NEW p \in Paths, NEW q
  PROVE  /\ q \in Prefixes(p) <=> \E n \in 1..Len(p) : q = SubSeq(p, 1, n)
         /\ q \in Parents(p) <=> \E n \in 1..(Len(p) - 1) : q = SubSeq(p, 1, n)
<1>1. /\ Len(p) \in Nat /\ SubSeq(p, 1, Len(p)) = p
      /\ \A n \in 0..Len(p) : Len(SubSeq(p, 1, n)) = n
  BY PathIs
<1>2. q \in Prefixes(p) <=> \E n \in 1..Len(p) : q = SubSeq(p, 1, n)
  BY DEF Prefixes
<1>3. \A k \in Nat : \A n \in 1..k :
        n \in 0..k /\ n \in Nat /\ (n # k <=> n \in 1..(k - 1)) /\ (k - 1) \in Int
  OBVIOUS
<1>4. \A k \in Nat : \A n \in 1..(k - 1) : n \in 1..k
  OBVIOUS
<1>5. ASSUME NEW n \in 1..Len(p) PROVE SubSeq(p, 1, n) # p <=> n # Len(p)
  BY <1>1, <1>3
<1> QED BY <1>1, <1>2, <1>3, <1>4, <1>5 DEF Parents

LEMMA NodeIs ==
  /\ \A node \in Node : node.dir = TRUE \/ node.dir = FALSE
  /\ \A mode \in Modes : NewDir(mode) \in Node /\ NewDir(mode).dir = TRUE
  /\ \A data \in Contents : NewFile(data) \in Node /\ NewFile(data).dir = FALSE
BY DEF Node, NewDir, NewFile

LEMMA Kind ==
  ASSUME Whole(nodes), NEW p
  PROVE  (IsDir(p) <=> DirIn(nodes, p)) /\ (IsFile(p) <=> FileIn(nodes, p))
<1>1. p \in DOMAIN nodes => nodes[p].dir = TRUE \/ nodes[p].dir = FALSE
  BY NodeIs DEF Whole
<1> QED BY <1>1 DEF IsDir, IsFile, Exists, DirIn, FileIn

-----------------------------------------------------------------------------
(* Steps from a whole map to a whole map.                                  *)

(* Directories are written over no file and with all their parents. *)
LEMMA EnterDirs ==
  ASSUME NEW map, Whole(map), NEW dirs \in SUBSET Paths, NEW mode \in Modes,
         \A q \in dirs : ~FileIn(map, q) /\ \A n \in 1..Len(q) : SubSeq(q, 1, n) \in dirs,
         NEW new, DOMAIN new = DOMAIN map \cup dirs, \A q \in dirs : new[q] = NewDir(mode),
         \A q \in DOMAIN map \ dirs : new[q] = map[q]
  PROVE  /\ Whole(new)
         /\ \A q \in dirs : DirIn(new, q)
         /\ \A q : DirIn(new, q) => DirIn(map, q) \/ q \in dirs
         /\ \A q : DirIn(map, q) => DirIn(new, q)
         /\ \A q : FileIn(map, q) => q \in DOMAIN new /\ new[q] = map[q]
<1>1. /\ DOMAIN new = DOMAIN map \cup dirs
      /\ \A q \in dirs : new[q] = NewDir(mode)
      /\ \A q \in DOMAIN map \ dirs : new[q] = map[q]
  OBVIOUS
<1>2. NewDir(mode) \in Node /\ NewDir(mode).dir = TRUE
  BY NodeIs
<1>3. /\ \A q \in dirs : DirIn(new, q)
      /\ \A q : DirIn(new, q) => DirIn(map, q) \/ q \in dirs
      /\ \A q : DirIn(map, q) => DirIn(new, q)
  BY <1>1, <1>2 DEF DirIn
<1>4. \A q : FileIn(map, q) => q \in DOMAIN new /\ new[q] = map[q]
  BY <1>1 DEF FileIn
<1>5. DOMAIN new \subseteq Paths /\ \A q \in DOMAIN new : new[q] \in Node
  BY <1>1, <1>2 DEF Whole
<1>6. ASSUME NEW p \in DOMAIN new, NEW n \in 0..(Len(p) - 1) PROVE DirIn(new, SubSeq(p, 1, n))
  <2>1. CASE p \in DOMAIN map
    BY <1>3, <2>1 DEF Whole
  <2>2. CASE p \in dirs
    <3>1. Len(p) \in Nat /\ SubSeq(p, 1, 0) = Root
      BY <2>2, PathIs
    <3>2. n = 0 \/ n \in 1..Len(p)
      BY <3>1
    <3> QED BY <1>3, <2>2, <3>1, <3>2 DEF Whole
  <2> QED BY <1>1, <2>1, <2>2
<1> QED BY <1>3, <1>4, <1>5, <1>6 DEF Whole

(* A file, or what else may be put, stands in directories and takes the    *)
(* place of none.                                                          *)
LEMMA PutWhole ==
  ASSUME NEW map, Whole(map), NEW p \in Paths, ~DirIn(map, p), NEW node \in Node,
         \A n \in 0..(Len(p) - 1) : DirIn(map, SubSeq(p, 1, n))
  PROVE  /\ Whole(Put(map, p, node))
         /\ DOMAIN Put(map, p, node) = DOMAIN map \cup {p} /\ Put(map, p, node)[p] = node
         /\ \A q \in DOMAIN map : q # p => Put(map, p, node)[q] = map[q]
<1> DEFINE new == Put(map, p, node)
<1>1. /\ DOMAIN new = DOMAIN map \cup {p} /\ new[p] = node
      /\ \A q \in DOMAIN map : q # p => new[q] = map[q]
  BY DEF Put
<1> HIDE DEF new
<1>2. \A q : DirIn(map, q) => DirIn(new, q)
  BY <1>1 DEF DirIn
<1>3. DOMAIN new \subseteq Paths /\ \A q \in DOMAIN new : new[q] \in Node
  BY <1>1 DEF Whole
<1>4. \A q \in DOMAIN new : \A n \in 0..(Len(q) - 1) : DirIn(new, SubSeq(q, 1, n))
  BY <1>1, <1>2 DEF Whole
<1>5. Whole(new)
  BY <1>2, <1>3, <1>4 DEF Whole
<1> QED BY <1>1, <1>5 DEF new

(* What nothing lies below may go. *)
LEMMA DropWhole ==
  ASSUME NEW map, Whole(map), NEW p, p # Root,
         \A q \in DOMAIN map : \A n \in 0..(Len(q) - 1) : SubSeq(q, 1, n) # p
  PROVE  /\ Whole(Drop(map, p))
         /\ DOMAIN Drop(map, p) = DOMAIN map \ {p}
         /\ \A q \in DOMAIN map : q # p => Drop(map, p)[q] = map[q]
<1> DEFINE new == Drop(map, p)
<1>1. DOMAIN new = DOMAIN map \ {p} /\ \A q \in DOMAIN map : q # p => new[q] = map[q]
  BY DEF Drop
<1> HIDE DEF new
<1>2. \A q : DirIn(map, q) /\ q # p => DirIn(new, q)
  BY <1>1 DEF DirIn
<1>3. \A q \in DOMAIN new : \A n \in 0..(Len(q) - 1) : DirIn(new, SubSeq(q, 1, n))
  BY <1>1, <1>2 DEF Whole
<1>4. DOMAIN new \subseteq Paths /\ \A q \in DOMAIN new : new[q] \in Node
  BY <1>1 DEF Whole
<1>5. DirIn(new, Root)
  BY <1>2 DEF Whole
<1>6. Whole(new)
  BY <1>3, <1>4, <1>5 DEF Whole
<1> QED BY <1>1, <1>6 DEF new

(* A file has nothing below it. *)
LEMMA FileIsLeaf ==
  ASSUME NEW map, Whole(map), NEW p, ~DirIn(map, p)
  PROVE  \A q \in DOMAIN map : \A n \in 0..(Len(q) - 1) : SubSeq(q, 1, n) # p
BY DEF Whole

(* ensureParents writes what a path needs, or stops at a file and has      *)
(* changed nothing but modes.                                              *)
LEMMA RefreshedAre ==
  ASSUME Whole(nodes), NEW p \in Paths
  PROVE  /\ Refreshed(p) \in SUBSET Paths /\ p \notin Refreshed(p)
         /\ \A q \in Refreshed(p) :
              ~FileIn(nodes, q) /\ \A n \in 1..Len(q) : SubSeq(q, 1, n) \in Refreshed(p)
         /\ Refused(p) => \E f \in DOMAIN nodes :
              /\ FileIn(nodes, f)
              /\ \A q \in Refreshed(p) : DirIn(nodes, q) /\ q \in Parents(f)
         /\ ~Refused(p) => \A n \in 1..(Len(p) - 1) : SubSeq(p, 1, n) \in Refreshed(p)
<1> DEFINE cut(n) == SubSeq(p, 1, n)
           l == Len(p)
<1>1. l \in Nat /\ p \in Seq(STRING) /\ \A n \in 0..l : cut(n) \in Paths /\ Len(cut(n)) = n
  BY PathIs
<1>2. \A k \in 0..l : \A m \in 0..k : SubSeq(cut(k), 1, m) = cut(m)
  BY <1>1, CutOfCut
<1>3. \A q : q \in Parents(p) <=> \E n \in 1..(l - 1) : q = cut(n)
  BY ParentsAre
<1>4. ASSUME NEW k \in 1..(l - 1), NEW r PROVE r \in Prefixes(cut(k)) <=> \E m \in 1..k : r = cut(m)
  <2>1. k \in 0..l /\ \A m \in 1..k : m \in 0..k
    BY <1>1
  <2>2. r \in Prefixes(cut(k)) <=> \E m \in 1..Len(cut(k)) : r = SubSeq(cut(k), 1, m)
    BY DEF Prefixes
  <2> HIDE DEF cut, l
  <2> QED BY <1>1, <1>2, <2>1, <2>2
<1>5. \A q : FileIn(nodes, q) <=> IsFile(q)
  BY Kind
<1> HIDE DEF cut, l
<1>6. ASSUME NEW k \in 1..(l - 1)
      PROVE  cut(k) \in Refreshed(p) <=> \A m \in 1..k : ~FileIn(nodes, cut(m))
  <2>1. cut(k) \in Parents(p)
    BY <1>3
  <2> QED BY <1>4, <1>5, <2>1 DEF Refreshed
<1>7. \A q \in Refreshed(p) : q \in Parents(p)
  BY DEF Refreshed
<1>8. ASSUME NEW q \in Refreshed(p)
      PROVE  /\ q \in Paths /\ q # p /\ ~FileIn(nodes, q)
             /\ \A n \in 1..Len(q) : SubSeq(q, 1, n) \in Refreshed(p)
  <2>1. PICK k \in 1..(l - 1) : q = cut(k)
    BY <1>3, <1>7
  <2>2. k \in 0..l /\ k # l /\ k \in 1..k /\ Len(q) = k /\ q \in Paths
    BY <1>1, <2>1
  <2>3. q # p
    BY <2>2 DEF l
  <2>4. ~FileIn(nodes, q)
    BY <1>6, <2>1, <2>2
  <2>5. ASSUME NEW n \in 1..k PROVE SubSeq(q, 1, n) \in Refreshed(p)
    <3>1. n \in 1..(l - 1) /\ n \in 0..k /\ \A m \in 1..n : m \in 1..k
      BY <1>1
    <3>2. SubSeq(q, 1, n) = cut(n)
      BY <1>2, <2>1, <2>2, <3>1
    <3> QED BY <1>6, <2>1, <3>1, <3>2
  <2> QED BY <2>2, <2>3, <2>4, <2>5
<1>9. ASSUME Refused(p)
      PROVE  \E f \in DOMAIN nodes :
               /\ FileIn(nodes, f)
               /\ \A q \in Refreshed(p) : DirIn(nodes, q) /\ q \in Parents(f)
  <2>1. PICK j \in 1..(l - 1) : FileIn(nodes, cut(j))
    BY <1>3, <1>5, <1>9 DEF Refused
  <2>2. cut(j) \in DOMAIN nodes /\ j \in 0..l /\ Len(cut(j)) = j
    BY <1>1, <2>1 DEF FileIn
  <2>3. ASSUME NEW q \in Refreshed(p) PROVE DirIn(nodes, q) /\ q \in Parents(cut(j))
    <3>1. PICK k \in 1..(l - 1) : q = cut(k)
      BY <1>3, <1>7
    <3>2. ~(j \in 1..k)
      BY <1>6, <2>1, <3>1
    <3>3. k \in 0..j /\ k \in 0..(j - 1) /\ k \in 1..(j - 1)
      BY <1>1, <3>2
    <3>4. SubSeq(cut(j), 1, k) = q
      BY <1>2, <2>2, <3>1, <3>3
    <3>5. cut(j) \in Paths
      BY <1>1, <2>2
    <3>6. q \in Parents(cut(j))
      BY <2>2, <3>3, <3>4, <3>5, ParentsAre
    <3>7. DirIn(nodes, SubSeq(cut(j), 1, k))
      BY <2>2, <3>3 DEF Whole
    <3> QED BY <3>4, <3>6, <3>7
  <2> QED BY <2>1, <2>2, <2>3
<1>10. ASSUME ~Refused(p), NEW n \in 1..(l - 1) PROVE cut(n) \in Refreshed(p)
  <2>1. \A m \in 1..n : m \in 1..(l - 1)
    BY <1>1
  <2>2. \A m \in 1..(l - 1) : ~FileIn(nodes, cut(m))
    BY <1>3, <1>5, <1>10 DEF Refused
  <2> QED BY <1>6, <2>1, <2>2
<1> QED BY <1>8, <1>9, <1>10 DEF cut, l

LEMMA ParentsWhole ==
  ASSUME Whole(nodes), NEW p \in Paths
  PROVE  /\ Whole(WithParents(p))
         /\ \A q : FileIn(nodes, q) => q \in DOMAIN WithParents(p) /\ WithParents(p)[q] = nodes[q]
         /\ Refused(p) => \E f \in DOMAIN nodes : ParentsReset(WithParents(p), f)
         /\ ~Refused(p) => \A n \in 0..(Len(p) - 1) : DirIn(WithParents(p), SubSeq(p, 1, n))
         /\ ~DirIn(nodes, p) => ~DirIn(WithParents(p), p)
<1> DEFINE new == WithParents(p)
           dirs == Refreshed(p)
<1>1. /\ dirs \in SUBSET Paths /\ p \notin dirs /\ Default \in Modes
      /\ \A q \in dirs : ~FileIn(nodes, q) /\ \A n \in 1..Len(q) : SubSeq(q, 1, n) \in dirs
  BY RefreshedAre, ModesAssumption
<1>2. /\ DOMAIN new = DOMAIN nodes \cup dirs
      /\ \A q \in dirs : new[q] = NewDir(Default)
      /\ \A q \in DOMAIN nodes \ dirs : new[q] = nodes[q]
  BY DEF WithParents
<1> HIDE DEF new, dirs
<1>3. /\ Whole(new)
      /\ \A q \in dirs : DirIn(new, q)
      /\ \A q : DirIn(new, q) => DirIn(nodes, q) \/ q \in dirs
      /\ \A q : DirIn(nodes, q) => DirIn(new, q)
      /\ \A q : FileIn(nodes, q) => q \in DOMAIN new /\ new[q] = nodes[q]
  BY <1>1, <1>2, EnterDirs
<1>4. ASSUME Refused(p) PROVE \E f \in DOMAIN nodes : ParentsReset(new, f)
  <2>1. PICK f \in DOMAIN nodes :
          /\ FileIn(nodes, f)
          /\ \A q \in dirs : DirIn(nodes, q) /\ q \in Parents(f)
    BY <1>4, RefreshedAre DEF dirs
  <2>2. DOMAIN new = DOMAIN nodes
    BY <1>2, <2>1 DEF DirIn
  <2>3. IsFile(f)
    BY <2>1, Kind
  <2>4. \A q \in DOMAIN nodes : new[q] # nodes[q] => q \in dirs
    BY <1>2
  <2> QED BY <1>2, <2>1, <2>2, <2>3, <2>4 DEF ParentsReset
<1>5. ASSUME ~Refused(p), NEW n \in 0..(Len(p) - 1) PROVE DirIn(new, SubSeq(p, 1, n))
  <2>1. CASE n = 0
    BY <1>3, <2>1, PathIs DEF Whole
  <2>2. CASE n # 0
    <3>1. n \in 1..(Len(p) - 1)
      BY <2>2, PathIs
    <3> QED BY <1>3, <1>5, <3>1, RefreshedAre DEF dirs
  <2> QED BY <2>1, <2>2
<1>6. ~DirIn(nodes, p) => ~DirIn(new, p)
  BY <1>1, <1>3
<1> QED BY <1>3, <1>4, <1>5, <1>6 DEF new

-----------------------------------------------------------------------------
(* The operations.                                                         *)

(* FilesAreKept, of one call. *)
Kept ==
  /\ \A p \in DOMAIN nodes :
       (IsFile(p) /\ p \notin last'.to) => p \in DOMAIN nodes' /\ nodes'[p] = nodes[p]
  /\ ~last'.ok => nodes' = nodes \/ \E f \in DOMAIN nodes : ParentsReset(nodes', f)

Done == Inv' /\ Kept

LEMMA RefuseStep ==
  ASSUME Inv, NEW op, Refuse(op)
  PROVE  Done
<1>1. nodes' = nodes /\ last' = [op |-> op, to |-> {}, ok |-> FALSE]
  BY DEF Refuse, Answer
<1>2. Whole(nodes')
  BY <1>1 DEF Inv
<1>3. last'.ok = FALSE
  BY <1>1
<1> QED BY <1>1, <1>2, <1>3 DEF Done, Inv, Kept, IsFile

(* WriteFile and WriteTempFile, where no directory is. *)
LEMMA StoreStep ==
  ASSUME Inv, NEW op, NEW p \in Paths, NEW paths, NEW data \in Contents, ~DirIn(nodes, p),
         FileIn(nodes, p) => p \in paths, Store(op, p, paths, data)
  PROVE  Done
<1> DEFINE map == WithParents(p)
<1>1. /\ Whole(map)
      /\ \A q : FileIn(nodes, q) => q \in DOMAIN map /\ map[q] = nodes[q]
      /\ Refused(p) => \E f \in DOMAIN nodes : ParentsReset(map, f)
      /\ ~Refused(p) => \A n \in 0..(Len(p) - 1) : DirIn(map, SubSeq(p, 1, n))
      /\ ~DirIn(map, p)
  BY ParentsWhole DEF Inv
<1>2. \A q : IsFile(q) <=> FileIn(nodes, q)
  BY Kind DEF Inv
<1>3. CASE Refused(p)
  <2>1. nodes' = map /\ last' = [op |-> op, to |-> {}, ok |-> FALSE]
    BY <1>3 DEF Store, Answer
  <2> HIDE DEF map
  <2>2. Whole(nodes') /\ last'.ok = FALSE
    BY <1>1, <2>1
  <2> QED BY <1>1, <1>2, <1>3, <2>1, <2>2 DEF Done, Inv, Kept
<1>4. CASE ~Refused(p)
  <2>1. nodes' = Put(map, p, NewFile(data)) /\ last' = [op |-> op, to |-> paths, ok |-> TRUE]
    BY <1>4 DEF Store, Answer
  <2> HIDE DEF map
  <2>2. NewFile(data) \in Node
    BY NodeIs
  <2>3. /\ Whole(nodes')
        /\ DOMAIN nodes' = DOMAIN map \cup {p}
        /\ \A q \in DOMAIN map : q # p => nodes'[q] = map[q]
    BY <1>1, <1>4, <2>1, <2>2, PutWhole
  <2>4. last'.ok = TRUE /\ last'.to = paths
    BY <2>1
  <2>5. ASSUME NEW q \in DOMAIN nodes, IsFile(q), q \notin paths
        PROVE  q \in DOMAIN nodes' /\ nodes'[q] = nodes[q]
    <3>1. FileIn(nodes, q) /\ q # p
      BY <1>2, <2>5
    <3> QED BY <1>1, <2>3, <3>1
  <2> QED BY <2>3, <2>4, <2>5 DEF Done, Inv, Kept
<1> QED BY <1>3, <1>4

LEMMA WriteFileStep ==
  ASSUME Careful, Inv, NEW p \in Paths, NEW data \in Contents, NEW overwrite \in BOOLEAN,
         MayWrite(p), WriteFile(p, data, overwrite)
  PROVE  Done
<1>1. \A q : (IsDir(q) <=> DirIn(nodes, q)) /\ (IsFile(q) <=> FileIn(nodes, q))
  BY Kind DEF Inv
<1>2. CASE p = Root \/ (Exists(p) /\ ~overwrite)
  BY <1>2, RefuseStep DEF WriteFile
<1>3. CASE ~(p = Root \/ (Exists(p) /\ ~overwrite))
  <2>1. ~DirIn(nodes, p)
    BY <1>1 DEF MayWrite, Careful
  <2>2. FileIn(nodes, p) => p \in (IF overwrite THEN {p} ELSE {})
    BY <1>3 DEF FileIn, Exists
  <2>3. Store("write", p, IF overwrite THEN {p} ELSE {}, data)
    BY <1>3 DEF WriteFile
  <2> QED BY <2>1, <2>2, <2>3, StoreStep
<1> QED BY <1>2, <1>3

(* Of some names one is the first. *)
LEMMA Least ==
  ASSUME NEW S, S \subseteq Nat, S # {}
  PROVE  \E i \in S : \A j \in S : i <= j
<1> DEFINE R == OpToRel(<, Nat)
<1>1. IsWellFoundedOn(R, Nat)
  BY NatLessThanWellFounded
<1>2. \A i, j \in Nat : <<i, j>> \in R <=> i < j
  BY DEF OpToRel
<1> HIDE DEF R
<1>3. PICK i \in S : \A j \in S : ~(<<j, i>> \in R)
  BY <1>1, WFMin
<1>4. ASSUME NEW j \in S PROVE i <= j
  <2>1. i \in Nat /\ j \in Nat /\ ~(<<j, i>> \in R)
    BY <1>3
  <2>2. ~(j < i)
    BY <1>2, <2>1
  <2> QED BY <2>1, <2>2
<1> QED BY <1>3, <1>4

LEMMA FreeNameIsFree ==
  ASSUME NEW dir, \E i \in 1..Len(TempNames) : ~Exists(Append(dir, TempNames[i]))
  PROVE  /\ ~Exists(Append(dir, FreeTempName(dir)))
         /\ \E i \in 1..Len(TempNames) : FreeTempName(dir) = TempNames[i]
<1> DEFINE N == 1..Len(TempNames)
           free(i) == ~Exists(Append(dir, TempNames[i]))
           S == {i \in N : free(i)}
           first(i) == free(i) /\ \A j \in 1..(i - 1) : ~free(j)
           i0 == CHOOSE i \in N : first(i)
<1>1. \A i \in N : i \in Nat /\ \A j \in 1..(i - 1) : j \in N /\ j \in Nat /\ ~(i <= j)
  BY NamesAssumption
<1> HIDE DEF N, free
<1>2. S \subseteq Nat /\ S # {}
  BY <1>1 DEF N, free
<1>3. PICK i \in S : \A j \in S : i <= j
  BY <1>2, Least
<1>4. i \in N /\ first(i)
  <2>1. \A j \in 1..(i - 1) : j \notin S /\ j \in N
    BY <1>1, <1>3
  <2> QED BY <2>1
<1> HIDE DEF first
<1>5. i0 \in N /\ first(i0)
  BY <1>4
<1>6. FreeTempName(dir) = TempNames[i0]
  BY DEF FreeTempName, first, free, N
<1> HIDE DEF i0
<1> QED BY <1>5, <1>6 DEF first, free, N

LEMMA WriteTempStep ==
  ASSUME Inv, NEW dir \in Paths, NEW data \in Contents, WriteTempFile(dir, data)
  PROVE  Done
<1> DEFINE p == Append(dir, FreeTempName(dir))
<1>1. CASE IsFile(dir)
  BY <1>1, RefuseStep DEF WriteTempFile
<1>2. CASE ~IsFile(dir)
  <2>1. ~Exists(p) /\ p \in Paths
    BY FreeNameIsFree DEF WriteTempFile
  <2>2. Store("temp", p, {}, data)
    BY <1>2 DEF WriteTempFile
  <2> HIDE DEF p
  <2>3. ~DirIn(nodes, p) /\ ~FileIn(nodes, p)
    BY <2>1 DEF DirIn, FileIn, Exists
  <2> QED BY <2>1, <2>2, <2>3, StoreStep
<1> QED BY <1>1, <1>2

LEMMA MkdirStep ==
  ASSUME Careful, Inv, NEW p \in Paths, NEW mode \in Modes, MayMkdir(p), MkdirAll(p, mode)
  PROVE  Done
<1> DEFINE dirs == Prefixes(p)
<1>1. \A q : IsFile(q) <=> FileIn(nodes, q)
  BY Kind DEF Inv
<1>2. /\ DOMAIN nodes' = DOMAIN nodes \cup dirs
      /\ \A q \in dirs : nodes'[q] = NewDir(mode)
      /\ \A q \in DOMAIN nodes \ dirs : nodes'[q] = nodes[q]
      /\ last' = [op |-> "mkdir", to |-> {}, ok |-> TRUE]
  BY DEF MkdirAll, Answer
<1>3. \A q \in dirs : ~FileIn(nodes, q)
  BY <1>1 DEF MayMkdir, Careful
<1>4. ASSUME NEW q \in dirs PROVE q \in Paths /\ \A n \in 1..Len(q) : SubSeq(q, 1, n) \in dirs
  <2>1. PICK k \in 1..Len(p) : q = SubSeq(p, 1, k)
    BY ParentsAre
  <2>2. /\ Len(p) \in Nat /\ p \in Seq(STRING)
        /\ \A n \in 0..Len(p) : SubSeq(p, 1, n) \in Paths /\ Len(SubSeq(p, 1, n)) = n
    BY PathIs
  <2>3. k \in 0..Len(p) /\ q \in Paths /\ Len(q) = k
    BY <2>1, <2>2
  <2>4. ASSUME NEW n \in 1..k PROVE SubSeq(q, 1, n) \in dirs
    <3>1. Len(p) \in Nat /\ k \in 1..Len(p)
      BY <2>2
    <3>2. n \in 0..k /\ n \in 1..Len(p)
      BY <3>1
    <3>3. SubSeq(q, 1, n) = SubSeq(p, 1, n)
      BY <2>1, <2>2, <2>3, <3>2, CutOfCut
    <3> QED BY <3>2, <3>3, ParentsAre
  <2> QED BY <2>3, <2>4
<1> HIDE DEF dirs
<1>5. /\ Whole(nodes')
      /\ \A q : FileIn(nodes, q) => q \in DOMAIN nodes' /\ nodes'[q] = nodes[q]
  BY <1>2, <1>3, <1>4, EnterDirs DEF Inv
<1>6. last'.ok = TRUE
  BY <1>2
<1> QED BY <1>1, <1>5, <1>6 DEF Done, Inv, Kept

LEMMA RemoveStep ==
  ASSUME Inv, NEW p \in Paths, Remove(p)
  PROVE  Done
<1>1. CASE p = Root \/ ~Exists(p) \/ Below(p) # {}
  BY <1>1, RefuseStep DEF Remove
<1>2. CASE ~(p = Root \/ ~Exists(p) \/ Below(p) # {})
  <2>1. nodes' = Drop(nodes, p) /\ last' = [op |-> "remove", to |-> {p}, ok |-> TRUE]
    BY <1>2 DEF Remove, Answer
  <2>2. ASSUME NEW q \in DOMAIN nodes, NEW n \in 0..(Len(q) - 1) PROVE SubSeq(q, 1, n) # p
    <3>1. q \in Paths /\ Len(q) \in Nat
      BY PathIs DEF Inv, Whole
    <3>2. n \in 0..Len(q) /\ Len(q) > n
      BY <3>1
    <3>3. Len(SubSeq(q, 1, n)) = n
      BY <3>1, <3>2, PathIs
    <3>4. SubSeq(q, 1, n) = p => q \in Below(p)
      BY <3>2, <3>3 DEF Below
    <3> QED BY <1>2, <3>4
  <2>3. /\ Whole(nodes') /\ DOMAIN nodes' = DOMAIN nodes \ {p}
        /\ \A q \in DOMAIN nodes : q # p => nodes'[q] = nodes[q]
    BY <1>2, <2>1, <2>2, DropWhole DEF Inv
  <2>4. last'.ok = TRUE /\ last'.to = {p}
    BY <2>1
  <2> QED BY <2>3, <2>4 DEF Done, Inv, Kept
<1> QED BY <1>1, <1>2

LEMMA RenameStep ==
  ASSUME Careful, Inv, NEW from \in Paths, NEW to \in Paths, NEW overwrite \in BOOLEAN,
         MayRename(from, to), Rename(from, to, overwrite)
  PROVE  Done
<1> DEFINE map == WithParents(to)
           put == Put(map, to, nodes[from])
           give == {from} \cup (IF overwrite THEN {to} ELSE {})
<1>1. \A q : (IsDir(q) <=> DirIn(nodes, q)) /\ (IsFile(q) <=> FileIn(nodes, q))
  BY Kind DEF Inv
<1>2. ~DirIn(nodes, from) /\ ~DirIn(nodes, to) /\ from # Root /\ from # to
  BY <1>1 DEF MayRename, Careful
<1>3. /\ Whole(map)
      /\ \A q : FileIn(nodes, q) => q \in DOMAIN map /\ map[q] = nodes[q]
      /\ Refused(to) => \E f \in DOMAIN nodes : ParentsReset(map, f)
      /\ ~Refused(to) => \A n \in 0..(Len(to) - 1) : DirIn(map, SubSeq(to, 1, n))
      /\ ~DirIn(map, to)
  BY <1>2, ParentsWhole DEF Inv
<1>4. CASE ~Exists(from) \/ (Exists(to) /\ ~overwrite)
  BY <1>4, RefuseStep DEF Rename
<1>5. CASE ~(~Exists(from) \/ (Exists(to) /\ ~overwrite)) /\ Refused(to)
  <2>1. nodes' = map /\ last' = [op |-> "rename", to |-> {}, ok |-> FALSE]
    BY <1>5 DEF Rename, Answer
  <2> HIDE DEF map
  <2>2. Whole(nodes') /\ last'.ok = FALSE
    BY <1>3, <2>1
  <2> QED BY <1>1, <1>3, <1>5, <2>1, <2>2 DEF Done, Inv, Kept
<1>6. CASE ~(~Exists(from) \/ (Exists(to) /\ ~overwrite)) /\ ~Refused(to)
  <2>1. nodes' = Drop(put, from) /\ last' = [op |-> "rename", to |-> give, ok |-> TRUE]
    BY <1>6 DEF Rename, Answer
  <2>2. FileIn(nodes, from)
    BY <1>2, <1>6, NodeIs DEF Exists, DirIn, FileIn, Inv, Whole
  <2>3. FileIn(nodes, to) => to \in give
    BY <1>6 DEF FileIn, Exists
  <2>4. from \in give
    OBVIOUS
  <2> HIDE DEF map, put, give
  <2>5. nodes[from] \in Node
    BY <2>2 DEF FileIn, Inv, Whole
  <2>6. /\ Whole(put) /\ DOMAIN put = DOMAIN map \cup {to}
        /\ \A q \in DOMAIN map : q # to => put[q] = map[q]
    BY <1>3, <1>6, <2>5, PutWhole DEF put
  <2>7. ~DirIn(put, from)
    <3>1. put[from] = nodes[from]
      BY <1>2, <1>3, <2>2, <2>6
    <3> QED BY <2>2, <3>1 DEF DirIn, FileIn
  <2>8. \A q \in DOMAIN put : \A n \in 0..(Len(q) - 1) : SubSeq(q, 1, n) # from
    BY <2>6, <2>7, FileIsLeaf
  <2>9. /\ Whole(nodes') /\ DOMAIN nodes' = DOMAIN put \ {from}
        /\ \A q \in DOMAIN put : q # from => nodes'[q] = put[q]
    BY <1>2, <2>1, <2>6, <2>8, DropWhole
  <2>10. last'.ok = TRUE /\ last'.to = give
    BY <2>1
  <2>11. ASSUME NEW q \in DOMAIN nodes, IsFile(q), q \notin give
         PROVE  q \in DOMAIN nodes' /\ nodes'[q] = nodes[q]
    <3>1. FileIn(nodes, q) /\ q # from /\ q # to
      BY <1>1, <2>3, <2>4, <2>11
    <3> QED BY <1>3, <2>6, <2>9, <3>1
  <2> QED BY <2>9, <2>10, <2>11 DEF Done, Inv, Kept
<1> QED BY <1>4, <1>5, <1>6

-----------------------------------------------------------------------------
(* The theorems.                                                           *)

LEMMA NextDone ==
  ASSUME Careful, Inv, Next
  PROVE  Done
<1>1. CASE \E p \in Paths, data \in Contents, overwrite \in BOOLEAN :
             MayWrite(p) /\ WriteFile(p, data, overwrite)
  BY <1>1, WriteFileStep
<1>2. CASE \E dir \in Paths, data \in Contents : WriteTempFile(dir, data)
  BY <1>2, WriteTempStep
<1>3. CASE \E p \in Paths, mode \in Modes : MayMkdir(p) /\ MkdirAll(p, mode)
  BY <1>3, MkdirStep
<1>4. CASE \E p \in Paths : Remove(p)
  BY <1>4, RemoveStep
<1>5. CASE \E from, to \in Paths, overwrite \in BOOLEAN :
             MayRename(from, to) /\ Rename(from, to, overwrite)
  BY <1>5, RenameStep
<1> QED BY <1>1, <1>2, <1>3, <1>4, <1>5 DEF Next

LEMMA InitInv == Init => Inv
<1> SUFFICES ASSUME Init PROVE Inv
  OBVIOUS
<1>1. DOMAIN nodes = {Root} /\ nodes[Root] = NewDir(Default) /\ last.ok = TRUE
  BY DEF Init
<1>2. Root \in Paths /\ NewDir(Default) \in Node /\ NewDir(Default).dir = TRUE
  BY NodeIs, ModesAssumption, PathsAssumption
<1>3. Len(Root) = 0
  BY DEF Root
<1>4. \A n \in 0..(Len(Root) - 1) : FALSE
  BY <1>3
<1> QED BY <1>1, <1>2, <1>4 DEF Inv, Whole, DirIn

LEMMA InvAlways ==
  ASSUME Careful
  PROVE  Spec => []Inv
<1>1. Inv /\ [Next]_vars => Inv'
  BY NextDone DEF Done, vars, Inv
<1> QED BY <1>1, InitInv, PTL DEF Spec

LEMMA InvListing ==
  ASSUME Inv
  PROVE  ListingAgrees
<1>1. Whole(nodes) /\ last.ok \in BOOLEAN
  BY DEF Inv
<1>2. \A q : IsDir(q) <=> DirIn(nodes, q)
  BY <1>1, Kind
<1>3. TypeOK
  BY <1>1, <1>2 DEF TypeOK, Whole
<1>4. ASSUME NEW p \in DOMAIN nodes \ {Root}
      PROVE  IsDir(Parent(p)) /\ p[Len(p)] \in Listing(Parent(p))
  <2>1. /\ p \in Paths /\ Len(p) \in Nat /\ Len(p) # 0
        /\ \A n \in 0..Len(p) : Len(SubSeq(p, 1, n)) = n
    BY <1>1, PathIs DEF Whole
  <2>2. Len(p) - 1 \in 0..(Len(p) - 1) /\ Len(p) - 1 \in 0..Len(p) /\ Len(p) > Len(p) - 1
        /\ (Len(p) - 1) + 1 = Len(p)
    <3>1. \A k \in Nat : k # 0 => k - 1 \in 0..(k - 1) /\ k - 1 \in 0..k /\ k > k - 1 /\ (k - 1) + 1 = k
      OBVIOUS
    <3> QED BY <2>1, <3>1
  <2>3. Len(Parent(p)) = Len(p) - 1
    BY <2>1, <2>2 DEF Parent
  <2>4. IsDir(Parent(p))
    BY <1>1, <1>2, <2>2 DEF Whole, Parent
  <2>5. p \in Below(Parent(p))
    BY <2>2, <2>3 DEF Below, Parent
  <2> QED BY <2>2, <2>3, <2>4, <2>5 DEF Listing
<1>5. ASSUME NEW p \in DOMAIN nodes, NEW name \in Listing(p)
      PROVE  Exists(Append(p, name))
  <2>1. PICK q \in DOMAIN nodes :
          Len(q) > Len(p) /\ SubSeq(q, 1, Len(p)) = p /\ name = q[Len(p) + 1]
    BY DEF Listing, Below
  <2>2. p \in Paths /\ q \in Paths /\ Len(p) \in Nat /\ Len(q) \in Nat
        /\ q \in Seq(STRING) /\ p \in Seq(STRING)
    BY <1>1, PathIs DEF Whole
  <2> DEFINE n == Len(p) + 1
             x == SubSeq(q, 1, n)
  <2>3. n \in 0..Len(q) /\ n \in 1..Len(q) /\ Len(p) \in 0..n /\ Len(p) \in 0..Len(q) /\ n \in Nat
    BY <2>1, <2>2
  <2>4. name \in STRING
    BY <2>1, <2>2, <2>3, ElementOfSeq
  <2>5. x \in Seq(STRING) /\ Len(x) = n /\ \A i \in 1..n : x[i] = q[i]
    BY <2>2, <2>3, CutIs
  <2>6. \A i \in 1..Len(p) : p[i] = q[i]
    BY <2>1, <2>2, <2>3, CutIs
  <2>7. /\ Append(p, name) \in Seq(STRING) /\ Len(Append(p, name)) = n
        /\ \A i \in 1..Len(p) : Append(p, name)[i] = p[i]
        /\ Append(p, name)[n] = name
    <3>1. /\ Append(p, name) \in Seq(STRING) /\ Append(p, name) # << >>
          /\ Len(Append(p, name)) = Len(p) + 1
          /\ \A i \in 1..Len(p) : Append(p, name)[i] = p[i]
          /\ Append(p, name)[Len(p) + 1] = name
      <4> DEFINE S == STRING
      <4>1. p \in Seq(S) /\ name \in S
        BY <2>2, <2>4
      <4> HIDE DEF S
      <4>2. /\ Append(p, name) \in Seq(S) /\ Append(p, name) # << >>
            /\ Len(Append(p, name)) = Len(p) + 1
            /\ \A i \in 1..Len(p) : Append(p, name)[i] = p[i]
            /\ Append(p, name)[Len(p) + 1] = name
        BY <4>1, AppendProperties
      <4> QED BY <4>2 DEF S
    <3> QED BY <3>1
  <2>8. \A i \in 1..n : i \in 1..Len(p) \/ i = n
    BY <2>2
  <2> HIDE DEF n
  <2>9. ASSUME NEW i \in 1..n PROVE x[i] = Append(p, name)[i]
    <3>1. CASE i \in 1..Len(p)
      BY <2>5, <2>6, <2>7, <3>1
    <3>2. CASE i = n
      <4>1. x[n] = q[n] /\ name = q[n]
        BY <2>1, <2>5, <3>2 DEF n
      <4> QED BY <2>7, <3>2, <4>1
    <3> QED BY <2>8, <3>1, <3>2
  <2> HIDE DEF x
  <2>10. x = Append(p, name)
    BY <2>5, <2>7, <2>9, SeqEqual
  <2>11. CASE n = Len(q)
    <3>1. x = q
      BY <2>2, <2>11, PathIs DEF x
    <3> QED BY <2>10, <3>1 DEF Exists
  <2>12. CASE n # Len(q)
    <3>1. n \in 0..(Len(q) - 1)
      BY <2>2, <2>3, <2>12
    <3>2. DirIn(nodes, x)
      BY <1>1, <3>1 DEF Whole, x
    <3> QED BY <2>10, <3>2 DEF DirIn, Exists
  <2> QED BY <2>11, <2>12
<1> QED BY <1>3, <1>4, <1>5 DEF ListingAgrees

(* What can be looked up in memsystem's map is found by listing from the   *)
(* root down, and the other way round, after any sequence of calls of      *)
(* careful callers.                                                        *)
THEOREM ListingsStayRight ==
  ASSUME Careful
  PROVE  Spec => []ListingAgrees
<1>1. Inv => ListingAgrees
  BY InvListing
<1> QED BY <1>1, InvAlways, PTL

LEMMA KeptIsIt == [][Kept]_vars => FilesAreKept
<1>1. [Kept]_vars =>
      [ /\ \A p \in DOMAIN nodes :
             (IsFile(p) /\ p \notin last'.to) => p \in DOMAIN nodes' /\ nodes'[p] = nodes[p]
        /\ ~last'.ok =>
             nodes' = nodes \/ \E f \in DOMAIN nodes : ParentsReset(nodes', f) ]_vars
  BY DEF Kept
<1> QED BY <1>1, PTL DEF FilesAreKept

(* memsystem keeps every file that a call was not given leave to replace,  *)
(* and a call that fails changes nothing but the permissions of            *)
(* directories on the way to a file it met, for careful callers.           *)
THEOREM FilesStayKept ==
  ASSUME Careful
  PROVE  Spec => FilesAreKept
<1>1. Inv /\ [Next]_vars => [Kept]_vars
  BY NextDone DEF Done
<1> QED BY <1>1, InvAlways, KeptIsIt, PTL DEF Spec

=============================================================================
