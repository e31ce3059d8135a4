----------------------- MODULE HostFileSystem_proofs ------------------------
(***************************************************************************)
(* Theorems about HostFileSystem, for every set of paths, contents and     *)
(* callers, and any number of calls: the names stay a tree, no file is     *)
(* lost or written by whom it does not belong to, and a failed temporary   *)
(* file leaves nothing behind.                                             *)
(***************************************************************************)
EXTENDS HostFileSystem, SequenceTheorems, TLAPS

-----------------------------------------------------------------------------
(* Names: their prefixes, and where the move of a directory takes them.    *)

LEMMA CutIs ==
  ASSUME NEW p \in Seq(STRING), NEW n \in 0..Len(p)
  PROVE  /\ SubSeq(p, 1, n) \in Seq(STRING)
         /\ Len(SubSeq(p, 1, n)) = n
         /\ \A i \in 1..n : SubSeq(p, 1, n)[i] = p[i]
<1>1. Len(p) \in Nat /\ n \in Int /\ \A i \in 1..n : p[i] \in STRING
  BY ElementOfSeq
<1>2. /\ SubSeq(p, 1, n) \in Seq(STRING)
      /\ Len(SubSeq(p, 1, n)) = IF 1 <= n THEN n - 1 + 1 ELSE 0
      /\ \A i \in 1..(n - 1 + 1) : SubSeq(p, 1, n)[i] = p[1 + i - 1]
  BY <1>1, SubSeqProperties
<1> QED BY <1>1, <1>2

LEMMA CutOfCut ==
  ASSUME NEW p \in Seq(STRING), NEW n \in 0..Len(p), NEW m \in 0..n
  PROVE  SubSeq(SubSeq(p, 1, n), 1, m) = SubSeq(p, 1, m)
<1>1. Len(p) \in Nat /\ m \in 0..Len(p)
  OBVIOUS
<1>2. SubSeq(p, 1, n) \in Seq(STRING) /\ Len(SubSeq(p, 1, n)) = n
  BY CutIs
<1> DEFINE a == SubSeq(SubSeq(p, 1, n), 1, m)
           b == SubSeq(p, 1, m)
<1>3. /\ a \in Seq(STRING) /\ Len(a) = m
      /\ \A i \in 1..m : a[i] = SubSeq(p, 1, n)[i]
  BY <1>2, CutIs
<1>4. b \in Seq(STRING) /\ Len(b) = m /\ \A i \in 1..m : b[i] = p[i]
  BY <1>1, CutIs
<1>5. \A i \in 1..m : SubSeq(p, 1, n)[i] = p[i]
  BY CutIs
<1> HIDE DEF a, b
<1>6. a = b
  BY <1>3, <1>4, <1>5, SeqEqual
<1> QED BY <1>6 DEF a, b

LEMMA PrefixMeans ==
  ASSUME NEW p \in Seq(STRING), NEW q \in Seq(STRING)
  PROVE  IsPrefix(p, q) <=> Len(p) <= Len(q) /\ \A i \in 1..Len(p) : q[i] = p[i]
<1>1. Len(p) \in Nat /\ Len(q) \in Nat
  OBVIOUS
<1>2. CASE ~(Len(p) <= Len(q))
  BY <1>2 DEF IsPrefix
<1>3. CASE Len(p) <= Len(q)
  <2> DEFINE a == SubSeq(q, 1, Len(p))
  <2>1. Len(p) \in 0..Len(q)
    BY <1>1, <1>3
  <2>2. a \in Seq(STRING) /\ Len(a) = Len(p) /\ \A i \in 1..Len(p) : a[i] = q[i]
    BY <2>1, CutIs
  <2> HIDE DEF a
  <2>3. (\A i \in 1..Len(p) : q[i] = p[i]) => a = p
    BY <2>2, SeqEqual
  <2>4. a = p => \A i \in 1..Len(p) : q[i] = p[i]
    BY <2>2
  <2> QED BY <1>3, <2>3, <2>4 DEF IsPrefix, a
<1> QED BY <1>2, <1>3

LEMMA LandingIs ==
  ASSUME NEW from \in Seq(STRING), NEW to \in Seq(STRING), NEW q \in Seq(STRING),
         Len(from) <= Len(q)
  PROVE  LET x == Landing(from, to, q) IN
         /\ x \in Seq(STRING)
         /\ Len(x) = Len(to) + (Len(q) - Len(from))
         /\ \A i \in 1..Len(to) : x[i] = to[i]
         /\ \A i \in (Len(to) + 1)..Len(x) : x[i] = q[(i - Len(to)) + Len(from)]
<1> DEFINE f == Len(from)
           t == Len(to)
           l == Len(q)
           r == SubSeq(q, f + 1, l)
           x == to \o r
<1>1. f \in Nat /\ t \in Nat /\ l \in Nat /\ f <= l
  OBVIOUS
<1>2. \A i \in (f + 1)..l : q[i] \in STRING
  <2> SUFFICES ASSUME NEW i \in (f + 1)..l PROVE q[i] \in STRING
    OBVIOUS
  <2>1. i \in 1..Len(q)
    BY <1>1
  <2> QED BY <2>1, ElementOfSeq
<1>3. /\ r \in Seq(STRING)
      /\ Len(r) = IF f + 1 <= l THEN l - (f + 1) + 1 ELSE 0
      /\ \A i \in 1..(l - (f + 1) + 1) : r[i] = q[(f + 1) + i - 1]
  <2>1. f + 1 \in Int /\ l \in Int
    BY <1>1
  <2> HIDE DEF f, l
  <2> QED BY <1>2, <2>1, SubSeqProperties
<1>4. /\ x \in Seq(STRING)
      /\ Len(x) = Len(to) + Len(r)
      /\ \A i \in 1..(Len(to) + Len(r)) : x[i] = IF i <= Len(to) THEN to[i] ELSE r[i - Len(to)]
  <2> HIDE DEF r
  <2> QED BY <1>3, ConcatProperties
<1>5. x = Landing(from, to, q)
  BY DEF Landing
<1>6. Len(to) = t
  OBVIOUS
<1> HIDE DEF f, t, l, r, x
<1>7. Len(r) = l - f
  BY <1>1, <1>3
<1>8. Len(x) = t + (l - f)
  BY <1>1, <1>4, <1>6, <1>7
<1>9. \A i \in 1..t : x[i] = to[i]
  <2>1. \A i \in 1..t : i \in 1..(t + Len(r)) /\ i <= t
    BY <1>1, <1>7
  <2> QED BY <1>4, <1>6, <2>1
<1>10. ASSUME NEW i \in (t + 1)..Len(x) PROVE x[i] = q[(i - t) + f]
  <2>1. i \in 1..(t + Len(r)) /\ ~(i <= t) /\ i - t \in 1..(l - f)
    BY <1>1, <1>7, <1>8
  <2>2. x[i] = r[i - t]
    BY <1>4, <1>6, <2>1
  <2>3. i - t \in 1..(l - (f + 1) + 1) /\ (f + 1) + (i - t) - 1 = (i - t) + f
    BY <1>1, <2>1
  <2> QED BY <1>3, <2>2, <2>3
<1> QED BY <1>4, <1>5, <1>8, <1>9, <1>10 DEF t, f, l

(* Moved there and back. *)
LEMMA LandingBack ==
  ASSUME NEW from \in Seq(STRING), NEW to \in Seq(STRING), NEW q \in Seq(STRING),
         IsPrefix(from, q)
  PROVE  /\ Landing(to, from, Landing(from, to, q)) = q
         /\ IsPrefix(to, Landing(from, to, q))
<1> DEFINE x == Landing(from, to, q)
           y == Landing(to, from, x)
<1>1. Len(from) \in Nat /\ Len(to) \in Nat /\ Len(q) \in Nat /\ Len(from) <= Len(q)
      /\ \A i \in 1..Len(from) : q[i] = from[i]
  BY PrefixMeans
<1>2. /\ x \in Seq(STRING)
      /\ Len(x) = Len(to) + (Len(q) - Len(from))
      /\ \A i \in 1..Len(to) : x[i] = to[i]
      /\ \A i \in (Len(to) + 1)..Len(x) : x[i] = q[(i - Len(to)) + Len(from)]
  BY <1>1, LandingIs
<1> HIDE DEF x
<1>3. Len(to) <= Len(x)
  BY <1>1, <1>2
<1>4. IsPrefix(to, x)
  BY <1>2, <1>3, PrefixMeans
<1>5. /\ y \in Seq(STRING)
      /\ Len(y) = Len(from) + (Len(x) - Len(to))
      /\ \A i \in 1..Len(from) : y[i] = from[i]
      /\ \A i \in (Len(from) + 1)..Len(y) : y[i] = x[(i - Len(from)) + Len(to)]
  BY <1>2, <1>3, LandingIs
<1> HIDE DEF y
<1>6. Len(y) = Len(q)
  BY <1>1, <1>2, <1>5
<1>7. ASSUME NEW i \in 1..Len(y) PROVE y[i] = q[i]
  <2>1. CASE i <= Len(from)
    <3>1. i \in 1..Len(from)
      BY <1>1, <2>1
    <3> QED BY <1>1, <1>5, <3>1
  <2>2. CASE ~(i <= Len(from))
    <3> DEFINE j == (i - Len(from)) + Len(to)
    <3>1. i \in (Len(from) + 1)..Len(y)
      BY <1>1, <1>6, <2>2
    <3>2. j \in (Len(to) + 1)..Len(x) /\ (j - Len(to)) + Len(from) = i
      BY <1>1, <1>2, <1>6, <3>1
    <3>3. y[i] = x[j]
      BY <1>5, <3>1
    <3> HIDE DEF j
    <3>4. x[j] = q[(j - Len(to)) + Len(from)]
      BY <1>2, <3>2
    <3> QED BY <3>2, <3>3, <3>4
  <2> QED BY <2>1, <2>2
<1>8. y = q
  BY <1>5, <1>6, <1>7, SeqEqual
<1> QED BY <1>4, <1>8 DEF x, y

(* A prefix of a moved name is a prefix of the destination, or was moved.  *)
LEMMA LandingCut ==
  ASSUME NEW from \in Seq(STRING), NEW to \in Seq(STRING), NEW q \in Seq(STRING),
         IsPrefix(from, q), NEW n \in 0..Len(Landing(from, to, q))
  PROVE  /\ n < Len(to) => SubSeq(Landing(from, to, q), 1, n) = SubSeq(to, 1, n)
         /\ ~(n < Len(to)) =>
              LET m == (n - Len(to)) + Len(from) IN
              /\ m \in Len(from)..Len(q)
              /\ n < Len(Landing(from, to, q)) => m < Len(q)
              /\ IsPrefix(from, SubSeq(q, 1, m))
              /\ SubSeq(Landing(from, to, q), 1, n) = Landing(from, to, SubSeq(q, 1, m))
<1> DEFINE x == Landing(from, to, q)
           a == SubSeq(x, 1, n)
<1>1. Len(from) \in Nat /\ Len(to) \in Nat /\ Len(q) \in Nat /\ Len(from) <= Len(q)
      /\ \A i \in 1..Len(from) : q[i] = from[i]
  BY PrefixMeans
<1>2. /\ x \in Seq(STRING)
      /\ Len(x) = Len(to) + (Len(q) - Len(from))
      /\ \A i \in 1..Len(to) : x[i] = to[i]
      /\ \A i \in (Len(to) + 1)..Len(x) : x[i] = q[(i - Len(to)) + Len(from)]
  BY <1>1, LandingIs
<1>3. n \in 0..Len(x) /\ n \in Nat /\ n <= Len(x)
  BY <1>2
<1> HIDE DEF x
<1>4. a \in Seq(STRING) /\ Len(a) = n /\ \A i \in 1..n : a[i] = x[i]
  BY <1>2, <1>3, CutIs
<1> HIDE DEF a
<1>5. ASSUME n < Len(to) PROVE a = SubSeq(to, 1, n)
  <2> DEFINE b == SubSeq(to, 1, n)
  <2>1. n \in 0..Len(to)
    BY <1>1, <1>3, <1>5
  <2>2. b \in Seq(STRING) /\ Len(b) = n /\ \A i \in 1..n : b[i] = to[i]
    BY <2>1, CutIs
  <2>3. \A i \in 1..n : i \in 1..Len(to)
    BY <1>1, <1>3, <1>5
  <2> HIDE DEF b
  <2>4. a = b
    BY <1>2, <1>4, <2>2, <2>3, SeqEqual
  <2> QED BY <2>4 DEF b
<1>6. ASSUME ~(n < Len(to))
      PROVE  LET m == (n - Len(to)) + Len(from) IN
             /\ m \in Len(from)..Len(q)
             /\ n < Len(x) => m < Len(q)
             /\ IsPrefix(from, SubSeq(q, 1, m))
             /\ a = Landing(from, to, SubSeq(q, 1, m))
  <2> DEFINE m == (n - Len(to)) + Len(from)
             c == SubSeq(q, 1, m)
             b == Landing(from, to, c)
  <2>1. m \in Len(from)..Len(q) /\ (n < Len(x) => m < Len(q)) /\ m \in 0..Len(q) /\ m - Len(from) = n - Len(to)
        /\ m \in Nat /\ Len(from) <= m
    BY <1>1, <1>2, <1>3, <1>6
  <2> HIDE DEF m
  <2>2. c \in Seq(STRING) /\ Len(c) = m /\ \A i \in 1..m : c[i] = q[i]
    BY <2>1, CutIs
  <2> HIDE DEF c
  <2>3. IsPrefix(from, c)
    <3>1. \A i \in 1..Len(from) : i \in 1..m
      BY <1>1, <2>1
    <3> QED BY <1>1, <2>1, <2>2, <3>1, PrefixMeans
  <2>4. /\ b \in Seq(STRING)
        /\ Len(b) = Len(to) + (Len(c) - Len(from))
        /\ \A i \in 1..Len(to) : b[i] = to[i]
        /\ \A i \in (Len(to) + 1)..Len(b) : b[i] = c[(i - Len(to)) + Len(from)]
    BY <2>1, <2>2, LandingIs
  <2> HIDE DEF b
  <2>5. Len(b) = n
    BY <1>1, <1>3, <2>1, <2>2, <2>4
  <2>6. ASSUME NEW i \in 1..Len(a) PROVE a[i] = b[i]
    <3>1. CASE i <= Len(to)
      <4>1. i \in 1..Len(to)
        BY <1>1, <1>3, <1>4, <3>1
      <4> QED BY <1>2, <1>4, <2>4, <4>1
    <3>2. CASE ~(i <= Len(to))
      <4>1. /\ i \in (Len(to) + 1)..Len(b) /\ i \in (Len(to) + 1)..Len(x)
            /\ (i - Len(to)) + Len(from) \in 1..m
        BY <1>1, <1>3, <1>4, <2>1, <2>5, <3>2
      <4>2. a[i] = q[(i - Len(to)) + Len(from)]
        BY <1>2, <1>4, <4>1
      <4>3. b[i] = c[(i - Len(to)) + Len(from)]
        BY <2>4, <4>1
      <4> QED BY <2>2, <4>1, <4>2, <4>3
    <3> QED BY <3>1, <3>2
  <2>7. a = b
    BY <1>4, <2>4, <2>5, <2>6, SeqEqual
  <2> QED BY <2>1, <2>3, <2>7 DEF m, c, b
<1> QED BY <1>5, <1>6 DEF a, x

LEMMA PrefixTransitive ==
  ASSUME NEW p \in Seq(STRING), NEW q \in Seq(STRING), NEW r \in Seq(STRING),
         IsPrefix(p, q), IsPrefix(q, r)
  PROVE  IsPrefix(p, r)
<1>1. /\ Len(p) \in Nat /\ Len(q) \in Nat /\ Len(r) \in Nat
      /\ Len(p) <= Len(q) /\ Len(q) <= Len(r)
      /\ \A i \in 1..Len(p) : q[i] = p[i]
      /\ \A i \in 1..Len(q) : r[i] = q[i]
  BY PrefixMeans
<1>2. \A i \in 1..Len(p) : i \in 1..Len(q)
  BY <1>1
<1>3. Len(p) <= Len(r) /\ \A i \in 1..Len(p) : r[i] = p[i]
  BY <1>1, <1>2
<1> QED BY <1>3, PrefixMeans

-----------------------------------------------------------------------------
(* The inductive invariant.                                                *)

Ops == {"none", "write", "temp", "scratch", "rename", "copy", "remove", "mkdir"}
Dos == [op : Ops, from : Paths, to : Paths, overwrite : BOOLEAN, data : Seq(STRING)]
Handles == Inodes \cup {0}
CallRecords == [do : Dos, number : 0..MaxCalls, name : Seq(STRING), out : Handles, in : Handles,
                ok : BOOLEAN]
Places == {"idle", "look", "parents", "open", "source", "write", "undo", "check", "rename",
           "answer"}

Types ==
  /\ pc \in [Callers -> Places]
  /\ call \in [Callers -> CallRecords]
  /\ calls \in 0..MaxCalls
  /\ content \in [Inodes -> Seq(STRING)]
  /\ expected \in [Inodes -> Seq(STRING) \cup {Unknown}]
  /\ maker \in [Inodes -> {<< >>} \cup (Callers \X (0..MaxCalls))]

(* Every name stands in a directory, at any depth, and every file has one  *)
(* name and a maker.                                                       *)
TreeInv ==
  /\ DOMAIN tree \subseteq Paths
  /\ IsDir(Root)
  /\ \A p \in DOMAIN tree : \A n \in 0..(Len(p) - 1) : IsDir(SubSeq(p, 1, n))
  /\ \A p \in DOMAIN tree : tree[p] \in Handles
  /\ \A p, q \in DOMAIN tree : tree[p] = tree[q] /\ tree[p] # Directory => p = q
  /\ \A p \in DOMAIN tree : tree[p] # Directory => maker[tree[p]] # << >>

(* What a caller knows at each of its steps. *)
PlaceOf(c) ==
  /\ pc[c] \in {"look", "parents", "source", "open"} => call[c].out = 0
  /\ pc[c] \in {"write", "check", "undo"} => call[c].out # 0
  /\ pc[c] \in {"check", "undo"} => Do(c).op = "temp"
  /\ pc[c] \in {"look", "rename"} => Do(c).op # "temp"
  /\ pc[c] = "rename" => Do(c).op = "rename"
  /\ call[c].out # 0 => maker[call[c].out] # << >>
  /\ pc[c] = "write" /\ Exclusive(Do(c)) => maker[call[c].out] = <<c, call[c].number>>

(* A temporary file has the name it was made with, until it is renamed,    *)
(* and none once its call has failed.                                      *)
TempOf(c) ==
  /\ pc[c] \in {"write", "check", "undo"} /\ Do(c).op = "temp" =>
       \A p \in DOMAIN tree : tree[p] = call[c].out => p = call[c].name \/ call[c].out \in moved
  /\ (pc[c] = "answer" /\ Do(c).op = "temp" /\ ~call[c].ok /\ call[c].out # 0) =>
       ~Linked(call[c].out) \/ call[c].out \in moved

(* What stands in the way of a Rename without Overwrite came after it had  *)
(* looked.                                                                 *)
LateOf(c) ==
  pc[c] = "rename" /\ ~Do(c).overwrite /\ Present(Do(c).to) => tree[Do(c).to] \in late[c]

(* Whoever writes a file alone found it empty; what is expected of a file  *)
(* nobody is writing is there.                                             *)
WriteInv ==
  /\ \A i \in Inodes : expected[i] # Unknown => Writers(i) = {} /\ content[i] = expected[i]
  /\ \A c \in Callers : pc[c] = "write" /\ call[c].out \notin shared =>
       Writers(call[c].out) = {c} /\ content[call[c].out] = << >>

CallerInv == \A c \in Callers : PlaceOf(c) /\ TempOf(c) /\ LateOf(c)

Inv == Types /\ TreeInv /\ WriteInv /\ CallerInv

-----------------------------------------------------------------------------
(* What the steps do to the tree.                                          *)

Moving(from) == {q \in DOMAIN tree : IsPrefix(from, q)}
Landed(from, to) == {Landing(from, to, q) : q \in Moving(from)}

LEMMA PathsAreSequences == \A p \in Paths : p \in Seq(STRING) /\ Len(p) \in Nat
BY HostAssumption

LEMMA PrefixIsThere ==
  ASSUME TreeInv, NEW q \in DOMAIN tree, NEW p \in Seq(STRING), IsPrefix(p, q), p # q
  PROVE  IsDir(p)
<1>1. q \in Seq(STRING) /\ Len(q) \in Nat /\ Len(p) \in Nat
  BY PathsAreSequences DEF TreeInv
<1>2. Len(p) <= Len(q) /\ SubSeq(q, 1, Len(p)) = p
  BY DEF IsPrefix
<1>3. CASE Len(p) = Len(q)
  BY <1>1, <1>2, <1>3, SubSeqFull
<1>4. CASE Len(p) < Len(q)
  <2>1. Len(p) \in 0..(Len(q) - 1)
    BY <1>1, <1>4
  <2> QED BY <1>2, <2>1 DEF TreeInv
<1> QED BY <1>1, <1>2, <1>3, <1>4

LEMMA CutIsPrefix ==
  ASSUME NEW p \in Seq(STRING), NEW n \in 0..Len(p)
  PROVE  IsPrefix(SubSeq(p, 1, n), p)
<1>1. Len(SubSeq(p, 1, n)) = n
  BY CutIs
<1> QED BY <1>1 DEF IsPrefix

LEMMA PrefixOfParent ==
  ASSUME TreeInv, NEW p \in Seq(STRING), IsDir(Parent(p)), NEW n \in 0..(Len(p) - 1)
  PROVE  IsDir(SubSeq(p, 1, n))
<1>1. Len(p) \in Nat /\ Len(p) - 1 \in 0..Len(p)
  OBVIOUS
<1>2. CASE n = Len(p) - 1
  BY <1>2 DEF Parent
<1>3. CASE n # Len(p) - 1
  <2>1. n \in 0..(Len(p) - 1) /\ n \in 0..((Len(p) - 1) - 1)
    BY <1>1, <1>3
  <2>2. Len(Parent(p)) = Len(p) - 1
    BY <1>1, CutIs DEF Parent
  <2>3. SubSeq(Parent(p), 1, n) = SubSeq(p, 1, n)
    BY <1>1, <2>1, CutOfCut DEF Parent
  <2>4. Parent(p) \in DOMAIN tree
    BY DEF IsDir, Present
  <2> QED BY <2>1, <2>2, <2>3, <2>4 DEF TreeInv
<1> QED BY <1>2, <1>3

LEMMA LandingSelf ==
  ASSUME NEW p \in Seq(STRING), NEW q \in Seq(STRING), IsPrefix(p, q)
  PROVE  Landing(p, p, q) = q
<1> DEFINE x == Landing(p, p, q)
<1>1. Len(p) \in Nat /\ Len(q) \in Nat /\ Len(p) <= Len(q) /\ \A i \in 1..Len(p) : q[i] = p[i]
  BY PrefixMeans
<1>2. /\ x \in Seq(STRING)
      /\ Len(x) = Len(p) + (Len(q) - Len(p))
      /\ \A i \in 1..Len(p) : x[i] = p[i]
      /\ \A i \in (Len(p) + 1)..Len(x) : x[i] = q[(i - Len(p)) + Len(p)]
  BY <1>1, LandingIs
<1> HIDE DEF x
<1>3. Len(x) = Len(q)
  BY <1>1, <1>2
<1>4. ASSUME NEW i \in 1..Len(x) PROVE x[i] = q[i]
  <2>1. CASE i <= Len(p)
    <3>1. i \in 1..Len(p)
      BY <1>1, <2>1
    <3> QED BY <1>1, <1>2, <3>1
  <2>2. CASE ~(i <= Len(p))
    <3>1. i \in (Len(p) + 1)..Len(x) /\ (i - Len(p)) + Len(p) = i
      BY <1>1, <1>3, <2>2
    <3> QED BY <1>2, <3>1
  <2> QED BY <2>1, <2>2
<1>5. x = q
  BY <1>2, <1>3, <1>4, SeqEqual
<1> QED BY <1>5 DEF x

(* A tree with the same names and files is as good. *)
LEMMA SameTree ==
  ASSUME TreeInv, DOMAIN tree' = DOMAIN tree, \A x \in DOMAIN tree : tree'[x] = tree[x],
         \A i \in Inodes : maker[i] # << >> => maker'[i] # << >>
  PROVE  TreeInv'
BY DEF TreeInv, IsDir, Present, Handles, Directory

(* os.Rename keeps the tree a tree; every name comes from one that was     *)
(* there, and only the file under the destination loses its name.          *)
Renamed(from, to) ==
  [q \in (DOMAIN tree \ Moving(from)) \cup Landed(from, to) |->
     IF q \in Landed(from, to) THEN tree[Landing(to, from, q)] ELSE tree[q]]

(* os.Rename keeps the tree a tree; every name comes from one that was     *)
(* there, and only the file under the destination loses its name.          *)
LEMMA Renaming ==
  ASSUME TreeInv, NEW from \in Paths, NEW to \in Paths, Renames(from, to),
         Landed(from, to) \subseteq Paths, maker' = maker, tree' = Renamed(from, to)
  PROVE  /\ TreeInv'
         /\ \A x \in DOMAIN tree' : \E p \in DOMAIN tree :
              tree'[x] = tree[p] /\ (p = x \/ p \in Moving(from))
         /\ \A p \in DOMAIN tree : p # to => \E x \in DOMAIN tree' : tree'[x] = tree[p]
         /\ from = to => \A p \in DOMAIN tree : \E x \in DOMAIN tree' : tree'[x] = tree[p]
<1> DEFINE D == DOMAIN tree
           M == Moving(from)
           L == Landed(from, to)
           There(q) == Landing(from, to, q)
           Back(x) == Landing(to, from, x)
<1>1. /\ D \subseteq Paths /\ \A q \in D : q \in Seq(STRING) /\ Len(q) \in Nat
      /\ from \in Seq(STRING) /\ to \in Seq(STRING) /\ Len(from) \in Nat /\ Len(to) \in Nat
      /\ M \subseteq D /\ from \in M
  <2>1. D \subseteq Paths /\ from \in D
    BY DEF TreeInv, Renames, Present
  <2>2. from \in Seq(STRING) /\ to \in Seq(STRING) /\ \A q \in D : q \in Seq(STRING) /\ Len(q) \in Nat
    BY <2>1, PathsAreSequences
  <2>3. IsPrefix(from, from)
    BY <2>2, PrefixMeans
  <2> QED BY <2>1, <2>2, <2>3 DEF Moving
<1>2. \A q \in M : IsPrefix(from, q) /\ There(q) \in L /\ Back(There(q)) = q /\ IsPrefix(to, There(q))
  BY <1>1, LandingBack DEF Moving, Landed
<1>3. \A x \in L : Back(x) \in M /\ There(Back(x)) = x
  BY <1>2 DEF Landed
<1>4. /\ DOMAIN tree' = (D \ M) \cup L
      /\ \A x \in L : tree'[x] = tree[Back(x)]
      /\ \A x \in (D \ M) \ L : tree'[x] = tree[x]
  BY DEF Renamed
<1>5. CASE from = to
  <2>1. \A q \in M : There(q) = q /\ Back(q) = q
    BY <1>1, <1>2, <1>5, LandingSelf
  <2>2. L = M
    BY <2>1 DEF Landed
  <2> HIDE DEF D, M, L, There, Back
  <2>3. DOMAIN tree' = D /\ \A x \in D : tree'[x] = tree[x]
    BY <1>1, <1>4, <2>1, <2>2
  <2>4. TreeInv'
    BY <2>3, SameTree DEF D
  <2> QED BY <1>5, <2>3, <2>4 DEF D
<1>6. CASE from # to
  <2>1. /\ from # Root /\ IsDir(Parent(to)) /\ ~IsDir(to) /\ ~IsPrefix(from, to)
        /\ IsDir(from) => ~Present(to)
    BY <1>6 DEF Renames
  <2> HIDE DEF D, M, L, There, Back
  <2>2. \A q \in L \cap D : q = to
    <3> SUFFICES ASSUME NEW q \in L \cap D, q # to PROVE FALSE
      OBVIOUS
    <3>1. IsPrefix(to, q)
      BY <1>2, <1>3
    <3>2. IsDir(to)
      BY <1>1, <3>1, PrefixIsThere DEF D
    <3> QED BY <2>1, <3>2
  <2>3. L \cap M = {}
    <3> SUFFICES ASSUME NEW q \in L \cap M PROVE FALSE
      OBVIOUS
    <3>1. q = to
      BY <1>1, <2>2
    <3> QED BY <1>2, <2>1, <3>1
  <2>4. \A y \in D \ M : IsDir(y) => IsDir(y)'
    <3> SUFFICES ASSUME NEW y \in D \ M, IsDir(y) PROVE IsDir(y)'
      OBVIOUS
    <3>1. y \notin L
      BY <2>1, <2>2
    <3> QED BY <1>4, <3>1 DEF IsDir, Present
  <2>5. \A y \in M : IsDir(y) => IsDir(There(y))'
    BY <1>2, <1>4 DEF IsDir, Present
  <2>6. IsDir(Root)'
    <3>1. Root \in D /\ IsDir(Root)
      BY DEF TreeInv, IsDir, Present, D
    <3>2. Root \notin M
      <4> SUFFICES ASSUME IsPrefix(from, Root) PROVE FALSE
        BY <1>2
      <4>1. Len(from) <= 0
        BY DEF IsPrefix, Root
      <4>2. from = Root
        BY <1>1, <4>1, EmptySeq DEF Root
      <4> QED BY <2>1, <4>2
    <3> QED BY <2>4, <3>1, <3>2
  <2>7. ASSUME NEW x \in DOMAIN tree', NEW n \in 0..(Len(x) - 1)
        PROVE  IsDir(SubSeq(x, 1, n))'
    <3>1. CASE x \notin L
      <4>1. x \in D \ M /\ x \in Seq(STRING) /\ n \in 0..Len(x)
        BY <1>1, <1>4, <3>1
      <4>2. IsDir(SubSeq(x, 1, n))
        BY <4>1 DEF TreeInv, D
      <4>3. SubSeq(x, 1, n) \in Seq(STRING) /\ IsPrefix(SubSeq(x, 1, n), x)
        BY <4>1, CutIs, CutIsPrefix
      <4>4. SubSeq(x, 1, n) \in D
        BY <4>2 DEF IsDir, Present, D
      <4>5. SubSeq(x, 1, n) \notin M
        <5> SUFFICES ASSUME SubSeq(x, 1, n) \in M PROVE FALSE
          OBVIOUS
        <5>1. IsPrefix(from, x)
          BY <1>1, <1>2, <4>1, <4>3, PrefixTransitive
        <5> QED BY <4>1, <5>1 DEF M, D, Moving
      <4> QED BY <2>4, <4>2, <4>4, <4>5
    <3>2. CASE x \in L
      <4> DEFINE q == Back(x)
      <4>1. q \in M /\ q \in D /\ q \in Seq(STRING) /\ Len(q) \in Nat /\ IsPrefix(from, q)
            /\ x = Landing(from, to, q)
        BY <1>1, <1>2, <1>3, <3>2 DEF There
      <4> HIDE DEF q
      <4>2. x \in Seq(STRING) /\ n \in 0..Len(x) /\ n < Len(x) /\ n \in Nat
        <5>1. L \subseteq Paths
          BY DEF L
        <5>2. x \in Seq(STRING) /\ Len(x) \in Nat
          BY <3>2, <5>1, PathsAreSequences
        <5> QED BY <5>2
      <4>3. CASE n < Len(to)
        <5>1. SubSeq(x, 1, n) = SubSeq(to, 1, n)
          BY <1>1, <4>1, <4>2, <4>3, LandingCut
        <5>2. n \in 0..Len(to) /\ Len(to) - 1 \in 0..Len(to)
          BY <1>1, <4>2, <4>3
        <5>3. IsDir(SubSeq(to, 1, n))
          <6>1. n \in 0..(Len(to) - 1)
            BY <1>1, <4>2, <4>3
          <6> QED BY <1>1, <2>1, <6>1, PrefixOfParent
        <5>4. SubSeq(to, 1, n) \in Seq(STRING) /\ IsPrefix(SubSeq(to, 1, n), to)
          BY <1>1, <5>2, CutIs, CutIsPrefix
        <5>5. SubSeq(to, 1, n) \in D \ M
          <6>1. SubSeq(to, 1, n) \in D
            BY <5>3 DEF IsDir, Present, D
          <6>2. SubSeq(to, 1, n) \in M => IsPrefix(from, to)
            BY <1>1, <1>2, <5>4, PrefixTransitive
          <6> QED BY <2>1, <6>1, <6>2
        <5> QED BY <2>4, <5>1, <5>3, <5>5
      <4>4. CASE ~(n < Len(to))
        <5> DEFINE m == (n - Len(to)) + Len(from)
        <5>1. /\ m \in Len(from)..Len(q) /\ m < Len(q)
              /\ IsPrefix(from, SubSeq(q, 1, m))
              /\ SubSeq(x, 1, n) = Landing(from, to, SubSeq(q, 1, m))
          BY <1>1, <4>1, <4>2, <4>4, LandingCut
        <5> HIDE DEF m
        <5>2. m \in 0..(Len(q) - 1)
          BY <1>1, <4>1, <5>1
        <5>3. IsDir(SubSeq(q, 1, m))
          BY <4>1, <5>2 DEF TreeInv, D
        <5>4. SubSeq(q, 1, m) \in M
          BY <5>1, <5>3 DEF IsDir, Present, M, Moving
        <5>5. IsDir(There(SubSeq(q, 1, m)))'
          BY <2>5, <5>3, <5>4
        <5> QED BY <5>1, <5>5 DEF There
      <4> QED BY <4>3, <4>4
    <3> QED BY <3>1, <3>2
  <2> DEFINE Origin(x) == IF x \in L THEN Back(x) ELSE x
  <2>8. \A x \in DOMAIN tree' :
          /\ Origin(x) \in D /\ tree'[x] = tree[Origin(x)]
          /\ x \in L <=> Origin(x) \in M
    BY <1>1, <1>3, <1>4
  <2>9. \A x, y \in DOMAIN tree' : Origin(x) = Origin(y) => x = y
    BY <1>3, <2>8
  <2>10. \A x \in DOMAIN tree' : Origin(x) = x \/ Origin(x) \in M
    BY <1>3
  <2> HIDE DEF Origin
  <2>11. DOMAIN tree' \subseteq Paths
    BY <1>1, <1>4 DEF L
  <2>12. \A x \in DOMAIN tree' : tree'[x] \in Handles
    BY <2>8 DEF TreeInv, D
  <2>13. \A x, y \in DOMAIN tree' : tree'[x] = tree'[y] /\ tree'[x] # Directory => x = y
    <3>1. \A p, q \in D : tree[p] = tree[q] /\ tree[p] # Directory => p = q
      BY DEF TreeInv, D
    <3> QED BY <2>8, <2>9, <3>1
  <2>14. \A x \in DOMAIN tree' : tree'[x] # Directory => maker'[tree'[x]] # << >>
    <3>1. \A p \in D : tree[p] # Directory => maker[tree[p]] # << >>
      BY DEF TreeInv, D
    <3> SUFFICES ASSUME NEW x \in DOMAIN tree', tree'[x] # Directory PROVE maker'[tree'[x]] # << >>
      OBVIOUS
    <3>2. Origin(x) \in D /\ tree'[x] = tree[Origin(x)]
      BY <2>8
    <3>3. maker' = maker
      OBVIOUS
    <3> QED BY <3>1, <3>2, <3>3
  <2>15. TreeInv'
    BY <2>6, <2>7, <2>11, <2>12, <2>13, <2>14 DEF TreeInv
  <2>16. ASSUME NEW p \in D, p # to PROVE \E x \in DOMAIN tree' : tree'[x] = tree[p]
    <3>1. CASE p \in M
      BY <1>2, <1>4, <3>1
    <3>2. CASE p \notin M
      BY <1>4, <2>2, <2>16, <3>2
    <3> QED BY <3>1, <3>2
  <2> QED BY <1>6, <2>8, <2>10, <2>15, <2>16 DEF D, M
<1> QED BY <1>5, <1>6

LEMMA ParentIsPath ==
  ASSUME NEW p \in Paths
  PROVE  Parent(p) \in Paths
<1>1. p \in Seq(STRING) /\ Len(p) \in Nat
  BY PathsAreSequences
<1>2. CASE Len(p) = 0
  <2>1. Len(p) - 1 \in Int /\ Len(p) - 1 < 1
    BY <1>2
  <2>2. SubSeq(p, 1, Len(p) - 1) = << >>
    BY <2>1, SubSeqEmpty
  <2> QED BY <2>2, HostAssumption DEF Parent, Root
<1>3. CASE Len(p) # 0
  <2>1. Len(p) - 1 \in 0..Len(p)
    BY <1>1, <1>3
  <2> QED BY <2>1, HostAssumption DEF Parent
<1> QED BY <1>2, <1>3

(* os.MkdirAll adds directories, all along one path. *)
LEMMA Growing ==
  ASSUME TreeInv, NEW t \in Paths, NEW dirs, dirs = Prefixes(t), \A q \in dirs : ~IsFile(q),
         tree' = [q \in DOMAIN tree \cup dirs |-> IF q \in dirs THEN Directory ELSE tree[q]],
         maker' = maker
  PROVE  /\ TreeInv'
         /\ \A x \in DOMAIN tree' : tree'[x] # Directory => x \in DOMAIN tree /\ tree[x] = tree'[x]
         /\ \A p \in DOMAIN tree : p \in DOMAIN tree' /\ tree'[p] = tree[p]
<1> DEFINE D == DOMAIN tree
<1>1. DOMAIN tree' = D \cup dirs /\ \A x \in dirs : tree'[x] = Directory
  OBVIOUS
<1>2. \A p \in D : p \in DOMAIN tree' /\ tree'[p] = tree[p]
  BY DEF IsFile, Present
<1>3. t \in Seq(STRING) /\ Len(t) \in Nat
  BY PathsAreSequences
<1>4. \A y : IsDir(y) => IsDir(y)'
  BY <1>2 DEF IsDir, Present
<1>5. \A k \in 1..Len(t) : SubSeq(t, 1, k) \in dirs
  BY DEF Prefixes
<1>6. \A x \in dirs : \E k \in 1..Len(t) : x = SubSeq(t, 1, k)
  BY DEF Prefixes
<1>7. \A y \in dirs : IsDir(y)'
  BY <1>1 DEF IsDir, Present
<1> HIDE DEF D
<1>8. ASSUME NEW x \in dirs
      PROVE  x \in Paths /\ \A n \in 0..(Len(x) - 1) : IsDir(SubSeq(x, 1, n))'
  <2>1. PICK k \in 1..Len(t) : x = SubSeq(t, 1, k)
    BY <1>6
  <2>2. k \in 0..Len(t) /\ k \in Nat
    BY <1>3
  <2>3. x \in Paths /\ Len(x) = k
    BY <1>3, <2>1, <2>2, CutIs, HostAssumption
  <2>4. ASSUME NEW n \in 0..(Len(x) - 1) PROVE IsDir(SubSeq(x, 1, n))'
    <3>1. n \in 0..k /\ n \in 0..Len(t) /\ (n = 0 \/ n \in 1..Len(t))
      BY <1>3, <2>2, <2>3
    <3>2. SubSeq(x, 1, n) = SubSeq(t, 1, n)
      BY <1>3, <2>1, <2>2, <3>1, CutOfCut
    <3>3. CASE n = 0
      <4>1. SubSeq(x, 1, n) = Root
        BY <3>3, SubSeqEmpty DEF Root
      <4>2. IsDir(Root)
        BY DEF TreeInv
      <4> QED BY <1>4, <4>1, <4>2
    <3>4. CASE n \in 1..Len(t)
      BY <1>5, <1>7, <3>2, <3>4
    <3> QED BY <3>1, <3>3, <3>4
  <2> QED BY <2>3, <2>4
<1>9. ASSUME NEW x \in D, NEW n \in 0..(Len(x) - 1) PROVE IsDir(SubSeq(x, 1, n))'
  BY <1>4 DEF TreeInv, D
<1>10. /\ DOMAIN tree' \subseteq Paths
       /\ \A x \in DOMAIN tree' : \A n \in 0..(Len(x) - 1) : IsDir(SubSeq(x, 1, n))'
  BY <1>1, <1>8, <1>9 DEF TreeInv, D
<1>11. \A x \in DOMAIN tree' : tree'[x] # Directory => x \in D /\ tree[x] = tree'[x]
  BY <1>1, <1>2
<1>12. \A x \in DOMAIN tree' : tree'[x] \in Handles
  <2>1. Directory \in Handles /\ \A p \in D : tree[p] \in Handles
    BY DEF TreeInv, Handles, Directory, D
  <2> QED BY <1>11, <2>1
<1>13. /\ \A x, y \in DOMAIN tree' : tree'[x] = tree'[y] /\ tree'[x] # Directory => x = y
       /\ \A x \in DOMAIN tree' : tree'[x] # Directory => maker'[tree'[x]] # << >>
  <2>1. /\ \A p, q \in D : tree[p] = tree[q] /\ tree[p] # Directory => p = q
        /\ \A p \in D : tree[p] # Directory => maker[tree[p]] # << >>
    BY DEF TreeInv, D
  <2>2. \A x, y \in DOMAIN tree' : tree'[x] = tree'[y] /\ tree'[x] # Directory => x = y
    <3> SUFFICES ASSUME NEW x \in DOMAIN tree', NEW y \in DOMAIN tree',
                        tree'[x] = tree'[y], tree'[x] # Directory
                 PROVE  x = y
      OBVIOUS
    <3>1. x \in D /\ y \in D /\ tree[x] = tree[y] /\ tree[x] # Directory
      BY <1>11
    <3> QED BY <2>1, <3>1
  <2>3. \A x \in DOMAIN tree' : tree'[x] # Directory => maker'[tree'[x]] # << >>
    BY <1>11, <2>1
  <2> QED BY <2>2, <2>3
<1>14. IsDir(Root)'
  BY <1>4 DEF TreeInv
<1> QED BY <1>2, <1>10, <1>11, <1>12, <1>13, <1>14 DEF TreeInv, D

(* os.OpenFile adds one file, in a directory that is there. *)
LEMMA Adding ==
  ASSUME TreeInv, NEW p \in Paths, ~Present(p), IsDir(Parent(p)), NEW i \in Inodes,
         maker[i] = << >>, maker'[i] # << >>, \A j \in Inodes \ {i} : maker'[j] = maker[j],
         tree' = [q \in DOMAIN tree \cup {p} |-> IF q = p THEN i ELSE tree[q]]
  PROVE  /\ TreeInv'
         /\ DOMAIN tree' = DOMAIN tree \cup {p}
         /\ tree'[p] = i
         /\ \A q \in DOMAIN tree : tree'[q] = tree[q] /\ tree[q] # i
<1> DEFINE D == DOMAIN tree
<1>1. DOMAIN tree' = D \cup {p} /\ tree'[p] = i /\ p \notin D /\ \A q \in D : tree'[q] = tree[q]
  BY DEF Present
<1>2. p \in Seq(STRING) /\ Directory \notin Inodes /\ i # Directory
  BY PathsAreSequences DEF Directory, Inodes
<1>3. /\ D \subseteq Paths
      /\ \A q \in D : \A n \in 0..(Len(q) - 1) : IsDir(SubSeq(q, 1, n))
      /\ \A q \in D : tree[q] \in Handles
      /\ \A q, r \in D : tree[q] = tree[r] /\ tree[q] # Directory => q = r
      /\ \A q \in D : tree[q] # Directory => maker[tree[q]] # << >>
  BY DEF TreeInv
<1>4. \A n \in 0..(Len(p) - 1) : IsDir(SubSeq(p, 1, n))
  BY <1>2, PrefixOfParent
<1>5. \A y : IsDir(y) => IsDir(y)'
  BY <1>1 DEF IsDir, Present
<1>6. \A q \in D : tree[q] # i
  BY <1>2, <1>3
<1> HIDE DEF D
<1>7. DOMAIN tree' \subseteq Paths /\ \A x \in DOMAIN tree' : tree'[x] \in Handles
  BY <1>1, <1>3 DEF Handles
<1>8. \A x \in DOMAIN tree' : \A n \in 0..(Len(x) - 1) : IsDir(SubSeq(x, 1, n))'
  BY <1>1, <1>3, <1>4, <1>5
<1>9. \A x, y \in DOMAIN tree' : tree'[x] = tree'[y] /\ tree'[x] # Directory => x = y
  BY <1>1, <1>3, <1>6
<1>10. \A x \in DOMAIN tree' : tree'[x] # Directory => maker'[tree'[x]] # << >>
  <2>1. \A q \in D : tree[q] # Directory => tree[q] \in Inodes \ {i}
    BY <1>3, <1>6 DEF Handles, Directory
  <2> QED BY <1>1, <1>3, <2>1
<1>11. IsDir(Root)'
  BY <1>5 DEF TreeInv
<1> QED BY <1>1, <1>6, <1>7, <1>8, <1>9, <1>10, <1>11 DEF TreeInv, D

(* os.Remove takes one name, with nothing below it. *)
LEMMA Dropping ==
  ASSUME TreeInv, NEW p, Removable(p), Drop(p), maker' = maker
  PROVE  /\ TreeInv'
         /\ DOMAIN tree' = DOMAIN tree \ {p}
         /\ \A x \in DOMAIN tree' : tree'[x] = tree[x]
<1> DEFINE D == DOMAIN tree
<1>1. DOMAIN tree' = D \ {p} /\ \A x \in DOMAIN tree' : tree'[x] = tree[x]
  BY DEF Drop
<1>2. p # Root /\ p \in D /\ \A q \in D : q # p => ~IsPrefix(p, q)
  BY DEF Removable, Present
<1>3. /\ D \subseteq Paths /\ IsDir(Root)
      /\ \A q \in D : \A n \in 0..(Len(q) - 1) : IsDir(SubSeq(q, 1, n))
      /\ \A q \in D : tree[q] \in Handles
      /\ \A q, r \in D : tree[q] = tree[r] /\ tree[q] # Directory => q = r
      /\ \A q \in D : tree[q] # Directory => maker[tree[q]] # << >>
  BY DEF TreeInv
<1>4. \A y : y # p /\ IsDir(y) => IsDir(y)'
  BY <1>1 DEF IsDir, Present
<1> HIDE DEF D
<1>5. ASSUME NEW x \in DOMAIN tree', NEW n \in 0..(Len(x) - 1) PROVE IsDir(SubSeq(x, 1, n))'
  <2>1. x \in D /\ x # p /\ x \in Seq(STRING) /\ n \in 0..Len(x)
    BY <1>1, <1>3, PathsAreSequences
  <2>2. IsPrefix(SubSeq(x, 1, n), x)
    BY <2>1, CutIsPrefix
  <2> QED BY <1>2, <1>3, <1>4, <2>1, <2>2
<1>6. IsDir(Root)'
  BY <1>2, <1>3, <1>4
<1> QED BY <1>1, <1>3, <1>5, <1>6 DEF TreeInv, D

-----------------------------------------------------------------------------
(* What a step of one caller amounts to for the invariant.                 *)

Others(c) == \A d \in Callers \ {c} : pc'[d] = pc[d] /\ call'[d] = call[d]

MakerKept == \A i \in Inodes : maker[i] # << >> => maker'[i] = maker[i]

(* A file that was there has its old name, or has been moved. *)
NamesKept ==
  /\ moved \subseteq moved'
  /\ \A x \in DOMAIN tree' : tree'[x] # Directory /\ maker[tree'[x]] # << >> =>
       \E p \in DOMAIN tree : tree'[x] = tree[p] /\ (p = x \/ tree[p] \in moved')

(* FilesStay, of one caller. *)
FilesOf(c) ==
  \A i \in Inodes :
    LET d == Do(c) IN
    /\ (content'[i] # content[i] /\ Exclusive(d)) => maker'[i] = <<c, call[c].number>>
    /\ (Linked(i) /\ ~Linked(i)') =>
         \/ d.op = "remove" /\ tree[d.to] = i
         \/ d.op = "rename" /\ tree[d.to] = i /\ (d.overwrite \/ i \in late[c])
         \/ d.op = "temp" /\ (call[c].out = i \/ ~Linked(call[c].out) \/ call[c].out \in moved)

Stepped(c) ==
  /\ Types' /\ TreeInv' /\ WriteInv'
  /\ Others(c) /\ MakerKept /\ NamesKept
  /\ PlaceOf(c)' /\ TempOf(c)' /\ LateOf(c)'
  /\ FilesOf(c)

LateStep == late' = [c \in Callers |-> IF pc'[c] \in {"idle", "answer"} THEN {}
                                       ELSE late[c] \cup Came(Do(c).to)]

LEMMA Assembling ==
  ASSUME Inv, NEW c \in Callers, Stepped(c), LateStep
  PROVE  Inv'
<1>1. ASSUME NEW d \in Callers \ {c} PROVE (PlaceOf(d) /\ TempOf(d) /\ LateOf(d))'
  <2>1. pc'[d] = pc[d] /\ call'[d] = call[d] /\ PlaceOf(d) /\ TempOf(d) /\ LateOf(d)
    BY DEF Stepped, Others, Inv, CallerInv
  <2>2. call[d].out \in Handles
    BY DEF Inv, Types, CallRecords
  <2>3. /\ moved \subseteq moved'
        /\ \A x \in DOMAIN tree' : tree'[x] # Directory /\ maker[tree'[x]] # << >> =>
             \E p \in DOMAIN tree : tree'[x] = tree[p] /\ (p = x \/ tree[p] \in moved')
    BY DEF Stepped, NamesKept
  <2>4. call[d].out # 0 => maker[call[d].out] # << >> /\ maker'[call[d].out] = maker[call[d].out]
    <3>1. \A i \in Inodes : maker[i] # << >> => maker'[i] = maker[i]
      BY DEF Stepped, MakerKept
    <3> QED BY <2>1, <2>2, <3>1 DEF PlaceOf, Handles
  <2>5. PlaceOf(d)'
    <3>1. pc[d] = "write" => call[d].out # 0
      BY <2>1 DEF PlaceOf
    <3> QED BY <2>1, <2>4, <3>1 DEF PlaceOf, Do, Exclusive
  <2>6. ASSUME NEW x \in DOMAIN tree', tree'[x] = call[d].out, call[d].out # 0
        PROVE  \E p \in DOMAIN tree : tree[p] = call[d].out /\ (p = x \/ call[d].out \in moved')
    BY <2>3, <2>4, <2>6 DEF Directory
  <2>7. TempOf(d)'
    <3>1. ASSUME pc[d] \in {"write", "check", "undo"}, Do(d).op = "temp",
                 NEW x \in DOMAIN tree', tree'[x] = call[d].out
          PROVE  x = call[d].name \/ call[d].out \in moved'
      <4>1. call[d].out # 0
        BY <2>1, <3>1 DEF PlaceOf
      <4>2. PICK p \in DOMAIN tree : tree[p] = call[d].out /\ (p = x \/ call[d].out \in moved')
        BY <2>6, <3>1, <4>1
      <4> QED BY <2>1, <2>3, <3>1, <4>2 DEF TempOf
    <3>2. ASSUME pc[d] = "answer", Do(d).op = "temp", ~call[d].ok, call[d].out # 0,
                 NEW x \in DOMAIN tree', tree'[x] = call[d].out
          PROVE  call[d].out \in moved'
      <4>1. PICK p \in DOMAIN tree : tree[p] = call[d].out /\ (p = x \/ call[d].out \in moved')
        BY <2>6, <3>2
      <4>2. Linked(call[d].out)
        BY <4>1 DEF Linked
      <4> QED BY <2>1, <2>3, <3>2, <4>2 DEF TempOf
    <3> QED BY <2>1, <3>1, <3>2 DEF TempOf, Do, Linked
  <2>8. LateOf(d)'
    <3> SUFFICES ASSUME pc[d] = "rename", ~Do(d).overwrite, Do(d).to \in DOMAIN tree'
                 PROVE  tree'[Do(d).to] \in late'[d]
      BY <2>1 DEF LateOf, Do, Present
    <3>1. late'[d] = late[d] \cup Came(Do(d).to)
      BY <2>1 DEF LateStep
    <3>2. CASE Present(Do(d).to) /\ tree[Do(d).to] = tree'[Do(d).to]
      BY <2>1, <3>1, <3>2 DEF LateOf
    <3>3. CASE ~(Present(Do(d).to) /\ tree[Do(d).to] = tree'[Do(d).to])
      <4>1. tree'[Do(d).to] \in Came(Do(d).to)
        BY <3>3 DEF Came
      <4> QED BY <3>1, <4>1
    <3> QED BY <3>2, <3>3
  <2> QED BY <2>5, <2>7, <2>8
<1> QED BY <1>1 DEF Stepped, Inv, CallerInv

(* Records. *)

LEMMA Goes ==
  ASSUME Types, NEW c \in Callers, NEW w \in Places, Goto(c, w)
  PROVE  /\ pc' \in [Callers -> Places] /\ pc'[c] = w
         /\ \A d \in Callers \ {c} : pc'[d] = pc[d]
BY DEF Types, Goto

LEMMA RecordIs ==
  ASSUME Types, NEW c \in Callers
  PROVE  /\ call[c] \in CallRecords
         /\ call[c].do \in Dos /\ call[c].number \in 0..MaxCalls /\ call[c].name \in Seq(STRING)
         /\ call[c].out \in Handles /\ call[c].in \in Handles /\ call[c].ok \in BOOLEAN
         /\ Do(c) = call[c].do
         /\ Do(c).op \in Ops /\ Do(c).from \in Paths /\ Do(c).to \in Paths
         /\ Do(c).overwrite \in BOOLEAN /\ Do(c).data \in Seq(STRING)
<1>1. call[c] \in CallRecords
  BY DEF Types
<1>2. call[c].do \in Dos
  BY <1>1 DEF CallRecords
<1> QED BY <1>1, <1>2 DEF CallRecords, Dos, Do

LEMMA SetOk ==
  ASSUME Types, NEW c \in Callers, call' = [call EXCEPT ![c].ok = TRUE]
  PROVE  /\ call' \in [Callers -> CallRecords]
         /\ \A d \in Callers \ {c} : call'[d] = call[d]
         /\ call'[c].do = call[c].do /\ call'[c].number = call[c].number
         /\ call'[c].name = call[c].name /\ call'[c].out = call[c].out
         /\ call'[c].ok = TRUE
<1>1. call \in [Callers -> CallRecords] /\ call[c] \in CallRecords
  BY DEF Types
<1>2. call'[c] = [call[c] EXCEPT !.ok = TRUE]
  BY <1>1
<1>3. call'[c] \in CallRecords
  BY <1>1, <1>2 DEF CallRecords
<1> QED BY <1>1, <1>2, <1>3 DEF CallRecords

LEMMA SetIn ==
  ASSUME Types, NEW c \in Callers, NEW i \in Handles, call' = [call EXCEPT ![c].in = i]
  PROVE  /\ call' \in [Callers -> CallRecords]
         /\ \A d \in Callers \ {c} : call'[d] = call[d]
         /\ call'[c].do = call[c].do /\ call'[c].number = call[c].number
         /\ call'[c].name = call[c].name /\ call'[c].out = call[c].out
<1>1. call \in [Callers -> CallRecords] /\ call[c] \in CallRecords
  BY DEF Types
<1>2. call'[c] = [call[c] EXCEPT !.in = i]
  BY <1>1
<1>3. call'[c] \in CallRecords
  BY <1>1, <1>2 DEF CallRecords
<1> QED BY <1>1, <1>2, <1>3 DEF CallRecords

LEMMA SetOut ==
  ASSUME Types, NEW c \in Callers, NEW i \in Handles, NEW p \in Seq(STRING),
         call' = [call EXCEPT ![c].out = i, ![c].name = p]
  PROVE  /\ call' \in [Callers -> CallRecords]
         /\ \A d \in Callers \ {c} : call'[d] = call[d]
         /\ call'[c].do = call[c].do /\ call'[c].number = call[c].number
         /\ call'[c].name = p /\ call'[c].out = i
<1>1. call \in [Callers -> CallRecords] /\ call[c] \in CallRecords
  BY DEF Types
<1>2. call'[c] = [[call[c] EXCEPT !.out = i] EXCEPT !.name = p]
  BY <1>1
<1>3. call'[c] \in CallRecords
  BY <1>1, <1>2 DEF CallRecords
<1> QED BY <1>1, <1>2, <1>3 DEF CallRecords

LEMMA IdleIs ==
  /\ Idle \in CallRecords /\ Idle.do = NoCall /\ Idle.out = 0
  /\ NoCall.op = "none" /\ Idle.in = 0 /\ Idle.number = 0
<1>1. << >> \in Paths /\ << >> \in Seq(STRING) /\ MaxCalls \in Nat
  BY HostAssumption DEF Root
<1>2. NoCall \in Dos
  BY <1>1 DEF NoCall, Dos, Ops, Root
<1>3. Idle \in CallRecords
  BY <1>1, <1>2 DEF Idle, CallRecords, Handles, Root
<1> QED BY <1>3 DEF Idle, NoCall

LEMMA CallIs ==
  ASSUME NEW d \in Calls
  PROVE  d \in Dos /\ (d.op = "copy" => d.to # Root) /\ d.op # "none"
<1>1. d \in CallSet /\ << >> \in Paths /\ Root \in Paths /\ Contents \subseteq Seq(STRING)
      /\ << >> \in Seq(STRING)
  BY HostAssumption DEF Root
<1> QED BY <1>1 DEF CallSet, Dos, Ops

-----------------------------------------------------------------------------
(* The steps, one by one.                                                  *)

LEMMA SameFiles ==
  ASSUME NEW c \in Callers, content' = content, \A i \in Inodes : Linked(i) => Linked(i)'
  PROVE  FilesOf(c)
BY DEF FilesOf

LEMMA SameNames ==
  ASSUME tree' = tree, moved' = moved
  PROVE  NamesKept /\ \A i \in Inodes : Linked(i) => Linked(i)'
BY DEF NamesKept, Linked

LEMMA SameWrites ==
  ASSUME Inv, NEW c \in Callers, Others(c), pc[c] # "write", pc'[c] # "write",
         content' = content, expected' = expected, shared' = shared
  PROVE  WriteInv'
<1>1. \A i \in Inodes : Writers(i)' = Writers(i)
  BY DEF Writers, Others
<1>2. \A d \in Callers : pc'[d] = "write" =>
        pc[d] = "write" /\ call'[d] = call[d] /\ call[d].out \in Inodes
  <2>1. \A d \in Callers : call[d].out \in Handles /\ (pc[d] = "write" => call[d].out # 0)
    BY DEF Inv, Types, CallRecords, CallerInv, PlaceOf
  <2> QED BY <2>1 DEF Others, Handles
<1>3. WriteInv
  BY DEF Inv
<1>4. \A i \in Inodes : expected'[i] # Unknown => Writers(i)' = {} /\ content'[i] = expected'[i]
  BY <1>1, <1>3 DEF WriteInv
<1>5. ASSUME NEW d \in Callers
      PROVE  (pc[d] = "write" /\ call[d].out \notin shared =>
                Writers(call[d].out) = {d} /\ content[call[d].out] = << >>)'
  <2> SUFFICES ASSUME pc'[d] = "write", call'[d].out \notin shared'
               PROVE  /\ {e \in Callers : pc'[e] = "write" /\ call'[e].out = call'[d].out} = {d}
                      /\ content'[call'[d].out] = << >>
    BY DEF Writers
  <2>1. pc[d] = "write" /\ call'[d] = call[d] /\ call[d].out \in Inodes
    BY <1>2
  <2>2. Writers(call[d].out) = {d} /\ content[call[d].out] = << >>
    BY <1>3, <2>1 DEF WriteInv
  <2>3. {e \in Callers : pc'[e] = "write" /\ call'[e].out = call[d].out} = Writers(call[d].out)
    BY <1>1, <2>1 DEF Writers
  <2> QED BY <2>1, <2>2, <2>3
<1> QED BY <1>4, <1>5 DEF WriteInv

(* A step that changes nothing but its caller. *)
LEMMA Quiet ==
  ASSUME Inv, NEW c \in Callers, UNCHANGED <<host, history>>, Others(c),
         pc' \in [Callers -> Places], call' \in [Callers -> CallRecords], calls' \in 0..MaxCalls,
         pc[c] # "write", pc'[c] # "write", PlaceOf(c)', TempOf(c)', LateOf(c)'
  PROVE  Stepped(c)
<1>1. /\ tree' = tree /\ content' = content /\ maker' = maker /\ moved' = moved
      /\ shared' = shared /\ expected' = expected
  BY DEF host, history
<1>2. Types'
  BY <1>1 DEF Inv, Types
<1>3. TreeInv'
  BY <1>1, SameTree DEF Inv
<1>4. WriteInv'
  BY <1>1, SameWrites
<1>5. NamesKept /\ FilesOf(c)
  BY <1>1, SameNames, SameFiles
<1> QED BY <1>1, <1>2, <1>3, <1>4, <1>5 DEF Stepped, MakerKept

LEMMA FailsStep ==
  ASSUME Inv, NEW c \in Callers, Fails(c),
         pc[c] \in {"look", "parents", "source", "open", "rename"}, pc[c] = "rename" => Do(c).op # "temp"
  PROVE  Stepped(c)
<1>1. UNCHANGED <<host, history>> /\ call' = call /\ calls' = calls /\ Goto(c, "answer")
  BY DEF Fails
<1>2. Types /\ PlaceOf(c)
  BY DEF Inv, CallerInv
<1>3. pc' \in [Callers -> Places] /\ pc'[c] = "answer" /\ \A d \in Callers \ {c} : pc'[d] = pc[d]
  BY <1>1, <1>2, Goes DEF Places
<1>4. maker' = maker /\ Do(c)' = Do(c)
  BY <1>1 DEF history, Do
<1>5. PlaceOf(c)'
  BY <1>1, <1>2, <1>3, <1>4 DEF PlaceOf
<1>6. TempOf(c)'
  BY <1>1, <1>2, <1>3, <1>4 DEF TempOf, PlaceOf
<1>7. LateOf(c)'
  BY <1>3 DEF LateOf
<1>8. Others(c) /\ call' \in [Callers -> CallRecords] /\ calls' \in 0..MaxCalls
  BY <1>1, <1>2, <1>3 DEF Others, Types
<1> QED BY <1>1, <1>3, <1>5, <1>6, <1>7, <1>8, Quiet

LEMMA BeginStep ==
  ASSUME Inv, NEW c \in Callers, NEW d \in Calls, Begin(c, d)
  PROVE  Stepped(c)
<1> DEFINE w == IF ~Resolves(d) \/ (d.op = "copy" /\ d.from = d.to) THEN "answer"
                ELSE IF Looks(d) THEN "look"
                ELSE IF d.op = "rename" THEN "rename"
                ELSE "parents"
           ok == Resolves(d) /\ d.op = "copy" /\ d.from = d.to
           r == [Idle EXCEPT !.do = d, !.number = calls + 1, !.name = d.to, !.ok = ok]
<1>1. /\ UNCHANGED <<host, history>> /\ calls < MaxCalls /\ calls' = calls + 1
      /\ Goto(c, w) /\ pc[c] = "idle" /\ call' = [call EXCEPT ![c] = r]
  BY DEF Begin
<1>2. Types
  BY DEF Inv
<1>3. calls \in 0..MaxCalls /\ MaxCalls \in Nat /\ calls + 1 \in 0..MaxCalls
  BY <1>1, <1>2, HostAssumption DEF Types
<1>4. d \in Dos /\ d.to \in Paths /\ d.op \in Ops /\ d.op # "none" /\ d.to \in Seq(STRING)
  BY CallIs, PathsAreSequences DEF Dos
<1>5. w \in {"answer", "look", "rename", "parents"} /\ w \in Places
      /\ (w = "look" => d.op # "temp") /\ (w = "rename" => d.op = "rename" /\ d.overwrite)
  BY <1>4 DEF Places, Looks, Dos
<1>6. r.do = d /\ r.out = 0 /\ r \in CallRecords
  <2>1. ok \in BOOLEAN
    OBVIOUS
  <2> HIDE DEF ok
  <2>2. Idle \in CallRecords /\ Idle.out = 0
    BY IdleIs
  <2> QED BY <1>3, <1>4, <2>1, <2>2 DEF CallRecords
<1> HIDE DEF w, r
<1>7. pc' \in [Callers -> Places] /\ pc'[c] = w /\ \A e \in Callers \ {c} : pc'[e] = pc[e]
  BY <1>1, <1>2, <1>5, Goes
<1>8. /\ call' \in [Callers -> CallRecords] /\ call'[c] = r
      /\ \A e \in Callers \ {c} : call'[e] = call[e]
  BY <1>1, <1>2, <1>6 DEF Types
<1>9. Do(c)' = d /\ call'[c].out = 0
  BY <1>6, <1>8 DEF Do
<1>10. PlaceOf(c)' /\ TempOf(c)' /\ LateOf(c)'
  BY <1>5, <1>7, <1>9 DEF PlaceOf, TempOf, LateOf
<1>11. Others(c) /\ pc[c] # "write" /\ pc'[c] # "write" /\ calls' \in 0..MaxCalls
  BY <1>1, <1>3, <1>5, <1>7, <1>8 DEF Others
<1> QED BY <1>1, <1>7, <1>8, <1>10, <1>11, Quiet

LEMMA LookStep ==
  ASSUME Inv, NEW c \in Callers, Look(c)
  PROVE  Stepped(c)
<1>1. pc[c] = "look"
  BY DEF Look
<1>2. CASE Present(Do(c).to) \/ BelowFile(Do(c).to)
  BY <1>1, <1>2, FailsStep DEF Look
<1>3. CASE ~(Present(Do(c).to) \/ BelowFile(Do(c).to))
  <2> DEFINE w == IF Do(c).op = "rename" THEN "rename" ELSE "parents"
  <2>1. UNCHANGED <<host, history>> /\ call' = call /\ calls' = calls /\ Goto(c, w)
    BY <1>3 DEF Look
  <2>2. Types /\ PlaceOf(c) /\ w \in {"rename", "parents"} /\ w \in Places
        /\ (w = "rename" => Do(c).op = "rename")
    BY DEF Inv, CallerInv, Places
  <2> HIDE DEF w
  <2>3. pc' \in [Callers -> Places] /\ pc'[c] = w /\ \A d \in Callers \ {c} : pc'[d] = pc[d]
    BY <2>1, <2>2, Goes
  <2>4. maker' = maker /\ Do(c)' = Do(c) /\ tree' = tree
    BY <2>1 DEF history, host, Do
  <2>5. PlaceOf(c)'
    BY <1>1, <2>1, <2>2, <2>3, <2>4 DEF PlaceOf
  <2>6. TempOf(c)'
    BY <2>2, <2>3 DEF TempOf
  <2>7. LateOf(c)'
    BY <1>3, <2>4 DEF LateOf, Present
  <2>8. Others(c) /\ call' \in [Callers -> CallRecords] /\ calls' \in 0..MaxCalls
    BY <2>1, <2>2, <2>3 DEF Others, Types
  <2>9. pc[c] # "write" /\ pc'[c] # "write"
    BY <1>1, <2>2, <2>3
  <2> QED BY <2>1, <2>3, <2>5, <2>6, <2>7, <2>8, <2>9, Quiet
<1> QED BY <1>2, <1>3

LEMMA ParentsStep ==
  ASSUME Inv, NEW c \in Callers, Parents(c)
  PROVE  Stepped(c)
<1> DEFINE t == IF Do(c).op \in {"temp", "mkdir"} THEN Do(c).to ELSE Parent(Do(c).to)
           dirs == ToMake(Do(c))
<1>1. pc[c] = "parents" /\ Types /\ PlaceOf(c) /\ TreeInv
  BY DEF Parents, Inv, CallerInv
<1>2. t \in Paths /\ dirs = Prefixes(t)
  BY <1>1, RecordIs, ParentIsPath DEF ToMake
<1>3. CASE \E q \in dirs : IsFile(q)
  BY <1>1, <1>3, FailsStep DEF Parents
<1>4. CASE ~\E q \in dirs : IsFile(q)
  <2>1. /\ tree' = [q \in DOMAIN tree \cup dirs |-> IF q \in dirs THEN Directory ELSE tree[q]]
        /\ content' = content /\ calls' = calls /\ maker' = maker /\ moved' = moved
        /\ shared' = shared /\ expected' = expected
        /\ IF Do(c).op = "mkdir" THEN Succeeds(c)
           ELSE Goto(c, IF Do(c).op = "copy" THEN "source" ELSE "open") /\ call' = call
    BY <1>4 DEF Parents, history
  <2> HIDE DEF t, dirs
  <2>2. /\ TreeInv'
        /\ \A x \in DOMAIN tree' : tree'[x] # Directory => x \in DOMAIN tree /\ tree[x] = tree'[x]
        /\ \A p \in DOMAIN tree : p \in DOMAIN tree' /\ tree'[p] = tree[p]
    BY <1>1, <1>2, <1>4, <2>1, Growing
  <2>3. /\ pc' \in [Callers -> Places] /\ pc'[c] \in {"answer", "source", "open"}
        /\ (Do(c).op = "mkdir" <=> pc'[c] = "answer")
        /\ call' \in [Callers -> CallRecords] /\ Do(c)' = Do(c) /\ call'[c].out = 0
        /\ Others(c)
    <3>1. CASE Do(c).op = "mkdir"
      <4>1. Goto(c, "answer") /\ call' = [call EXCEPT ![c].ok = TRUE]
        BY <2>1, <3>1 DEF Succeeds
      <4>2. pc' \in [Callers -> Places] /\ pc'[c] = "answer" /\ \A d \in Callers \ {c} : pc'[d] = pc[d]
        BY <1>1, <4>1, Goes DEF Places
      <4>3. /\ call' \in [Callers -> CallRecords] /\ call'[c].do = call[c].do
            /\ call'[c].out = call[c].out /\ \A d \in Callers \ {c} : call'[d] = call[d]
        BY <1>1, <4>1, SetOk
      <4> QED BY <1>1, <3>1, <4>2, <4>3 DEF Do, PlaceOf, Others
    <3>2. CASE Do(c).op # "mkdir"
      <4> DEFINE w == IF Do(c).op = "copy" THEN "source" ELSE "open"
      <4>1. Goto(c, w) /\ call' = call /\ w \in {"source", "open"} /\ w \in Places
        BY <2>1, <3>2 DEF Places
      <4> HIDE DEF w
      <4>2. pc' \in [Callers -> Places] /\ pc'[c] = w /\ \A d \in Callers \ {c} : pc'[d] = pc[d]
        BY <1>1, <4>1, Goes
      <4> QED BY <1>1, <3>2, <4>1, <4>2 DEF Do, PlaceOf, Others, Types
    <3> QED BY <3>1, <3>2
  <2>4. Types'
    BY <1>1, <2>1, <2>3 DEF Types
  <2>5. NamesKept
    BY <2>1, <2>2 DEF NamesKept
  <2>6. FilesOf(c)
    <3>1. \A i \in Inodes : Linked(i) => Linked(i)'
      BY <2>2 DEF Linked
    <3> QED BY <2>1, <3>1, SameFiles
  <2>7. WriteInv'
    BY <1>1, <2>1, <2>3, SameWrites
  <2>8. PlaceOf(c)' /\ TempOf(c)' /\ LateOf(c)'
    BY <2>3 DEF PlaceOf, TempOf, LateOf
  <2> QED BY <2>1, <2>2, <2>3, <2>4, <2>5, <2>6, <2>7, <2>8 DEF Stepped, MakerKept
<1> QED BY <1>3, <1>4

LEMMA OpenSourceStep ==
  ASSUME Inv, NEW c \in Callers, OpenSource(c)
  PROVE  Stepped(c)
<1>1. pc[c] = "source" /\ Types /\ PlaceOf(c) /\ TreeInv
  BY DEF OpenSource, Inv, CallerInv
<1>2. CASE ~Present(Do(c).from)
  BY <1>1, <1>2, FailsStep DEF OpenSource
<1>3. CASE Present(Do(c).from)
  <2>1. /\ UNCHANGED <<host, history>> /\ calls' = calls /\ Goto(c, "open")
        /\ call' = [call EXCEPT ![c].in = tree[Do(c).from]]
    BY <1>3 DEF OpenSource
  <2>2. tree[Do(c).from] \in Handles
    BY <1>1, <1>3 DEF TreeInv, Present
  <2>3. /\ call' \in [Callers -> CallRecords] /\ call'[c].out = call[c].out
        /\ \A d \in Callers \ {c} : call'[d] = call[d]
    BY <1>1, <2>1, <2>2, SetIn
  <2>4. pc' \in [Callers -> Places] /\ pc'[c] = "open" /\ \A d \in Callers \ {c} : pc'[d] = pc[d]
    BY <1>1, <2>1, Goes DEF Places
  <2>5. PlaceOf(c)' /\ TempOf(c)' /\ LateOf(c)'
    BY <1>1, <2>3, <2>4 DEF PlaceOf, TempOf, LateOf
  <2>6. Others(c) /\ calls' \in 0..MaxCalls
    BY <1>1, <2>1, <2>3, <2>4 DEF Others, Types
  <2> QED BY <1>1, <2>1, <2>3, <2>4, <2>5, <2>6, Quiet
<1> QED BY <1>2, <1>3

LEMMA CheckedStep ==
  ASSUME Inv, NEW c \in Callers, Checked(c)
  PROVE  Stepped(c)
<1>1. pc[c] = "check" /\ Types /\ PlaceOf(c) /\ Succeeds(c)
      /\ UNCHANGED <<host, history>> /\ calls' = calls
  BY DEF Checked, Inv, CallerInv
<1>2. /\ call' \in [Callers -> CallRecords] /\ call'[c].out = call[c].out /\ call'[c].ok = TRUE
      /\ \A d \in Callers \ {c} : call'[d] = call[d]
  BY <1>1, SetOk DEF Succeeds
<1>3. pc' \in [Callers -> Places] /\ pc'[c] = "answer" /\ \A d \in Callers \ {c} : pc'[d] = pc[d]
  BY <1>1, Goes DEF Places, Succeeds
<1>4. maker' = maker
  BY <1>1 DEF history
<1>5. PlaceOf(c)' /\ TempOf(c)' /\ LateOf(c)'
  BY <1>1, <1>2, <1>3, <1>4 DEF PlaceOf, TempOf, LateOf
<1>6. Others(c) /\ calls' \in 0..MaxCalls
  BY <1>1, <1>2, <1>3 DEF Others, Types
<1> QED BY <1>1, <1>2, <1>3, <1>5, <1>6, Quiet

LEMMA CheckFailsStep ==
  ASSUME Inv, NEW c \in Callers, CheckFails(c)
  PROVE  Stepped(c)
<1>1. pc[c] = "check" /\ Types /\ PlaceOf(c) /\ TempOf(c) /\ Goto(c, "undo")
      /\ UNCHANGED <<host, history>> /\ calls' = calls /\ call' = call
  BY DEF CheckFails, Inv, CallerInv
<1>2. pc' \in [Callers -> Places] /\ pc'[c] = "undo" /\ \A d \in Callers \ {c} : pc'[d] = pc[d]
  BY <1>1, Goes DEF Places
<1>3. maker' = maker /\ tree' = tree /\ moved' = moved /\ Do(c)' = Do(c)
  BY <1>1 DEF history, host, Do
<1>4. PlaceOf(c)' /\ TempOf(c)' /\ LateOf(c)'
  BY <1>1, <1>2, <1>3 DEF PlaceOf, TempOf, LateOf
<1>5. Others(c) /\ calls' \in 0..MaxCalls /\ call' \in [Callers -> CallRecords]
  BY <1>1, <1>2 DEF Others, Types
<1> QED BY <1>1, <1>2, <1>4, <1>5, Quiet

LEMMA ReturnStep ==
  ASSUME Inv, NEW c \in Callers, Return(c)
  PROVE  Stepped(c)
<1>1. pc[c] = "answer" /\ Types /\ Goto(c, "idle") /\ call' = [call EXCEPT ![c] = Idle]
      /\ UNCHANGED <<host, history>> /\ calls' = calls
  BY DEF Return, Inv
<1>2. pc' \in [Callers -> Places] /\ pc'[c] = "idle" /\ \A d \in Callers \ {c} : pc'[d] = pc[d]
  BY <1>1, Goes DEF Places
<1>3. /\ call' \in [Callers -> CallRecords] /\ call'[c].out = 0
      /\ \A d \in Callers \ {c} : call'[d] = call[d]
  BY <1>1, IdleIs DEF Types
<1>4. PlaceOf(c)' /\ TempOf(c)' /\ LateOf(c)'
  BY <1>2, <1>3 DEF PlaceOf, TempOf, LateOf
<1>5. Others(c) /\ calls' \in 0..MaxCalls
  BY <1>1, <1>2, <1>3 DEF Others, Types
<1> QED BY <1>1, <1>2, <1>3, <1>4, <1>5, Quiet

(* What loses its name when a name is dropped. *)
LEMMA DropNames ==
  ASSUME Inv, NEW p, NEW D, D = DOMAIN tree' , D = DOMAIN tree \ {p},
         \A x \in D : tree'[x] = tree[x], moved' = moved
  PROVE  NamesKept /\ \A i \in Inodes : Linked(i) /\ ~Linked(i)' => tree[p] = i
BY DEF NamesKept, Linked

LEMMA UndoStep ==
  ASSUME Inv, NEW c \in Callers, Undo(c)
  PROVE  Stepped(c)
<1> DEFINE name == call[c].name
           out == call[c].out
<1>1. /\ pc[c] = "undo" /\ Types /\ TreeInv /\ PlaceOf(c) /\ TempOf(c) /\ Goto(c, "answer")
      /\ content' = content /\ call' = call /\ calls' = calls
      /\ maker' = maker /\ moved' = moved /\ shared' = shared /\ expected' = expected
      /\ IF Removable(name) THEN Drop(name) ELSE tree' = tree
  BY DEF Undo, Inv, CallerInv, history
<1>2. pc' \in [Callers -> Places] /\ pc'[c] = "answer" /\ \A d \in Callers \ {c} : pc'[d] = pc[d]
  BY <1>1, Goes DEF Places
<1>3. name \in Seq(STRING) /\ out \in Handles /\ out # 0 /\ Do(c).op = "temp" /\ Do(c)' = Do(c)
  BY <1>1, RecordIs DEF PlaceOf, Do
<1>4. /\ TreeInv' /\ NamesKept
      /\ \A x \in DOMAIN tree' : x \in DOMAIN tree /\ tree'[x] = tree[x]
      /\ Removable(name) => name \notin DOMAIN tree'
      /\ \A i \in Inodes : Linked(i) /\ ~Linked(i)' => name \in DOMAIN tree /\ tree[name] = i
  <2>1. CASE Removable(name)
    <3> HIDE DEF name, out
    <3>1. TreeInv' /\ DOMAIN tree' = DOMAIN tree \ {name}
          /\ \A x \in DOMAIN tree' : tree'[x] = tree[x]
      BY <1>1, <2>1, Dropping
    <3>2. NamesKept /\ \A i \in Inodes : Linked(i) /\ ~Linked(i)' => tree[name] = i
      BY <1>1, <3>1, DropNames
    <3> QED BY <2>1, <3>1, <3>2 DEF Removable, Present
  <2>2. CASE ~Removable(name)
    <3>1. tree' = tree
      BY <1>1, <2>2
    <3> QED BY <1>1, <2>2, <3>1, SameTree, SameNames
  <2> QED BY <2>1, <2>2
<1>5. ASSUME NEW p \in DOMAIN tree, tree[p] = out, out \notin moved
      PROVE  p = name /\ Removable(name)
  <2>1. p = name
    BY <1>1, <1>3, <1>5 DEF TempOf
  <2>2. name # Root
    BY <1>1, <1>3, <1>5, <2>1 DEF TreeInv, IsDir, Directory
  <2>3. \A q \in DOMAIN tree : q # name => ~IsPrefix(name, q)
    <3> SUFFICES ASSUME NEW q \in DOMAIN tree, q # name, IsPrefix(name, q) PROVE FALSE
      OBVIOUS
    <3>1. IsDir(name)
      BY <1>1, <1>3, PrefixIsThere
    <3> QED BY <1>3, <1>5, <2>1, <3>1 DEF IsDir, Directory
  <2> QED BY <1>5, <2>1, <2>2, <2>3 DEF Removable, Present
<1>6. TempOf(c)'
  <2>1. ASSUME NEW x \in DOMAIN tree', tree'[x] = out PROVE out \in moved
    BY <1>4, <1>5, <2>1
  <2> QED BY <1>1, <1>2, <2>1 DEF TempOf, Linked
<1>7. FilesOf(c)
  <2> SUFFICES ASSUME NEW i \in Inodes, Linked(i), ~Linked(i)', Linked(out), out \notin moved
               PROVE  out = i
    BY <1>1, <1>3 DEF FilesOf
  <2>1. tree[name] = i
    BY <1>4
  <2>2. PICK p \in DOMAIN tree : tree[p] = out
    BY DEF Linked
  <2>3. p = name
    BY <1>5, <2>2
  <2> QED BY <2>1, <2>2, <2>3
<1>8. Others(c)
  BY <1>1, <1>2 DEF Others
<1>9. WriteInv'
  BY <1>1, <1>2, <1>8, SameWrites
<1>10. PlaceOf(c)' /\ LateOf(c)'
  BY <1>1, <1>2 DEF PlaceOf, LateOf
<1>11. Types'
  BY <1>1, <1>2 DEF Types
<1> QED BY <1>1, <1>4, <1>6, <1>7, <1>8, <1>9, <1>10, <1>11 DEF Stepped, MakerKept

LEMMA RemoveStep ==
  ASSUME Inv, NEW c \in Callers, Remove(c)
  PROVE  Stepped(c)
<1> DEFINE p == Do(c).to
<1>1. pc[c] = "parents" /\ Do(c).op = "remove" /\ Types /\ TreeInv /\ PlaceOf(c)
  BY DEF Remove, Inv, CallerInv
<1>2. CASE ~Removable(p)
  BY <1>1, <1>2, FailsStep DEF Remove
<1>3. CASE Removable(p)
  <2>1. /\ Drop(p) /\ Goto(c, "answer") /\ call' = [call EXCEPT ![c].ok = TRUE]
        /\ content' = content /\ calls' = calls
        /\ maker' = maker /\ moved' = moved /\ shared' = shared /\ expected' = expected
    BY <1>3 DEF Remove, Succeeds, history
  <2>2. pc' \in [Callers -> Places] /\ pc'[c] = "answer" /\ \A d \in Callers \ {c} : pc'[d] = pc[d]
    BY <1>1, <2>1, Goes DEF Places
  <2>3. /\ call' \in [Callers -> CallRecords] /\ Do(c)' = Do(c) /\ call'[c].out = 0
        /\ \A d \in Callers \ {c} : call'[d] = call[d]
    BY <1>1, <2>1, SetOk DEF Do, PlaceOf
  <2> HIDE DEF p
  <2>4. TreeInv' /\ DOMAIN tree' = DOMAIN tree \ {p} /\ \A x \in DOMAIN tree' : tree'[x] = tree[x]
    BY <1>1, <1>3, <2>1, Dropping
  <2>5. NamesKept /\ \A i \in Inodes : Linked(i) /\ ~Linked(i)' => tree[p] = i
    BY <2>1, <2>4, DropNames
  <2>6. FilesOf(c)
    BY <1>1, <2>1, <2>5 DEF FilesOf, p
  <2>7. Others(c)
    BY <2>2, <2>3 DEF Others
  <2>8. WriteInv'
    BY <1>1, <2>1, <2>2, <2>7, SameWrites
  <2>9. PlaceOf(c)' /\ TempOf(c)' /\ LateOf(c)'
    BY <2>2, <2>3 DEF PlaceOf, TempOf, LateOf
  <2>10. Types'
    BY <1>1, <2>1, <2>2, <2>3 DEF Types
  <2> QED BY <2>1, <2>4, <2>5, <2>6, <2>7, <2>8, <2>9, <2>10 DEF Stepped, MakerKept
<1> QED BY <1>2, <1>3

LEMMA RenameStep ==
  ASSUME Inv, NEW c \in Callers, Rename(c)
  PROVE  Stepped(c)
<1> DEFINE from == Do(c).from
           to == Do(c).to
<1>1. /\ pc[c] = "rename" /\ Do(c).op = "rename" /\ Types /\ TreeInv /\ PlaceOf(c) /\ LateOf(c)
      /\ from \in Paths /\ to \in Paths
  BY RecordIs DEF Rename, Inv, CallerInv, PlaceOf
<1>2. CASE ~Renames(from, to)
  BY <1>1, <1>2, FailsStep DEF Rename
<1>3. CASE Renames(from, to)
  <2>1. /\ Landed(from, to) \subseteq Paths
        /\ tree' = [q \in (DOMAIN tree \ Moving(from)) \cup Landed(from, to) |->
                      IF q \in Landed(from, to) THEN tree[Landing(to, from, q)] ELSE tree[q]]
        /\ moved' = moved \cup {tree[q] : q \in Moving(from)}
        /\ Goto(c, "answer") /\ call' = [call EXCEPT ![c].ok = TRUE]
        /\ content' = content /\ calls' = calls
        /\ maker' = maker /\ shared' = shared /\ expected' = expected
    BY <1>3 DEF Rename, Succeeds, Moving, Landed
  <2>2. pc' \in [Callers -> Places] /\ pc'[c] = "answer" /\ \A d \in Callers \ {c} : pc'[d] = pc[d]
    BY <1>1, <2>1, Goes DEF Places
  <2>3. /\ call' \in [Callers -> CallRecords] /\ Do(c)' = Do(c) /\ call'[c].out = call[c].out
        /\ \A d \in Callers \ {c} : call'[d] = call[d]
    BY <1>1, <2>1, SetOk DEF Do
  <2> HIDE DEF from, to
  <2>4. /\ TreeInv'
        /\ \A x \in DOMAIN tree' : \E p \in DOMAIN tree :
             tree'[x] = tree[p] /\ (p = x \/ p \in Moving(from))
        /\ \A p \in DOMAIN tree : p # to => \E x \in DOMAIN tree' : tree'[x] = tree[p]
        /\ from = to => \A p \in DOMAIN tree : \E x \in DOMAIN tree' : tree'[x] = tree[p]
    <3>1. /\ TreeInv /\ from \in Paths /\ to \in Paths /\ Renames(from, to)
          /\ Landed(from, to) \subseteq Paths /\ maker' = maker
      BY <1>1, <1>3, <2>1
    <3>2. tree' = Renamed(from, to)
      BY <2>1 DEF Renamed
    <3> QED BY <3>1, <3>2, Renaming
  <2>5. NamesKept
    <3>1. moved \subseteq moved' /\ \A p \in Moving(from) : tree[p] \in moved'
      BY <2>1
    <3>2. ASSUME NEW x \in DOMAIN tree'
          PROVE  \E p \in DOMAIN tree : tree'[x] = tree[p] /\ (p = x \/ tree[p] \in moved')
      <4>1. PICK p \in DOMAIN tree : tree'[x] = tree[p] /\ (p = x \/ p \in Moving(from))
        BY <2>4
      <4> QED BY <3>1, <4>1
    <3> QED BY <3>1, <3>2 DEF NamesKept
  <2>6. FilesOf(c)
    <3> SUFFICES ASSUME NEW i \in Inodes, Linked(i), ~Linked(i)'
                 PROVE  tree[to] = i /\ (Do(c).overwrite \/ i \in late[c])
      BY <1>1, <2>1 DEF FilesOf, to
    <3>1. PICK p \in DOMAIN tree : tree[p] = i
      BY DEF Linked
    <3>2. p = to
      BY <2>4, <3>1 DEF Linked
    <3>3. ~Do(c).overwrite => i \in late[c]
      BY <1>1, <3>1, <3>2 DEF LateOf, Present, to
    <3> QED BY <3>1, <3>2, <3>3
  <2>7. Others(c)
    BY <2>2, <2>3 DEF Others
  <2>8. WriteInv'
    BY <1>1, <2>1, <2>2, <2>7, SameWrites
  <2>9. PlaceOf(c)' /\ TempOf(c)' /\ LateOf(c)'
    BY <1>1, <2>1, <2>2, <2>3 DEF PlaceOf, TempOf, LateOf
  <2>10. Types'
    BY <1>1, <2>1, <2>2, <2>3 DEF Types
  <2> QED BY <2>1, <2>4, <2>5, <2>6, <2>7, <2>8, <2>9, <2>10 DEF Stepped, MakerKept
<1> QED BY <1>2, <1>3

(* A file that is opened for writing. *)
LEMMA OpenedWrites ==
  ASSUME Inv, NEW c \in Callers, NEW i \in Inodes, Others(c), pc[c] = "open", pc'[c] = "write",
         call'[c].out = i, content' = [content EXCEPT ![i] = << >>],
         expected' = [expected EXCEPT ![i] = Unknown],
         shared' = IF Writers(i) = {} THEN shared \ {i} ELSE shared \cup {i}
  PROVE  WriteInv'
<1>1. WriteInv /\ content \in [Inodes -> Seq(STRING)] /\ expected \in [Inodes -> Seq(STRING) \cup {Unknown}]
  BY DEF Inv, Types
<1>2. \A d \in Callers : pc'[d] = "write" /\ d # c =>
        pc[d] = "write" /\ call'[d] = call[d] /\ call[d].out \in Inodes
  <2>1. \A d \in Callers : call[d].out \in Handles /\ (pc[d] = "write" => call[d].out # 0)
    BY DEF Inv, Types, CallRecords, CallerInv, PlaceOf
  <2> QED BY <2>1 DEF Others, Handles
<1>3. \A j \in Inodes : Writers(j)' = IF j = i THEN Writers(i) \cup {c} ELSE Writers(j)
  BY DEF Writers, Others
<1>4. ASSUME NEW j \in Inodes, expected'[j] # Unknown
      PROVE  Writers(j)' = {} /\ content'[j] = expected'[j]
  <2>1. j # i
    BY <1>1, <1>4
  <2>2. expected'[j] = expected[j] /\ content'[j] = content[j] /\ Writers(j)' = Writers(j)
    BY <1>1, <1>3, <2>1
  <2> QED BY <1>1, <1>4, <2>2 DEF WriteInv
<1>5. ASSUME NEW d \in Callers
      PROVE  (pc[d] = "write" /\ call[d].out \notin shared =>
                Writers(call[d].out) = {d} /\ content[call[d].out] = << >>)'
  <2> SUFFICES ASSUME pc'[d] = "write", call'[d].out \notin shared'
               PROVE  /\ {e \in Callers : pc'[e] = "write" /\ call'[e].out = call'[d].out} = {d}
                      /\ content'[call'[d].out] = << >>
    BY DEF Writers
  <2>1. CASE d = c
    <3>1. Writers(i) = {}
      BY <2>1
    <3>2. Writers(i)' = {c}
      BY <1>3, <3>1
    <3>3. {e \in Callers : pc'[e] = "write" /\ call'[e].out = i} = {c}
      BY <3>2 DEF Writers
    <3> QED BY <1>1, <2>1, <3>3
  <2>2. CASE d # c
    <3>1. pc[d] = "write" /\ call'[d] = call[d] /\ call[d].out \in Inodes
      BY <1>2, <2>2
    <3>2. call[d].out # i
      <4> SUFFICES ASSUME call[d].out = i PROVE FALSE
        OBVIOUS
      <4>1. d \in Writers(i)
        BY <3>1 DEF Writers
      <4> QED BY <3>1, <4>1
    <3>3. call[d].out \notin shared
      BY <3>1, <3>2
    <3>4. Writers(call[d].out) = {d} /\ content[call[d].out] = << >>
      BY <1>1, <3>1, <3>3 DEF WriteInv
    <3>5. {e \in Callers : pc'[e] = "write" /\ call'[e].out = call[d].out} = Writers(call[d].out)
      BY <1>3, <3>1, <3>2 DEF Writers
    <3>6. content'[call[d].out] = content[call[d].out]
      BY <1>1, <3>1, <3>2
    <3> QED BY <3>1, <3>4, <3>5, <3>6
  <2> QED BY <2>1, <2>2
<1> QED BY <1>4, <1>5 DEF WriteInv

(* A new file, or one that is there and may be emptied. *)
LEMMA OpenedStep ==
  ASSUME Inv, NEW c \in Callers, pc[c] = "open", NEW p \in Paths, NEW i \in Inodes,
         Opened(c, p, i),
         \/ Present(p) /\ tree[p] = i /\ ~Exclusive(Do(c))
         \/ ~Present(p) /\ IsDir(Parent(p)) /\ maker[i] = << >>
  PROVE  Stepped(c)
<1>1. /\ Types /\ TreeInv /\ PlaceOf(c) /\ Goto(c, "write")
      /\ tree' = [q \in DOMAIN tree \cup {p} |-> IF q = p THEN i ELSE tree[q]]
      /\ content' = [content EXCEPT ![i] = << >>]
      /\ expected' = [expected EXCEPT ![i] = Unknown]
      /\ shared' = IF Writers(i) = {} THEN shared \ {i} ELSE shared \cup {i}
      /\ maker' = IF maker[i] = << >> THEN [maker EXCEPT ![i] = <<c, call[c].number>>] ELSE maker
      /\ call' = [call EXCEPT ![c].out = i, ![c].name = p]
      /\ calls' = calls /\ moved' = moved
  BY DEF Opened, Inv, CallerInv
<1>2. /\ content \in [Inodes -> Seq(STRING)] /\ expected \in [Inodes -> Seq(STRING) \cup {Unknown}]
      /\ maker \in [Inodes -> {<< >>} \cup (Callers \X (0..MaxCalls))]
      /\ call[c].number \in 0..MaxCalls
  BY <1>1, RecordIs DEF Types
<1>3. p \in Seq(STRING) /\ i \in Handles /\ i # 0 /\ i # Directory
  BY PathsAreSequences DEF Handles, Inodes, Directory
<1>4. pc' \in [Callers -> Places] /\ pc'[c] = "write" /\ \A d \in Callers \ {c} : pc'[d] = pc[d]
  BY <1>1, Goes DEF Places
<1>5. /\ call' \in [Callers -> CallRecords] /\ Do(c)' = Do(c) /\ call'[c].number = call[c].number
      /\ call'[c].name = p /\ call'[c].out = i
      /\ \A d \in Callers \ {c} : call'[d] = call[d]
  <2>1. /\ call' \in [Callers -> CallRecords]
        /\ \A d \in Callers \ {c} : call'[d] = call[d]
        /\ call'[c].do = call[c].do /\ call'[c].number = call[c].number
        /\ call'[c].name = p /\ call'[c].out = i
    BY <1>1, <1>3, SetOut
  <2> QED BY <2>1 DEF Do
<1>6. Others(c)
  BY <1>4, <1>5 DEF Others
<1>7. WriteInv'
  BY <1>1, <1>4, <1>5, <1>6, OpenedWrites
<1>8. Types'
  <2>1. content' \in [Inodes -> Seq(STRING)]
    <3>1. << >> \in Seq(STRING)
      OBVIOUS
    <3> QED BY <1>1, <1>2, <3>1
  <2>2. expected' \in [Inodes -> Seq(STRING) \cup {Unknown}]
    BY <1>1, <1>2
  <2>3. maker' \in [Inodes -> {<< >>} \cup (Callers \X (0..MaxCalls))]
    BY <1>1, <1>2
  <2> QED BY <1>1, <1>4, <1>5, <2>1, <2>2, <2>3 DEF Types
<1>9. /\ maker'[i] # << >> /\ MakerKept
      /\ maker[i] = << >> => maker'[i] = <<c, call[c].number>>
      /\ \A j \in Inodes \ {i} : maker'[j] = maker[j]
  <2>1. <<c, call[c].number>> # << >>
    OBVIOUS
  <2> QED BY <1>1, <1>2, <2>1 DEF MakerKept
<1>10. \A j \in Inodes \ {i} : content'[j] = content[j]
  BY <1>1, <1>2
<1>11. CASE Present(p) /\ tree[p] = i /\ ~Exclusive(Do(c))
  <2>1. DOMAIN tree' = DOMAIN tree /\ \A x \in DOMAIN tree : tree'[x] = tree[x]
    BY <1>1, <1>11 DEF Present
  <2>2. TreeInv'
    BY <1>1, <1>9, <2>1, SameTree DEF MakerKept
  <2>3. NamesKept /\ \A j \in Inodes : Linked(j) => Linked(j)'
    BY <1>1, <2>1 DEF NamesKept, Linked
  <2>4. FilesOf(c)
    BY <1>11, <2>3 DEF FilesOf
  <2>5. PlaceOf(c)' /\ TempOf(c)' /\ LateOf(c)'
    <3>1. ~Exclusive(Do(c))' /\ Do(c).op # "temp"
      BY <1>5, <1>11 DEF Exclusive
    <3> QED BY <1>3, <1>4, <1>5, <1>9, <3>1 DEF PlaceOf, TempOf, LateOf
  <2> QED BY <1>6, <1>7, <1>8, <1>9, <2>2, <2>3, <2>4, <2>5 DEF Stepped
<1>12. CASE ~Present(p) /\ IsDir(Parent(p)) /\ maker[i] = << >>
  <2>1. /\ TreeInv'
        /\ DOMAIN tree' = DOMAIN tree \cup {p}
        /\ tree'[p] = i
        /\ \A q \in DOMAIN tree : tree'[q] = tree[q] /\ tree[q] # i
    BY <1>1, <1>9, <1>12, Adding
  <2>2. NamesKept
    BY <1>1, <1>12, <2>1 DEF NamesKept
  <2>3. FilesOf(c)
    <3>1. \A j \in Inodes : Linked(j) => Linked(j)'
      BY <2>1 DEF Linked
    <3> QED BY <1>9, <1>10, <1>12, <3>1 DEF FilesOf
  <2>4. PlaceOf(c)'
    BY <1>3, <1>4, <1>5, <1>9, <1>12 DEF PlaceOf
  <2>5. TempOf(c)' /\ LateOf(c)'
    BY <1>4, <1>5, <2>1 DEF TempOf, LateOf
  <2> QED BY <1>6, <1>7, <1>8, <1>9, <2>1, <2>2, <2>3, <2>4, <2>5 DEF Stepped
<1> QED BY <1>11, <1>12

LEMMA OpenStep ==
  ASSUME Inv, NEW c \in Callers, Open(c)
  PROVE  Stepped(c)
<1> DEFINE p == Do(c).to
<1>1. pc[c] = "open" /\ Types /\ TreeInv /\ PlaceOf(c) /\ p \in Paths
  BY RecordIs DEF Open, Inv, CallerInv
<1>2. CASE ~IsDir(Parent(p)) \/ IsDir(p) \/ (Present(p) /\ Exclusive(Do(c)))
  BY <1>1, <1>2, FailsStep DEF Open
<1>3. CASE /\ ~(~IsDir(Parent(p)) \/ IsDir(p) \/ (Present(p) /\ Exclusive(Do(c))))
           /\ Present(p)
  <2>1. Opened(c, p, tree[p]) /\ ~IsDir(p) /\ Present(p) /\ ~Exclusive(Do(c))
    BY <1>3 DEF Open
  <2> HIDE DEF p
  <2>2. tree[p] \in Inodes
    BY <1>1, <2>1 DEF TreeInv, IsDir, Present, Handles, Directory
  <2> QED BY <1>1, <2>1, <2>2, OpenedStep
<1>4. CASE /\ ~(~IsDir(Parent(p)) \/ IsDir(p) \/ (Present(p) /\ Exclusive(Do(c))))
           /\ ~Present(p)
  <2>1. PICK i \in Fresh : Opened(c, p, i)
    BY <1>4 DEF Open
  <2>2. i \in Inodes /\ maker[i] = << >>
    BY DEF Fresh
  <2> HIDE DEF p
  <2> QED BY <1>1, <1>4, <2>1, <2>2, OpenedStep
<1> QED BY <1>2, <1>3, <1>4

LEMMA CreateTempStep ==
  ASSUME Inv, NEW c \in Callers, CreateTemp(c)
  PROVE  Stepped(c)
<1> DEFINE to == Do(c).to
<1>1. pc[c] = "open" /\ Types /\ TreeInv /\ PlaceOf(c) /\ to \in Paths /\ to \in Seq(STRING)
  BY RecordIs, PathsAreSequences DEF CreateTemp, Inv, CallerInv
<1>2. CASE ~IsDir(to) /\ Fails(c)
  BY <1>1, <1>2, FailsStep
<1>3. CASE IsDir(to) /\ ~(~IsDir(to) /\ Fails(c))
  <2>1. PICK x \in TempNames, i \in Fresh :
          Append(to, x) \in Paths \ DOMAIN tree /\ Opened(c, Append(to, x), i)
    BY <1>3 DEF CreateTemp
  <2> DEFINE p == Append(to, x)
  <2> HIDE DEF to
  <2>2. i \in Inodes /\ maker[i] = << >> /\ p \in Paths /\ ~Present(p)
    BY <2>1 DEF Fresh, Present
  <2>3. Parent(p) = to
    <3> DEFINE S == STRING \cup {x}
    <3>1. x \in S /\ to \in Seq(S)
      BY <1>1
    <3>2. /\ p \in Seq(S) /\ Len(p) = Len(to) + 1
          /\ \A k \in 1..Len(to) : p[k] = to[k]
      <4> HIDE DEF S
      <4> QED BY <3>1, AppendProperties
    <3> HIDE DEF p
    <3>3. p \in Seq(STRING) /\ Len(to) \in Nat /\ Len(p) - 1 = Len(to) /\ Len(p) - 1 \in 0..Len(p)
      BY <1>1, <2>2, <3>2, PathsAreSequences
    <3> HIDE DEF S
    <3>4. /\ Parent(p) \in Seq(STRING) /\ Len(Parent(p)) = Len(p) - 1
          /\ \A k \in 1..(Len(p) - 1) : Parent(p)[k] = p[k]
      BY <3>3, CutIs DEF Parent
    <3> QED BY <1>1, <3>2, <3>3, <3>4, SeqEqual
  <2> HIDE DEF p
  <2>4. Opened(c, p, i)
    BY <2>1 DEF p
  <2> QED BY <1>1, <1>3, <2>2, <2>3, <2>4, OpenedStep
<1> QED BY <1>2, <1>3 DEF CreateTemp

(* What is written to an empty file is all that it holds. *)
LEMMA StoredIs ==
  ASSUME Types, NEW i \in Inodes, NEW data \in Seq(STRING), Stored(i, data)
  PROVE  /\ content' \in [Inodes -> Seq(STRING)]
         /\ \A j \in Inodes \ {i} : content'[j] = content[j]
         /\ content[i] = << >> => content'[i] = data
<1> DEFINE old == content[i]
           m == Len(data) + 1
           rest == SubSeq(old, m, Len(old))
<1>1. content \in [Inodes -> Seq(STRING)] /\ old \in Seq(STRING)
      /\ Len(data) \in Nat /\ Len(old) \in Nat /\ m \in Int /\ m \in Nat /\ m >= 1
  BY DEF Types
<1>2. content' = [content EXCEPT ![i] = data \o rest]
  BY DEF Stored
<1>3. rest \in Seq(STRING)
  <2>1. \A k \in m..Len(old) : old[k] \in STRING
    <3> SUFFICES ASSUME NEW k \in m..Len(old) PROVE old[k] \in STRING
      OBVIOUS
    <3>1. k \in 1..Len(old)
      <4> HIDE DEF m, old
      <4> QED BY <1>1
    <3> QED BY <1>1, <3>1, ElementOfSeq
  <2> HIDE DEF m, old
  <2> QED BY <1>1, <2>1, SubSeqProperties
<1>4. data \o rest \in Seq(STRING)
  BY <1>3, ConcatProperties
<1>5. ASSUME old = << >> PROVE data \o rest = data
  <2>1. Len(old) = 0
    BY <1>5
  <2>2. Len(old) < m
    <3> HIDE DEF m, old
    <3> QED BY <1>1, <2>1
  <2>3. rest = << >>
    <3> HIDE DEF m, old
    <3> QED BY <1>1, <2>2, SubSeqEmpty DEF rest
  <2> QED BY <2>3, ConcatEmptySeq
<1> HIDE DEF rest, m
<1> QED BY <1>1, <1>2, <1>4, <1>5

LEMMA StopsWriting ==
  ASSUME Inv, NEW c \in Callers, NEW i \in Inodes, i = call[c].out, Others(c),
         pc[c] = "write", pc'[c] # "write", shared' = shared,
         \A j \in Inodes \ {i} : content'[j] = content[j] /\ expected'[j] = expected[j],
         expected'[i] # Unknown => i \notin shared /\ content'[i] = expected'[i]
  PROVE  WriteInv'
<1>1. WriteInv
  BY DEF Inv
<1>2. \A d \in Callers : pc'[d] = "write" =>
        d # c /\ pc[d] = "write" /\ call'[d] = call[d] /\ call[d].out \in Inodes
  <2>1. \A d \in Callers : call[d].out \in Handles /\ (pc[d] = "write" => call[d].out # 0)
    BY DEF Inv, Types, CallRecords, CallerInv, PlaceOf
  <2> QED BY <2>1 DEF Others, Handles
<1>3. \A j \in Inodes : Writers(j)' = Writers(j) \ {c}
  BY DEF Writers, Others
<1>4. c \in Writers(i)
  BY DEF Writers
<1>5. \A j \in Inodes \ {i} : Writers(j)' = Writers(j)
  BY <1>3 DEF Writers
<1>6. ASSUME NEW j \in Inodes, expected'[j] # Unknown
      PROVE  Writers(j)' = {} /\ content'[j] = expected'[j]
  <2>1. CASE j = i
    <3>1. Writers(i) = {c}
      BY <1>1, <1>6, <2>1 DEF WriteInv
    <3> QED BY <1>3, <1>6, <2>1, <3>1
  <2>2. CASE j # i
    BY <1>1, <1>5, <1>6, <2>2 DEF WriteInv
  <2> QED BY <2>1, <2>2
<1>7. ASSUME NEW d \in Callers
      PROVE  (pc[d] = "write" /\ call[d].out \notin shared =>
                Writers(call[d].out) = {d} /\ content[call[d].out] = << >>)'
  <2> SUFFICES ASSUME pc'[d] = "write", call'[d].out \notin shared'
               PROVE  /\ {e \in Callers : pc'[e] = "write" /\ call'[e].out = call'[d].out} = {d}
                      /\ content'[call'[d].out] = << >>
    BY DEF Writers
  <2>1. d # c /\ pc[d] = "write" /\ call'[d] = call[d] /\ call[d].out \in Inodes
    BY <1>2
  <2>2. Writers(call[d].out) = {d} /\ content[call[d].out] = << >>
    BY <1>1, <2>1 DEF WriteInv
  <2>3. call[d].out # i
    <3> SUFFICES ASSUME call[d].out = i PROVE FALSE
      OBVIOUS
    <3> QED BY <1>4, <2>1, <2>2
  <2>4. {e \in Callers : pc'[e] = "write" /\ call'[e].out = call[d].out} = Writers(call[d].out)
    BY <1>5, <2>1, <2>3 DEF Writers
  <2> QED BY <2>1, <2>2, <2>3, <2>4
<1> QED BY <1>6, <1>7 DEF WriteInv

LEMMA DataIs ==
  ASSUME Types, NEW c \in Callers, Do(c).op = "copy" => call[c].in # Directory
  PROVE  Data(c) \in Seq(STRING)
<1>1. call[c].in \in Handles /\ Do(c).data \in Seq(STRING)
  BY RecordIs
<1>2. call[c].in # Directory => call[c].in \in Inodes
  BY <1>1 DEF Handles, Directory
<1> QED BY <1>1, <1>2 DEF Data, Types

(* Either end of a write: the file's content has changed or not, its       *)
(* caller goes on, and everything else is as it was.                       *)
LEMMA WrittenStep ==
  ASSUME Inv, NEW c \in Callers, NEW i \in Inodes, i = call[c].out, pc[c] = "write",
         Do(c)' = Do(c), call'[c].out = i, call'[c].name = call[c].name,
         call' \in [Callers -> CallRecords], pc' \in [Callers -> Places], Others(c),
         \/ pc'[c] = "answer" /\ Do(c).op # "temp"
         \/ pc'[c] \in {"check", "undo"} /\ Do(c).op = "temp",
         content' \in [Inodes -> Seq(STRING)], expected' \in [Inodes -> Seq(STRING) \cup {Unknown}],
         \A j \in Inodes \ {i} : content'[j] = content[j] /\ expected'[j] = expected[j],
         expected'[i] # Unknown => i \notin shared /\ content'[i] = expected'[i],
         tree' = tree, calls' = calls, maker' = maker, moved' = moved, shared' = shared
  PROVE  Stepped(c)
<1>1. Types /\ TreeInv /\ PlaceOf(c) /\ TempOf(c)
  BY DEF Inv, CallerInv
<1>2. WriteInv'
  BY StopsWriting
<1>3. Types'
  BY <1>1 DEF Types
<1>4. TreeInv'
  BY <1>1, SameTree
<1>5. NamesKept /\ \A j \in Inodes : Linked(j) => Linked(j)'
  BY SameNames
<1>6. FilesOf(c)
  BY <1>1, <1>5 DEF FilesOf, PlaceOf
<1>7. PlaceOf(c)' /\ TempOf(c)' /\ LateOf(c)'
  BY <1>1 DEF PlaceOf, TempOf, LateOf
<1> QED BY <1>2, <1>3, <1>4, <1>5, <1>6, <1>7 DEF Stepped, MakerKept

LEMMA WriteStep ==
  ASSUME Inv, NEW c \in Callers, Write(c)
  PROVE  Stepped(c)
<1> DEFINE i == call[c].out
           data == Data(c)
<1>1. /\ pc[c] = "write" /\ Types /\ WriteInv /\ PlaceOf(c)
      /\ Do(c).op = "copy" => call[c].in # Directory
      /\ Stored(i, data)
      /\ expected' = [expected EXCEPT ![i] = IF i \notin shared THEN data ELSE Unknown]
      /\ tree' = tree /\ calls' = calls /\ maker' = maker /\ moved' = moved /\ shared' = shared
      /\ IF Do(c).op = "temp" THEN Goto(c, "check") /\ call' = call ELSE Succeeds(c)
  BY DEF Write, Inv, CallerInv
<1>2. i \in Inodes /\ data \in Seq(STRING)
  BY <1>1, RecordIs, DataIs DEF PlaceOf, Handles
<1>3. /\ pc' \in [Callers -> Places] /\ call' \in [Callers -> CallRecords] /\ Others(c)
      /\ Do(c)' = Do(c) /\ call'[c].out = i /\ call'[c].name = call[c].name
      /\ \/ pc'[c] = "answer" /\ Do(c).op # "temp"
         \/ pc'[c] = "check" /\ Do(c).op = "temp"
  <2>1. CASE Do(c).op = "temp"
    <3>1. Goto(c, "check") /\ call' = call
      BY <1>1, <2>1
    <3>2. pc' \in [Callers -> Places] /\ pc'[c] = "check" /\ \A d \in Callers \ {c} : pc'[d] = pc[d]
      BY <1>1, <3>1, Goes DEF Places
    <3> QED BY <1>1, <2>1, <3>1, <3>2 DEF Others, Do, Types
  <2>2. CASE Do(c).op # "temp"
    <3>1. Goto(c, "answer") /\ call' = [call EXCEPT ![c].ok = TRUE]
      BY <1>1, <2>2 DEF Succeeds
    <3>2. pc' \in [Callers -> Places] /\ pc'[c] = "answer" /\ \A d \in Callers \ {c} : pc'[d] = pc[d]
      BY <1>1, <3>1, Goes DEF Places
    <3>3. /\ call' \in [Callers -> CallRecords] /\ call'[c].do = call[c].do
          /\ call'[c].out = call[c].out /\ call'[c].name = call[c].name
          /\ \A d \in Callers \ {c} : call'[d] = call[d]
      BY <1>1, <3>1, SetOk
    <3> QED BY <2>2, <3>2, <3>3 DEF Others, Do
  <2> QED BY <2>1, <2>2
<1>4. i \notin shared => content[i] = << >>
  BY <1>1 DEF WriteInv
<1> HIDE DEF i, data
<1>5. /\ content' \in [Inodes -> Seq(STRING)]
      /\ \A j \in Inodes \ {i} : content'[j] = content[j]
      /\ content[i] = << >> => content'[i] = data
  BY <1>1, <1>2, StoredIs
<1>6. expected \in [Inodes -> Seq(STRING) \cup {Unknown}]
  BY <1>1 DEF Types
<1>7. /\ expected' \in [Inodes -> Seq(STRING) \cup {Unknown}]
      /\ \A j \in Inodes \ {i} : expected'[j] = expected[j]
      /\ expected'[i] # Unknown => i \notin shared /\ content'[i] = expected'[i]
  BY <1>1, <1>2, <1>4, <1>5, <1>6
<1> QED BY <1>1, <1>2, <1>3, <1>5, <1>7, WrittenStep DEF i

LEMMA WriteFailsStep ==
  ASSUME Inv, NEW c \in Callers, WriteFails(c)
  PROVE  Stepped(c)
<1> DEFINE i == call[c].out
           w == IF Do(c).op = "temp" THEN "undo" ELSE "answer"
<1>1. /\ pc[c] = "write" /\ Types /\ WriteInv /\ PlaceOf(c) /\ Goto(c, w)
      /\ tree' = tree /\ calls' = calls /\ call' = call
      /\ maker' = maker /\ moved' = moved /\ shared' = shared /\ expected' = expected
  BY DEF WriteFails, Inv, CallerInv, history
<1>2. i \in Inodes /\ w \in Places /\ content \in [Inodes -> Seq(STRING)]
      /\ expected \in [Inodes -> Seq(STRING) \cup {Unknown}]
  BY <1>1, RecordIs DEF PlaceOf, Handles, Places, Types
<1>3. content' \in [Inodes -> Seq(STRING)] /\ \A j \in Inodes \ {i} : content'[j] = content[j]
  <2>1. CASE content' = content
    BY <1>2, <2>1
  <2>2. CASE content' # content
    <3>1. Do(c).op = "copy" => call[c].in # Directory
      BY <2>2 DEF WriteFails
    <3>2. PICK n \in 1..(Len(Data(c)) - 1) : Stored(i, SubSeq(Data(c), 1, n))
      BY <2>2 DEF WriteFails
    <3>3. Data(c) \in Seq(STRING)
      BY <1>1, <3>1, DataIs
    <3>4. n \in 0..Len(Data(c))
      BY <3>3
    <3>5. SubSeq(Data(c), 1, n) \in Seq(STRING)
      BY <3>3, <3>4, CutIs
    <3> QED BY <1>1, <1>2, <3>2, <3>5, StoredIs
  <2> QED BY <2>1, <2>2
<1>4. expected[i] = Unknown
  <2>1. c \in Writers(i)
    BY <1>1 DEF Writers
  <2> QED BY <1>1, <1>2, <2>1 DEF WriteInv
<1> HIDE DEF w, i
<1>5. pc' \in [Callers -> Places] /\ pc'[c] = w /\ \A d \in Callers \ {c} : pc'[d] = pc[d]
  BY <1>1, <1>2, Goes
<1>6. /\ Others(c) /\ Do(c)' = Do(c) /\ call' \in [Callers -> CallRecords]
      /\ \/ pc'[c] = "answer" /\ Do(c).op # "temp"
         \/ pc'[c] = "undo" /\ Do(c).op = "temp"
  BY <1>1, <1>5 DEF Others, Do, Types, w
<1> QED BY <1>1, <1>2, <1>3, <1>4, <1>5, <1>6, WrittenStep DEF i

LEMMA EachStep ==
  ASSUME Inv, Step
  PROVE  \E c \in Callers : Stepped(c)
<1>1. PICK c \in Callers :
        \/ \E d \in Calls : Begin(c, d)
        \/ Look(c) \/ Parents(c) \/ OpenSource(c) \/ Open(c) \/ CreateTemp(c)
        \/ Write(c) \/ WriteFails(c) \/ Checked(c) \/ CheckFails(c) \/ Undo(c)
        \/ Remove(c) \/ Rename(c) \/ Return(c)
  BY DEF Step
<1>2. CASE \E d \in Calls : Begin(c, d)
  BY <1>2, BeginStep
<1>3. CASE Look(c)
  BY <1>3, LookStep
<1>4. CASE Parents(c)
  BY <1>4, ParentsStep
<1>5. CASE OpenSource(c)
  BY <1>5, OpenSourceStep
<1>6. CASE Open(c)
  BY <1>6, OpenStep
<1>7. CASE CreateTemp(c)
  BY <1>7, CreateTempStep
<1>8. CASE Write(c)
  BY <1>8, WriteStep
<1>9. CASE WriteFails(c)
  BY <1>9, WriteFailsStep
<1>10. CASE Checked(c)
  BY <1>10, CheckedStep
<1>11. CASE CheckFails(c)
  BY <1>11, CheckFailsStep
<1>12. CASE Undo(c)
  BY <1>12, UndoStep
<1>13. CASE Remove(c)
  BY <1>13, RemoveStep
<1>14. CASE Rename(c)
  BY <1>14, RenameStep
<1>15. CASE Return(c)
  BY <1>15, ReturnStep
<1> QED BY <1>1, <1>2, <1>3, <1>4, <1>5, <1>6, <1>7, <1>8, <1>9, <1>10, <1>11, <1>12, <1>13,
           <1>14, <1>15

-----------------------------------------------------------------------------
(* The theorems.                                                           *)

LEMMA InitInv == Init => Inv
<1> SUFFICES ASSUME Init PROVE Inv
  OBVIOUS
<1>1. << >> \in Paths /\ << >> \in Seq(STRING) /\ MaxCalls \in Nat
  BY HostAssumption DEF Root
<1>2. Types
  BY <1>1, IdleIs DEF Init, Types, Places
<1>3. DOMAIN tree = {Root} /\ tree[Root] = Directory /\ Len(Root) = 0
  BY DEF Init, Root
<1>4. TreeInv
  BY <1>1, <1>3 DEF TreeInv, IsDir, Present, Handles, Directory, Root
<1>5. \A c \in Callers : pc[c] = "idle" /\ call[c].out = 0
  BY IdleIs DEF Init
<1>6. WriteInv
  BY <1>5 DEF Init, WriteInv, Inodes
<1>7. CallerInv
  BY <1>5 DEF CallerInv, PlaceOf, TempOf, LateOf
<1> QED BY <1>2, <1>4, <1>6, <1>7 DEF Inv

LEMMA NextInv == Inv /\ [Next]_vars => Inv'
<1> SUFFICES ASSUME Inv, [Next]_vars PROVE Inv'
  OBVIOUS
<1>1. CASE Next
  <2>1. Step /\ LateStep
    BY <1>1 DEF Next, LateStep
  <2>2. PICK c \in Callers : Stepped(c)
    BY <2>1, EachStep
  <2> QED BY <2>1, <2>2, Assembling
<1>2. CASE UNCHANGED vars
  <2>1. /\ tree' = tree /\ content' = content /\ pc' = pc /\ call' = call /\ calls' = calls
        /\ maker' = maker /\ moved' = moved /\ shared' = shared /\ expected' = expected
        /\ late' = late
    BY <1>2 DEF vars, host, history
  <2>2. Types' /\ TreeInv'
    BY <2>1, SameTree DEF Inv, Types
  <2>3. WriteInv'
    BY <2>1 DEF Inv, WriteInv, Writers
  <2>4. CallerInv'
    BY <2>1 DEF Inv, CallerInv, PlaceOf, TempOf, LateOf, Do, Exclusive, Linked, Present
  <2> QED BY <2>2, <2>3, <2>4 DEF Inv
<1> QED BY <1>1, <1>2

LEMMA InvAlways == Spec => []Inv
<1> QED BY InitInv, NextInv, PTL DEF Spec

(* hostsystem.FileSystem: the names are a tree whatever calls interleave,  *)
(* and a file that was written by one call at a time, and by none after,   *)
(* holds exactly what the last successful one gave it.                     *)
THEOREM WritesStayWhole == Spec => []WritesAreWhole
<1>1. ASSUME Inv PROVE WritesAreWhole
  <2>1. Types /\ TreeInv /\ WriteInv
    BY <1>1 DEF Inv
  <2>2. ASSUME NEW p \in DOMAIN tree \ {Root} PROVE IsDir(Parent(p))
    <3>1. p \in Seq(STRING) /\ Len(p) \in Nat
      BY <2>1, PathsAreSequences DEF TreeInv
    <3>2. Len(p) # 0
      BY <3>1, <2>2, EmptySeq DEF Root
    <3>3. Len(p) - 1 \in 0..(Len(p) - 1)
      BY <3>1, <3>2
    <3> QED BY <2>1, <3>3 DEF TreeInv, Parent
  <2>3. HostTypeOK
    BY <2>1, <2>2 DEF HostTypeOK, Types, TreeInv, Places
  <2> QED BY <2>1, <2>3 DEF WritesAreWhole, WriteInv
<1> QED BY <1>1, InvAlways, PTL

(* WriteTempFile: one that has failed has left its file nowhere, unless    *)
(* somebody had renamed it.                                                *)
THEOREM FailedTempsGo == Spec => []FailedTempsVanish
<1>1. Inv => FailedTempsVanish
  BY DEF Inv, CallerInv, TempOf, FailedTempsVanish
<1> QED BY <1>1, InvAlways, PTL

(* hostsystem.FileSystem and CopyRegularFile without Overwrite write into  *)
(* no file but their own, and a file loses its name only to a call that    *)
(* was asked to take it.                                                   *)
THEOREM FilesKeepTheirNames == Spec => FilesStay
<1>1. Inv /\ [Next]_vars =>
        [ \A c \in {c \in Callers : pc'[c] # pc[c]} : FilesOf(c) ]_vars
  <2> SUFFICES ASSUME Inv, Next PROVE \A c \in Callers : pc'[c] # pc[c] => FilesOf(c)
    OBVIOUS
  <2>1. PICK c \in Callers : Stepped(c)
    BY EachStep DEF Next
  <2>2. \A d \in Callers : pc'[d] # pc[d] => d = c
    BY <2>1 DEF Stepped, Others
  <2> QED BY <2>1, <2>2 DEF Stepped
<1>2. [ \A c \in {c \in Callers : pc'[c] # pc[c]} : FilesOf(c) ]_vars <=>
      [ \A c \in {c \in Callers : pc'[c] # pc[c]}, i \in Inodes :
          LET d == Do(c) IN
          /\ (content'[i] # content[i] /\ Exclusive(d)) => maker'[i] = <<c, call[c].number>>
          /\ (Linked(i) /\ ~Linked(i)') =>
               \/ d.op = "remove" /\ tree[d.to] = i
               \/ d.op = "rename" /\ tree[d.to] = i /\ (d.overwrite \/ i \in late[c])
               \/ d.op = "temp" /\ (call[c].out = i \/ ~Linked(call[c].out) \/ call[c].out \in moved)
      ]_vars
  BY DEF FilesOf
<1> QED BY <1>1, <1>2, InvAlways, PTL DEF Spec, FilesStay

=============================================================================
