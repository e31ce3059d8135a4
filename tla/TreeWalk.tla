------------------------------- MODULE TreeWalk --------------------------------
(***************************************************************************)
(* Walk and Glob of fs_helpers.go, and the path patterns Glob matches,     *)
(* over a memory filesystem that others change meanwhile.  fs.WalkDir      *)
(* looks at one entry at a time and lists each directory when it comes to  *)
(* it, so what it is told of a directory may be out of date: every look    *)
(* and every listing is a step.  The order of a listing is open, as the    *)
(* memory filesystem's is; so the entries that were found are a set.       *)
(***************************************************************************)
EXTENDS MemFileSystem

CONSTANTS
  Requests,          \* the calls that are made: see RequestSet
  MaxChanges,        \* bound: changes others make during one call
  Hidden,            \* names that begin with a dot
  Star, DoubleStar   \* pattern elements * and **

(* Roots and bases are sequences of elements before cleanFSName; patterns  *)
(* are sequences of elements as path.Clean leaves them, with at most one   *)
(* brace in them.                                                          *)
RequestSet ==
  [kind : {"walk"}, root : Seq(STRING), depth : Nat, hidden : BOOLEAN, limit : Nat,
   filesOnly : BOOLEAN, skip : SUBSET STRING, filter : Seq(STRING)]
  \cup
  [kind : {"glob"}, root : Seq(STRING), skip : SUBSET STRING, scan : Nat, limit : Nat,
   pattern : [before : Seq(STRING), braces : Seq(Seq(STRING)), after : Seq(STRING)]]

ASSUME RequestsAssumption == Requests \subseteq RequestSet

VARIABLES
  walk,    \* the call under way: pc, request, options, pending, found, ...
  ctx,     \* its context
  stable,  \* history: entries that are what they were when the call began
  seen,    \* history: entries there were since it began
  changes  \* how many calls of others there were since it began

history == <<stable, seen, changes>>
walkVars == <<nodes, last, walk, ctx, history>>

Base(p) == p[Len(p)]

-----------------------------------------------------------------------------
(* Names, options and patterns.                                            *)

(* path.Clean, and no name that is absolute (its first element is empty)   *)
(* or leads out; a set, empty if it is or does.                            *)
CleanFSName(name) ==
  LET clean[i \in 0..Len(name)] ==
        IF i = 0 THEN << >>
        ELSE LET before == clean[i - 1] IN
             IF name[i] \in {"", "."} THEN before
             ELSE IF name[i] = ".." /\ before # << >> /\ Base(before) # ".."
               THEN Parent(before)
               ELSE Append(before, name[i])
  IN {n \in {clean[Len(name)]} : /\ ~(Len(name) > 1 /\ name[1] = "")
                                 /\ \A i \in DOMAIN n : n[i] # ".."}

WalkOptions(r) ==
  [depth |-> IF r.depth = 0 THEN 3 ELSE IF r.depth > 50 THEN 50 ELSE r.depth,
   limit |-> IF r.limit = 0 \/ r.limit > 10000 THEN 1000 ELSE r.limit,
   hidden |-> r.hidden, filesOnly |-> r.filesOnly, skip |-> r.skip, filter |-> r.filter]

GlobOptions(r) ==
  WalkOptions([depth |-> 50, hidden |-> TRUE, filesOnly |-> FALSE, skip |-> r.skip,
               filter |-> << >>,
               limit |-> IF r.scan = 0 \/ r.scan > 100000 THEN 10000 ELSE r.scan])
ResultLimit(r) == IF r.limit = 0 \/ r.limit > 10000 THEN 1000 ELSE r.limit

(* One element against one element, as path.Match does it. *)
ElementMatches(pattern, x) == pattern \in {Star, DoubleStar} \/ pattern = x
PathMatches(pattern, p) ==
  Len(pattern) = Len(p) /\ \A i \in DOMAIN p : ElementMatches(pattern[i], p[i])

(* The whole, or its last name, or for a directory what may lie in it. *)
FilterMatches(pattern, rel, isDir) ==
  \/ pattern = << >>
  \/ PathMatches(pattern, rel)
  \/ PathMatches(pattern, <<Base(rel)>>)
  \/ isDir /\ PathMatches(pattern, Append(rel, Star))

(* expandBraces and Compile: the alternatives, or none for a pattern that  *)
(* is refused.  Compile looks for .. before it expands, so one within the  *)
(* braces goes unnoticed, and matches nothing.                             *)
Compile(pattern) ==
  LET outer == pattern.before \o pattern.after
      expanded == IF pattern.braces = << >> THEN {outer}
                  ELSE {pattern.before \o pattern.braces[i] \o pattern.after :
                          i \in DOMAIN pattern.braces}
  IN IF \/ \E i \in DOMAIN pattern.braces : pattern.braces[i] = << >>
        \/ << >> \in expanded
        \/ outer # << >> /\ outer[1] = ""
        \/ \E i \in DOMAIN outer : outer[i] = ".."
       THEN {} ELSE expanded

(* Faulty variant: ** stands for one name at least. *)
MatchSegments_Some(pattern, rel) ==
  LET n == Len(pattern)
      m == Len(rel)
      match[i \in 1..(n + 1)] ==
        [j \in 1..(m + 1) |->
           IF i > n THEN j > m
           ELSE IF pattern[i] = DoubleStar THEN \E k \in (j + 1)..(m + 1) : match[i + 1][k]
           ELSE j <= m /\ ElementMatches(pattern[i], rel[j]) /\ match[i + 1][j + 1]]
  IN match[1][1]

(* What is left of the pattern from i on against the names from j on.      *)
MatchSegments(pattern, rel) ==
  LET n == Len(pattern)
      m == Len(rel)
      match[i \in 1..(n + 1)] ==
        [j \in 1..(m + 1) |->
           IF i > n THEN j > m
           ELSE IF pattern[i] = DoubleStar THEN \E k \in j..(m + 1) : match[i + 1][k]
           ELSE j <= m /\ ElementMatches(pattern[i], rel[j]) /\ match[i + 1][j + 1]]
  IN match[1][1]

Match(patterns, p) == p # << >> /\ \E pattern \in patterns : MatchSegments(pattern, p)

-----------------------------------------------------------------------------
(* The walk.                                                               *)

Idle == [pc |-> "idle"]
Entry(p) == [path |-> p, dir |-> IsDir(p)]
Entries == {Entry(p) : p \in DOMAIN nodes}
Below0(root, p) == SubSeq(p, Len(root) + 1, Len(p))

WalkInit ==
  /\ Init
  /\ walk = Idle
  /\ ctx = "live"
  /\ stable = {}
  /\ seen = {}
  /\ changes = 0

(* What follows Walk: an answer for Glob. *)
Finish(w, failed) ==
  LET r == w.request
      patterns == Compile(r.pattern)
      matching == {e \in w.found : Match(patterns, Below0(w.root, e.path))
                                   \/ Match(patterns, e.path)} IN
  IF r.kind = "walk" \/ failed
    THEN walk' = [w EXCEPT !.pc = "done", !.failed = failed]
    ELSE \E some \in SUBSET matching :
           /\ Cardinality(some) = IF Cardinality(matching) > ResultLimit(r)
                                    THEN ResultLimit(r) ELSE Cardinality(matching)
           /\ walk' = [w EXCEPT !.pc = "done", !.matches = some,
                                !.cut = @ \/ Cardinality(matching) > ResultLimit(r)]

(* The root is looked at, and listed next if it is a directory; one that   *)
(* is not there is no error.                                               *)
Start(r) ==
  /\ walk = Idle
  /\ r.kind = "glob" => Compile(r.pattern) # {}
  /\ \E root \in CleanFSName(r.root) :
       LET w == [pc |-> "list", request |-> r, root |-> root, at |-> root,
                 options |-> IF r.kind = "walk" THEN WalkOptions(r) ELSE GlobOptions(r),
                 pending |-> << >>, found |-> {}, count |-> 0, cut |-> FALSE,
                 failed |-> FALSE, matches |-> {}]
       IN IF Exists(root) /\ ctx = "cancelled" THEN Finish(w, TRUE)
          ELSE IF IsDir(root) THEN walk' = w
          ELSE Finish(w, FALSE)
  /\ stable' = Entries
  /\ seen' = Entries
  /\ changes' = 0
  /\ UNCHANGED <<nodes, last, ctx>>

(* ReadDir: its error is swallowed. *)
List ==
  /\ walk.pc = "list"
  /\ LET names == IF IsDir(walk.at) THEN Listing(walk.at) ELSE {}
         listed == {Entry(Append(walk.at, x)) : x \in names}
     IN walk' = [walk EXCEPT !.pc = "look",
                             !.pending = IF listed = {} THEN @ ELSE Append(@, listed)]
  /\ UNCHANGED <<nodes, last, ctx, history>>

(* The directory that is being gone through loses the entry.               *)
Without(pending, e) ==
  LET rest == pending[Len(pending)] \ {e} IN
  IF rest = {} THEN SubSeq(pending, 1, Len(pending) - 1)
  ELSE [pending EXCEPT ![Len(pending)] = rest]

TooDeep(w, e) == Len(Below0(w.root, e.path)) > w.options.depth
IsHidden(w, e) == ~w.options.hidden /\ Base(e.path) \in Hidden

Skipped(w, e) == e.dir /\ Base(e.path) \in w.options.skip
Wanted(w, e) ==
  /\ ~(w.options.filesOnly /\ e.dir)
  /\ FilterMatches(w.options.filter, Below0(w.root, e.path), e.dir)

(* Faulty variant: a file that is passed over ends the listing of its      *)
(* directory, as fs.SkipDir does.                                          *)
Look_SkipDir(e) ==
  LET left == Without(walk.pending, e)
      onward == [walk EXCEPT !.pending = left]
      skipped == IF e.dir THEN onward
                 ELSE [walk EXCEPT !.pending = SubSeq(@, 1, Len(@) - 1)]
      entered(w) == IF e.dir THEN [w EXCEPT !.pc = "list", !.at = e.path] ELSE w IN
  /\ IF ctx = "cancelled" THEN Finish(walk, TRUE)
     ELSE IF TooDeep(walk, e) \/ IsHidden(walk, e) \/ Skipped(walk, e) THEN walk' = skipped
     ELSE IF ~Wanted(walk, e) THEN walk' = entered(onward)
     ELSE IF walk.count >= walk.options.limit THEN Finish([walk EXCEPT !.cut = TRUE], FALSE)
     ELSE walk' = entered([onward EXCEPT !.found = @ \cup {e}, !.count = @ + 1])
  /\ UNCHANGED <<nodes, last, ctx, history>>

(* The callback of WalkDir. *)
Look(e) ==
  LET onward == [walk EXCEPT !.pending = Without(@, e)]
      entered(w) == IF e.dir THEN [w EXCEPT !.pc = "list", !.at = e.path] ELSE w IN
  /\ IF ctx = "cancelled" THEN Finish(walk, TRUE)
     ELSE IF TooDeep(walk, e) \/ IsHidden(walk, e) \/ Skipped(walk, e) THEN walk' = onward
     ELSE IF ~Wanted(walk, e) THEN walk' = entered(onward)
     ELSE IF walk.count >= walk.options.limit THEN Finish([walk EXCEPT !.cut = TRUE], FALSE)
     ELSE walk' = entered([onward EXCEPT !.found = @ \cup {e}, !.count = @ + 1])
  /\ UNCHANGED <<nodes, last, ctx, history>>

Ends ==
  /\ walk.pc = "look"
  /\ walk.pending = << >>
  /\ Finish(walk, FALSE)
  /\ UNCHANGED <<nodes, last, ctx, history>>

(* The caller takes the answer. *)
Return ==
  /\ walk.pc = "done"
  /\ walk' = Idle
  /\ ctx' = "live"
  /\ stable' = {}
  /\ seen' = {}
  /\ changes' = 0
  /\ UNCHANGED <<nodes, last>>

Cancel ==
  /\ ctx = "live"
  /\ walk.pc # "done"
  /\ ctx' = "cancelled"
  /\ UNCHANGED <<nodes, last, walk, history>>

WalkStep ==
  \/ List \/ Ends \/ Return
  \/ /\ walk.pc = "look"
     /\ walk.pending # << >>
     /\ \E e \in walk.pending[Len(walk.pending)] : Look(e)

(* Others use the filesystem, not after the last step of a walk. *)
FileStep ==
  /\ Next
  /\ IF walk = Idle THEN UNCHANGED history
     ELSE /\ walk.pc # "done" /\ changes < MaxChanges
          /\ stable' = stable \cap Entries'
          /\ seen' = seen \cup Entries'
          /\ changes' = changes + 1
  /\ UNCHANGED <<walk, ctx>>

WalkNext == FileStep \/ WalkStep \/ Cancel \/ \E r \in Requests : Start(r)

WalkSpec == WalkInit /\ [][WalkNext]_walkVars

-----------------------------------------------------------------------------
WalkTypeOK ==
  /\ ctx \in {"live", "cancelled"}
  /\ walk.pc \in {"idle", "list", "look", "done"}
  /\ walk.pc # "idle" =>
       /\ walk.pending \in Seq((SUBSET [path : Paths, dir : BOOLEAN]) \ {{}})
       /\ walk.found \subseteq [path : Paths, dir : BOOLEAN]
       /\ walk.matches \subseteq walk.found

(* What the options ask for, said of a whole path.                         *)
Selected(w, e) ==
  LET rel == Below0(w.root, e.path)
      dirs == IF e.dir THEN DOMAIN rel ELSE 1..(Len(rel) - 1) IN
  /\ IsPrefix(w.root, e.path) /\ rel # << >>
  /\ Len(rel) <= w.options.depth
  /\ w.options.hidden \/ \A i \in DOMAIN rel : rel[i] \notin Hidden
  /\ \A i \in dirs : rel[i] \notin w.options.skip
  /\ Wanted(w, e)

(* A walk finds nothing but what the options select and what was there at  *)
(* some time during the walk, each once, and no more than the limit.       *)
WalkIsSound ==
  walk.pc # "idle" =>
    /\ \A e \in walk.found : Selected(walk, e) /\ e \in seen
    /\ Cardinality(walk.found) = walk.count
    /\ walk.count <= walk.options.limit

(* A walk that is not cut short finds everything selected that was there   *)
(* all the time, whatever else is created, removed and renamed meanwhile;  *)
(* one that is cut short has reached its limit and left something out.     *)
WalkIsComplete ==
  (walk.pc = "done" /\ walk.request.kind = "walk" /\ ~walk.failed) =>
    IF walk.cut
      THEN /\ walk.count = walk.options.limit
           /\ \E e \in seen \ walk.found : Selected(walk, e)
      ELSE \A e \in stable : Selected(walk, e) => e \in walk.found

(* Walk answers what it should, however the tree changes under it. *)
WalkIsRight == WalkTypeOK /\ WalkIsSound /\ WalkIsComplete

(* A pattern matches a path if the path can be cut into one piece for each *)
(* of its elements: one name, or for ** any number of names.               *)
Fits(pattern, p) ==
  \E c \in [0..Len(pattern) -> 0..Len(p)] :
    /\ c[0] = 0 /\ c[Len(pattern)] = Len(p)
    /\ \A i \in DOMAIN pattern :
         IF pattern[i] = DoubleStar THEN c[i - 1] <= c[i]
         ELSE c[i] = c[i - 1] + 1 /\ ElementMatches(pattern[i], p[c[i]])

(* Glob answers the entries, from the base or from the top, that a pattern *)
(* fits, all of them unless it says that it left some out.                 *)
GlobIsRight ==
  (walk.pc = "done" /\ walk.request.kind = "glob" /\ ~walk.failed) =>
    LET fits(e) == \E pattern \in Compile(walk.request.pattern) :
                     Fits(pattern, Below0(walk.root, e.path)) \/ Fits(pattern, e.path) IN
    /\ \A e \in walk.matches : fits(e)
    /\ ~walk.cut => \A e \in stable : (Selected(walk, e) /\ fits(e)) => e \in walk.matches
    /\ Cardinality(walk.matches) <= ResultLimit(walk.request)

=============================================================================
