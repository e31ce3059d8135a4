------------------------------ MODULE FileReads --------------------------------
(***************************************************************************)
(* ReadFileLimit and ReadFileLines of fs_helpers.go over the same memory   *)
(* filesystem as the walks.  Opening a file takes a copy of it, so what    *)
(* others do afterwards is not read; the context is looked at again for    *)
(* every line.  A file's bytes are a sequence, one of them ends a line;    *)
(* bounds are ints that may overflow.                                      *)
(***************************************************************************)
EXTENDS TreeWalk, GoInt

CONSTANTS
  ReadRequests,  \* the calls that are made: see ReadSet
  NewLine        \* the byte that ends a line

ReadSet ==
  [kind : {"limit"}, name : Seq(STRING), max : Ints]
  \cup [kind : {"lines"}, name : Seq(STRING), start : Ints, end : Ints, max : Ints]

ASSUME ReadsAssumption == ReadRequests \subseteq ReadSet

(* A file holds a sequence of bytes, which have names as paths have, and   *)
(* fewer of them than an int counts.                                       *)
ASSUME BytesAssumption ==
  /\ Contents \subseteq Seq(STRING)
  /\ \A bytes \in Contents : Len(bytes) < MaxInt

VARIABLE reading  \* the call under way: pc, request, data, line, ..., ctx

readVars == <<walkVars, reading>>

NoRead == [pc |-> "idle"]

(* A directory of the memory filesystem reads as empty. *)
DataOf(p) == IF IsDir(p) THEN << >> ELSE nodes[p].data

(* The first line is 1, and a window does not end before it starts. *)
First(r) == IF r.start <= 0 THEN 1 ELSE r.start
Last(r) == IF r.end > 0 /\ r.end < First(r) THEN First(r) ELSE r.end

Over(state, failed) == reading' = [state EXCEPT !.pc = "done", !.failed = failed]

ReadInit == WalkInit /\ reading = NoRead

(* The name, the open. *)
OpenFile(r) ==
  /\ reading = NoRead
  /\ \E p \in CleanFSName(r.name) :
       /\ Exists(p)
       /\ reading' = [pc |-> r.kind, request |-> r, data |-> DataOf(p), rest |-> DataOf(p),
                   line |-> 1, out |-> << >>, truncated |-> FALSE, failed |-> FALSE,
                   ctx |-> "live"]
  /\ UNCHANGED walkVars

(* What io.LimitReader lets through. *)
Limited(bytes, n) ==
  IF n <= 0 THEN << >> ELSE IF n < Len(bytes) THEN SubSeq(bytes, 1, n) ELSE bytes

(* One byte more than wanted shows that there is more; the sum overflows   *)
(* for the greatest bound.                                                 *)
ReadAll ==
  /\ reading.pc = "limit"
  /\ LET max == reading.request.max
         data == IF max <= 0 THEN reading.data ELSE Limited(reading.data, Plus(max, 1))
         cut == max > 0 /\ Len(data) > max IN
     Over([reading EXCEPT !.out = IF cut THEN SubSeq(data, 1, max) ELSE data,
                       !.truncated = cut],
          max > 0 /\ reading.ctx = "cancelled")
  /\ UNCHANGED walkVars

(* ReadString: up to and with the end of the line, or all that is left.    *)
LineEnds(bytes) == {i \in DOMAIN bytes : bytes[i] = NewLine}
LineLength(bytes) ==
  IF LineEnds(bytes) = {} THEN Len(bytes)
  ELSE CHOOSE i \in LineEnds(bytes) : \A j \in LineEnds(bytes) : i <= j

InWindow(r, line) == line >= First(r) /\ (Last(r) <= 0 \/ line <= Last(r))
PastWindow(r, line) == Last(r) > 0 /\ line >= Last(r)

(* Faulty variant: a line that does not fit is left out altogether. *)
Fitting_Whole(r, out, line) ==
  IF r.max > 0 /\ Len(line) > r.max - Len(out) THEN << >> ELSE line

(* As much of the line as there is room for. *)
Fitting(r, out, line) ==
  IF r.max > 0 /\ Len(line) > r.max - Len(out)
    THEN SubSeq(line, 1, r.max - Len(out)) ELSE line

(* A bound that is used up ends the call before it is known whether        *)
(* anything is left.                                                       *)
ReadLine ==
  /\ reading.pc = "lines"
  /\ LET r == reading.request
         length == LineLength(reading.rest)
         line == SubSeq(reading.rest, 1, length)
         wanted == InWindow(r, reading.line)
         full == wanted /\ r.max > 0
                   /\ (Len(reading.out) >= r.max \/ Len(line) > r.max - Len(reading.out))
         next == [reading EXCEPT !.out = IF wanted THEN @ \o Fitting(r, @, line) ELSE @]
     IN IF reading.ctx = "cancelled" THEN Over([reading EXCEPT !.out = << >>], TRUE)
        ELSE IF full THEN Over([next EXCEPT !.truncated = TRUE], FALSE)
        ELSE IF LineEnds(reading.rest) = {} \/ PastWindow(r, reading.line) THEN Over(next, FALSE)
        ELSE reading' = [next EXCEPT !.line = @ + 1,
                                  !.rest = SubSeq(@, length + 1, Len(@))]
  /\ UNCHANGED walkVars

CancelRead ==
  /\ reading.pc \in {"limit", "lines"}
  /\ reading.ctx = "live"
  /\ reading' = [reading EXCEPT !.ctx = "cancelled"]
  /\ UNCHANGED walkVars

ReadReturns ==
  /\ reading.pc = "done"
  /\ reading' = NoRead
  /\ UNCHANGED walkVars

ReadStep == ReadAll \/ ReadLine \/ CancelRead \/ ReadReturns

(* What others do meanwhile makes no difference to a copy: it happens      *)
(* before or after a read.                                                 *)
ReadNext ==
  \/ reading = NoRead /\ WalkNext /\ UNCHANGED reading
  \/ walk = Idle /\ \E r \in ReadRequests : OpenFile(r)
  \/ ReadStep

ReadSpec == ReadInit /\ [][ReadNext]_readVars

-----------------------------------------------------------------------------
(* Line i of a file is what lies after i - 1 ends of lines; the window is  *)
(* what lies in the lines asked for.                                       *)
LineOf(bytes, i) == 1 + Cardinality({j \in LineEnds(bytes) : j < i})
Window(r, bytes) ==
  LET before == Cardinality({i \in DOMAIN bytes : LineOf(bytes, i) < First(r)})
      upTo == Cardinality({i \in DOMAIN bytes : r.end <= 0 \/ LineOf(bytes, i) <= Last(r)})
  IN SubSeq(bytes, before + 1, upTo)

(* What is read is the beginning of what was asked for, as much as the     *)
(* bound allows, and the answer says so if something is left out.  It may  *)
(* say so of a window of lines that fills the bound to the byte when that  *)
(* ends with the file's last line and the file would have been read on.    *)
(* ReadFileLimit with the greatest bound there is reads nothing at all and *)
(* does not say so.                                                        *)
ReadIsRight ==
  (reading.pc = "done" /\ ~reading.failed) =>
    LET r == reading.request
        asked == IF r.kind = "limit" THEN reading.data ELSE Window(r, reading.data)
        fits == r.max <= 0 \/ Len(asked) <= r.max IN
    IF r.kind = "limit" /\ r.max = MaxInt /\ MaxInt > 0
      THEN reading.out = << >> /\ ~reading.truncated
      ELSE /\ reading.out = IF fits THEN asked ELSE SubSeq(asked, 1, r.max)
           /\ ~fits => reading.truncated
           /\ (fits /\ reading.truncated) =>
                /\ r.kind = "lines" /\ Len(asked) = r.max
                /\ asked[Len(asked)] = NewLine
                /\ r.end <= 0 \/ Last(r) > Cardinality(LineEnds(reading.data))

=============================================================================
