----------------------- MODULE ProcessCapture_proofs ------------------------
(***************************************************************************)
(* Theorems about EventBus, for any number of emitters and subscriptions   *)
(* and channels of any size, and about ProcessCapture, which is a client   *)
(* of it: the helper uses the bus as EventBus says it may be used, and its *)
(* answer is exact, for every number of streams, every size of chunks,     *)
(* channel and bound, and any neighbours in the group.                     *)
(***************************************************************************)
EXTENDS ProcessCapture, FiniteSetTheorems, TLAPS

-----------------------------------------------------------------------------
(* The bus.                                                                *)

(* The goroutine of a subscription knows where the subscription is. *)
WatcherInv ==
  \A s \in Subs :
    /\ s \in subs <=> watcher[s] = "waiting"
    /\ s \in closed <=> watcher[s] = "ended"
    /\ watcher[s] = "absent" => got[s] = << >>
    /\ joined[s] <= Len(history)

BusInv == BusTypeOK /\ WatcherInv /\ StreamsInOrder

LEMMA BusTypes ==
  ASSUME BusTypeOK, [BusNext]_busVars
  PROVE  BusTypeOK'
<1> USE BusAssumption DEF BusTypeOK, emitters
<1>1. ASSUME NEW p \in Procs, RegisterProc(p) PROVE BusTypeOK'
  BY <1>1 DEF RegisterProc
<1>2. ASSUME NEW s \in Subs, Subscribe(s) PROVE BusTypeOK'
  BY <1>2 DEF Subscribe
<1>3. ASSUME NEW s \in Subs, CancelSubscription(s) PROVE BusTypeOK'
  BY <1>3 DEF CancelSubscription
<1>4. ASSUME NEW s \in Subs, WatcherStep(s) PROVE BusTypeOK'
  BY <1>4 DEF WatcherStep, RemoveSubscription, CloseChannel
<1>5. ASSUME NEW s \in Subs, Receive(s) PROVE BusTypeOK'
  <2>1. /\ Tail(channel[s]) \in Seq(Events)
        /\ Len(Tail(channel[s])) <= Capacity
    BY <1>5 DEF Receive
  <2> QED BY <1>5, <2>1 DEF Receive
<1>6. ASSUME NEW e \in Emitters, LookUp(e) PROVE BusTypeOK'
  BY <1>6 DEF LookUp
<1>7. ASSUME NEW e \in Emitters, Broadcast(e) PROVE BusTypeOK'
  <2>1. <<e, sent[e]>> \in Events
    BY DEF Events
  <2>2. history' \in Seq(Events)
    BY <1>7, <2>1 DEF Broadcast
  <2>3. \A s \in Subs : /\ Append(channel[s], <<e, sent[e]>>) \in Seq(Events)
                        /\ Len(Append(channel[s], <<e, sent[e]>>)) = Len(channel[s]) + 1
                        /\ Append(got[s], Len(history) + 1) \in Seq(Nat)
    BY <2>1
  <2>4. channel' \in [Subs -> Seq(Events)] /\ got' \in [Subs -> Seq(Nat)]
    BY <1>7, <2>3 DEF Broadcast
  <2>5. \A s \in Subs : Len(channel'[s]) <= Capacity
    BY <1>7, <2>3 DEF Broadcast, HasRoom
  <2> QED BY <1>7, <2>2, <2>4, <2>5 DEF Broadcast
<1>8. CASE UNCHANGED busVars
  BY <1>8 DEF busVars
<1> QED BY <1>1, <1>2, <1>3, <1>4, <1>5, <1>6, <1>7, <1>8 DEF BusNext, EmitterStep

(* Whether a subscription is registered and whether its channel is closed  *)
(* depends on its goroutine alone, so the two never meet.                  *)
LEMMA WatcherStays ==
  ASSUME BusTypeOK, WatcherInv, [BusNext]_busVars
  PROVE  WatcherInv'
<1> USE DEF BusTypeOK, WatcherInv, emitters
<1>1. ASSUME NEW p \in Procs, RegisterProc(p) PROVE WatcherInv'
  BY <1>1 DEF RegisterProc
<1>2. ASSUME NEW s \in Subs, Subscribe(s) PROVE WatcherInv'
  BY <1>2 DEF Subscribe
<1>3. ASSUME NEW s \in Subs, CancelSubscription(s) PROVE WatcherInv'
  BY <1>3 DEF CancelSubscription
<1>4. ASSUME NEW s \in Subs, WatcherStep(s) PROVE WatcherInv'
  BY <1>4 DEF WatcherStep, RemoveSubscription, CloseChannel
<1>5. ASSUME NEW s \in Subs, Receive(s) PROVE WatcherInv'
  BY <1>5 DEF Receive
<1>6. ASSUME NEW e \in Emitters, LookUp(e) PROVE WatcherInv'
  BY <1>6 DEF LookUp
<1>7. ASSUME NEW e \in Emitters, Broadcast(e) PROVE WatcherInv'
  <2>1. Len(history') = Len(history) + 1
    BY <1>7 DEF Broadcast
  <2>2. \A s \in Subs : watcher[s] = "absent" => got'[s] = got[s]
    BY <1>7 DEF Broadcast
  <2> QED BY <1>7, <2>1, <2>2 DEF Broadcast
<1>8. CASE UNCHANGED busVars
  BY <1>8 DEF busVars
<1> QED BY <1>1, <1>2, <1>3, <1>4, <1>5, <1>6, <1>7, <1>8 DEF BusNext, EmitterStep

(* What one subscription has got: StreamsInOrder, one subscription at a    *)
(* time.                                                                   *)
StreamOf(s) ==
  /\ \A i \in 1..Len(got[s]) : got[s][i] \in Wanted(s)
  /\ \A i, j \in 1..Len(got[s]) : i < j => got[s][i] < got[s][j]
  /\ Len(channel[s]) <= Len(got[s])
  /\ \A i \in 1..Len(channel[s]) :
       channel[s][i] = history[got[s][Len(got[s]) - Len(channel[s]) + i]]

(* Nothing a stream speaks of changes. *)
LEMMA StreamUntouched ==
  ASSUME NEW s \in Subs, StreamOf(s), got'[s] = got[s], channel'[s] = channel[s],
         joined'[s] = joined[s], selector' = selector, history' = history
  PROVE  StreamOf(s)'
BY DEF StreamOf, Wanted, Matches

(* The channel holds the last c of the g events a stream has got.          *)
LEMMA TailPositions ==
  \A g, c \in Nat : c <= g => \A i \in 1..c : g - c + i \in 1..g
OBVIOUS

LEMMA TailShifts ==
  \A g, c, i \in Nat : g - (c - 1) + i = g - c + (i + 1)
OBVIOUS

LEMMA StreamReceives ==
  ASSUME BusTypeOK, NEW s \in Subs, StreamOf(s), Receive(s)
  PROVE  StreamOf(s)'
<1>1. /\ channel[s] \in Seq(Events) /\ channel[s] # << >>
      /\ channel'[s] = Tail(channel[s])
      /\ got' = got /\ history' = history /\ got[s] \in Seq(Nat)
    BY DEF BusTypeOK, Receive
<1>2. /\ Len(channel'[s]) = Len(channel[s]) - 1
      /\ \A i \in 1..Len(channel'[s]) : channel'[s][i] = channel[s][i + 1]
  BY <1>1
<1>3. \A i \in 1..Len(got[s]) : got'[s][i] \in Wanted(s)'
  BY <1>1 DEF StreamOf, Wanted, Matches, Receive
<1>4. \A i \in 1..Len(channel'[s]) :
        channel'[s][i] = history'[got'[s][Len(got'[s]) - Len(channel'[s]) + i]]
  <2> SUFFICES ASSUME NEW i \in 1..Len(channel'[s])
               PROVE  channel'[s][i] = history[got[s][Len(got[s]) - Len(channel'[s]) + i]]
    BY <1>1
  <2>1. Len(got[s]) \in Nat /\ Len(channel[s]) \in Nat
    BY <1>1
  <2>2. i + 1 \in 1..Len(channel[s])
    BY <1>2, <2>1
  <2>3. Len(got[s]) - Len(channel'[s]) + i = Len(got[s]) - Len(channel[s]) + (i + 1)
    <3> DEFINE g == Len(got[s])
               c == Len(channel[s])
               d == Len(channel'[s])
    <3>1. g \in Nat /\ c \in Nat /\ i \in Nat /\ d = c - 1
      BY <1>2, <2>1
    <3> HIDE DEF g, c, d
    <3>2. g - d + i = g - c + (i + 1)
      BY <3>1, TailShifts
    <3> QED BY <3>2 DEF g, c, d
  <2>4. channel[s][i + 1] = history[got[s][Len(got[s]) - Len(channel[s]) + (i + 1)]]
    BY <2>2 DEF StreamOf
  <2> QED BY <1>2, <2>3, <2>4
<1>5. /\ Len(channel'[s]) <= Len(got'[s])
      /\ \A i, j \in 1..Len(got'[s]) : i < j => got'[s][i] < got'[s][j]
  BY <1>1, <1>2 DEF StreamOf
<1> QED BY <1>1, <1>3, <1>4, <1>5 DEF StreamOf

(* An event is the newest of history, so it comes after all that a stream  *)
(* has got.                                                                *)
LEMMA StreamGrows ==
  ASSUME BusTypeOK, WatcherInv, NEW s \in Subs, StreamOf(s), NEW e \in Emitters, Broadcast(e)
  PROVE  StreamOf(s)'
<1> DEFINE n == Len(history) + 1
           event == <<e, sent[e]>>
           g == Len(got[s])
           c == Len(channel[s])
<1>1. /\ history \in Seq(Events) /\ event \in Events /\ Len(history) \in Nat
      /\ got[s] \in Seq(Nat) /\ channel[s] \in Seq(Events)
      /\ joined[s] \in Nat /\ joined[s] <= Len(history)
  BY DEF BusTypeOK, WatcherInv, Events
<1>2. /\ history' \in Seq(Events)
      /\ Len(history') = n
      /\ history'[n] = event
      /\ \A i \in 1..Len(history) : history'[i] = history[i]
  BY <1>1 DEF Broadcast
<1>3. Wanted(s) \subseteq Wanted(s)' /\ Wanted(s) \subseteq 1..Len(history)
  BY <1>1, <1>2 DEF Wanted, Matches, Broadcast
<1>4. \A i \in 1..g : /\ got[s][i] \in Wanted(s)'
                      /\ got[s][i] \in 1..Len(history)
                      /\ history'[got[s][i]] = history[got[s][i]]
  BY <1>2, <1>3 DEF StreamOf
<1>5. g \in Nat /\ c \in Nat /\ c <= g
  BY <1>1 DEF StreamOf
<1>6. \A i \in 1..c : g - c + i \in 1..g
  <2> HIDE DEF g, c
  <2> QED BY <1>5, TailPositions
<1>7. \A i \in 1..c : channel[s][i] = history'[got[s][g - c + i]]
  BY <1>4, <1>6 DEF StreamOf
<1>8. CASE got'[s] = got[s] /\ channel'[s] = channel[s]
  BY <1>4, <1>5, <1>7, <1>8 DEF StreamOf
<1>9. CASE /\ s \in subs /\ Matches(s, e)
           /\ got'[s] = Append(got[s], n) /\ channel'[s] = Append(channel[s], event)
  <2>1. /\ Len(got'[s]) = g + 1 /\ Len(channel'[s]) = c + 1
        /\ got'[s][g + 1] = n /\ channel'[s][c + 1] = event
        /\ \A i \in 1..g : got'[s][i] = got[s][i]
        /\ \A i \in 1..c : channel'[s][i] = channel[s][i]
    BY <1>1, <1>9
  <2> HIDE DEF g, c, n, event
  <2>2. n \in Wanted(s)'
    BY <1>1, <1>2, <1>9 DEF Wanted, Matches, Broadcast, n, event
  <2>3. \A i \in 1..(g + 1) : i \in 1..g \/ i = g + 1
    BY <1>5
  <2>4. \A i \in 1..(c + 1) : i \in 1..c \/ i = c + 1
    BY <1>5
  <2>5. \A i \in 1..Len(got'[s]) : got'[s][i] \in Wanted(s)'
    BY <1>4, <2>1, <2>2, <2>3
  <2>6. \A i, j \in 1..g : i < j => got[s][i] < got[s][j]
    BY DEF StreamOf, g
  <2>7. \A i \in 1..g : got[s][i] < n
    BY <1>1, <1>4 DEF n
  <2>8. ASSUME NEW i \in 1..Len(got'[s]), NEW j \in 1..Len(got'[s]), i < j
        PROVE  got'[s][i] < got'[s][j]
    <3>1. i \in 1..g
      BY <1>5, <2>1, <2>8
    <3> QED BY <2>1, <2>3, <2>6, <2>7, <2>8, <3>1
  <2>9. ASSUME NEW i \in 1..Len(channel'[s])
        PROVE  channel'[s][i] = history'[got'[s][Len(got'[s]) - Len(channel'[s]) + i]]
    <3>1. Len(got'[s]) - Len(channel'[s]) + i = g - c + i
      BY <1>5, <2>1
    <3>2. CASE i \in 1..c
      BY <1>6, <1>7, <2>1, <3>1, <3>2
    <3>3. CASE i = c + 1
      <4>1. g - c + i = g + 1
        BY <1>5, <3>3
      <4> QED BY <1>2, <2>1, <3>1, <3>3, <4>1
    <3> QED BY <2>1, <2>4, <3>2, <3>3
  <2>10. Len(channel'[s]) <= Len(got'[s])
    BY <1>5, <2>1
  <2> QED BY <2>5, <2>8, <2>9, <2>10 DEF StreamOf
<1>10. s \notin subs \/ ~Matches(s, e) \/ ~HasRoom(s) => got'[s] = got[s] /\ channel'[s] = channel[s]
  BY DEF Broadcast
<1>11. s \in subs /\ Matches(s, e) /\ HasRoom(s) =>
         got'[s] = Append(got[s], n) /\ channel'[s] = Append(channel[s], event)
  BY DEF Broadcast
<1> QED BY <1>8, <1>9, <1>10, <1>11

LEMMA StreamsStay ==
  ASSUME BusTypeOK, WatcherInv, StreamsInOrder, [BusNext]_busVars
  PROVE  StreamsInOrder'
<1> SUFFICES ASSUME NEW t \in Subs PROVE StreamOf(t)'
  BY DEF StreamsInOrder, StreamOf
<1>1. StreamOf(t)
  BY DEF StreamsInOrder, StreamOf
<1>2. ASSUME NEW p \in Procs, RegisterProc(p) PROVE StreamOf(t)'
  BY <1>1, <1>2, StreamUntouched DEF RegisterProc
<1>3. ASSUME NEW s \in Subs, Subscribe(s) PROVE StreamOf(t)'
  <2>1. CASE t # s
    BY <1>1, <1>3, <2>1, StreamUntouched DEF Subscribe, BusTypeOK
  <2>2. CASE t = s
    <3>1. got'[t] = << >> /\ channel'[t] = channel[t] /\ Len(channel[t]) = 0
      BY <1>1, <1>3, <2>2 DEF Subscribe, WatcherInv, BusTypeOK, StreamOf
    <3> QED BY <3>1 DEF StreamOf
  <2> QED BY <2>1, <2>2
<1>4. ASSUME NEW s \in Subs, CancelSubscription(s) PROVE StreamOf(t)'
  BY <1>1, <1>4, StreamUntouched DEF CancelSubscription
<1>5. ASSUME NEW s \in Subs, WatcherStep(s) PROVE StreamOf(t)'
  BY <1>1, <1>5, StreamUntouched DEF WatcherStep, RemoveSubscription, CloseChannel
<1>6. ASSUME NEW s \in Subs, Receive(s) PROVE StreamOf(t)'
  <2>1. CASE t = s
    BY <1>1, <1>6, <2>1, StreamReceives
  <2>2. CASE t # s
    BY <1>1, <1>6, <2>2, StreamUntouched DEF Receive, BusTypeOK
  <2> QED BY <2>1, <2>2
<1>7. ASSUME NEW e \in Emitters, LookUp(e) PROVE StreamOf(t)'
  BY <1>1, <1>7, StreamUntouched DEF LookUp
<1>8. ASSUME NEW e \in Emitters, Broadcast(e) PROVE StreamOf(t)'
  BY <1>1, <1>8, StreamGrows
<1>9. CASE UNCHANGED busVars
  BY <1>1, <1>9, StreamUntouched DEF busVars
<1> QED
  BY <1>2, <1>3, <1>4, <1>5, <1>6, <1>7, <1>8, <1>9 DEF BusNext, EmitterStep

LEMMA BusInvAlways == BusSpec => []BusInv
<1>1. BusInit => BusInv
  BY BusAssumption
     DEF BusInit, BusInv, BusTypeOK, WatcherInv, StreamsInOrder
<1>2. BusInv /\ [BusNext]_busVars => BusInv'
  BY BusTypes, WatcherStays, StreamsStay DEF BusInv
<1> QED BY <1>1, <1>2, PTL DEF BusSpec

-----------------------------------------------------------------------------
(* Every variable of the bus keeps its type; channels keep their bound.    *)
THEOREM BusTypeCorrect == BusSpec => []BusTypeOK
<1>1. BusInv => BusTypeOK
  BY DEF BusInv
<1> QED BY <1>1, BusInvAlways, PTL

(* No broadcast reaches a closed channel, however the goroutines of        *)
(* subscriptions and emitters interleave.                                  *)
THEOREM SendsAreSafe == BusSpec => []NoSendOnClosed
<1>1. BusInv => NoSendOnClosed
  BY DEF BusInv, BusTypeOK, WatcherInv, NoSendOnClosed
<1> QED BY <1>1, BusInvAlways, PTL

(* Every subscriber sees the events it selected in the one order of the    *)
(* broadcasts, none twice and none from before it subscribed.              *)
THEOREM OneOrderForAll == BusSpec => []StreamsInOrder
<1>1. BusInv => StreamsInOrder
  BY DEF BusInv
<1> QED BY <1>1, BusInvAlways, PTL

-----------------------------------------------------------------------------
(* What a subscriber wants are finitely many positions; that of an event   *)
(* it selects is a new one.                                                *)
LEMMA WantedIsFinite ==
  ASSUME BusTypeOK, NEW s \in Subs
  PROVE  IsFiniteSet(Wanted(s)) /\ Cardinality(Wanted(s)) \in Nat
<1>1. joined[s] + 1 \in Int /\ Len(history) \in Int
  BY DEF BusTypeOK
<1>2. IsFiniteSet((joined[s] + 1)..Len(history))
  BY <1>1, FS_Interval
<1>3. Wanted(s) \subseteq (joined[s] + 1)..Len(history)
  BY DEF Wanted
<1>4. IsFiniteSet(Wanted(s))
  BY <1>2, <1>3, FS_Subset
<1> QED BY <1>4, FS_CardinalityType

LEMMA WantedGrows ==
  ASSUME BusTypeOK, WatcherInv, NEW s \in Subs, NEW e \in Emitters, Broadcast(e)
  PROVE  Wanted(s)' = IF Matches(s, e) THEN Wanted(s) \cup {Len(history) + 1} ELSE Wanted(s)
<1> DEFINE n == Len(history) + 1
<1>1. /\ history' \in Seq(Events) /\ Len(history') = n /\ history'[n] = <<e, sent[e]>>
      /\ \A i \in 1..Len(history) : history'[i] = history[i]
  BY DEF Broadcast, BusTypeOK, Events
<1>2. /\ joined'[s] = joined[s] /\ joined[s] \in Nat /\ Len(history) \in Nat
      /\ joined[s] <= Len(history)
  BY DEF Broadcast, BusTypeOK, WatcherInv
<1>3. history'[n][1] = e
  BY <1>1
<1> HIDE DEF n
<1>4. \A i : i \in (joined[s] + 1)..n <=> i \in (joined[s] + 1)..Len(history) \/ i = n
  BY <1>2 DEF n
<1>5. \A i \in (joined[s] + 1)..Len(history) : i \in 1..Len(history)
  BY <1>2
<1>6. \A i \in 1..Len(history) : history[i][1] \in Emitters
  BY DEF BusTypeOK, Events
<1>7. \A i : i \in Wanted(s)' <=>
        /\ i \in (joined[s] + 1)..n
        /\ Matches(s, history[i][1])'
  BY <1>1, <1>2 DEF Wanted
<1>8. \A i \in 1..Len(history) : Matches(s, history[i][1])' <=> Matches(s, history[i][1])
  BY <1>1, <1>6 DEF Matches, Broadcast
<1>9. ASSUME NEW i, i = n PROVE Matches(s, history[i][1])' <=> Matches(s, e)
  BY <1>3, <1>9 DEF Matches, Broadcast
<1>10. \A i : i \in Wanted(s)' <=> i \in Wanted(s) \/ (i = n /\ Matches(s, e))
  BY <1>4, <1>5, <1>7, <1>8, <1>9 DEF Wanted
<1> QED BY <1>10 DEF n

(* Whoever has got all it wanted, and wanted fewer events than fit, has    *)
(* room for the next.                                                      *)
Complete(s) == Cardinality(Wanted(s)) <= Capacity => Len(got[s]) = Cardinality(Wanted(s))

LEMMA CompleteGrows ==
  ASSUME BusTypeOK, WatcherInv, StreamsInOrder, NEW s \in Subs, s \in subs, Complete(s),
         NEW e \in Emitters, Broadcast(e)
  PROVE  Complete(s)'
<1> DEFINE n == Len(history) + 1
<1>1. /\ Cardinality(Wanted(s)) \in Nat /\ IsFiniteSet(Wanted(s))
      /\ Capacity \in Nat /\ Len(channel[s]) \in Nat /\ got[s] \in Seq(Nat)
  BY WantedIsFinite, BusAssumption DEF BusTypeOK
<1>2. CASE ~Matches(s, e)
  <2>1. Wanted(s)' = Wanted(s)
    BY <1>2, WantedGrows
  <2>2. got'[s] = got[s]
    BY <1>2 DEF Broadcast
  <2> QED BY <2>1, <2>2 DEF Complete
<1>3. CASE Matches(s, e)
  <2>1. Wanted(s)' = Wanted(s) \cup {n}
    BY <1>3, WantedGrows
  <2>2. n \notin Wanted(s)
    <3>1. Len(history) \in Nat /\ joined[s] \in Nat
      BY DEF BusTypeOK
    <3> QED BY <3>1 DEF Wanted
  <2> HIDE DEF n
  <2>3. Cardinality(Wanted(s)') = Cardinality(Wanted(s)) + 1
    BY <1>1, <2>1, <2>2, FS_AddElement
  <2> SUFFICES ASSUME Cardinality(Wanted(s)') <= Capacity
               PROVE  Len(got'[s]) = Cardinality(Wanted(s)')
    BY DEF Complete
  <2>4. Len(got[s]) = Cardinality(Wanted(s)) /\ Cardinality(Wanted(s)) < Capacity
    BY <1>1, <2>3 DEF Complete
  <2>5. HasRoom(s)
    <3>1. Len(channel[s]) <= Len(got[s])
      BY DEF StreamsInOrder
    <3> QED BY <1>1, <2>4, <3>1 DEF HasRoom
  <2>6. got'[s] = Append(got[s], Len(history) + 1)
    BY <1>3, <2>5 DEF Broadcast
  <2>7. Len(got'[s]) = Len(got[s]) + 1
    BY <1>1, <2>6
  <2> QED BY <2>3, <2>4, <2>7
<1> QED BY <1>2, <1>3

LEMMA CompleteStays ==
  ASSUME BusInv, FewEventsAreComplete, [BusNext]_busVars
  PROVE  FewEventsAreComplete'
<1>1. BusTypeOK /\ WatcherInv /\ StreamsInOrder /\ subs \subseteq Subs
  BY DEF BusInv, BusTypeOK
<1>2. CASE /\ subs' \subseteq subs
           /\ UNCHANGED <<got, joined, selector, history>>
  <2>1. \A s : Wanted(s)' = Wanted(s)
    BY <1>2 DEF Wanted, Matches
  <2> QED BY <1>2, <2>1 DEF FewEventsAreComplete
<1>3. ASSUME NEW s \in Subs, Subscribe(s) PROVE FewEventsAreComplete'
  <2>1. \A t \in subs : t # s /\ joined'[t] = joined[t] /\ got'[t] = got[t]
    BY <1>1, <1>3 DEF Subscribe, BusTypeOK, WatcherInv
  <2>2. \A t \in subs : Wanted(t)' = Wanted(t)
    BY <1>3, <2>1 DEF Wanted, Matches, Subscribe
  <2>3. Len(history) \in Nat /\ joined'[s] = Len(history) /\ history' = history
    BY <1>1, <1>3 DEF Subscribe, BusTypeOK
  <2>4. Wanted(s)' = {}
    BY <2>3 DEF Wanted
  <2>5. Len(got'[s]) = 0 /\ Cardinality(Wanted(s)') = 0
    BY <1>1, <1>3, <2>4, FS_EmptySet DEF Subscribe, WatcherInv
  <2>6. subs' = subs \cup {s}
    BY <1>3 DEF Subscribe
  <2> QED BY <2>1, <2>2, <2>5, <2>6 DEF FewEventsAreComplete
<1>4. ASSUME NEW e \in Emitters, Broadcast(e) PROVE FewEventsAreComplete'
  <2>1. \A s \in subs : Complete(s)
    BY DEF FewEventsAreComplete, Complete
  <2>2. \A s \in subs : Complete(s)'
    BY <1>1, <1>4, <2>1, CompleteGrows
  <2>3. subs' = subs
    BY <1>4 DEF Broadcast
  <2> QED BY <2>2, <2>3 DEF FewEventsAreComplete, Complete
<1>5. ASSUME \/ \E p \in Procs : RegisterProc(p)
             \/ \E s \in Subs : CancelSubscription(s) \/ WatcherStep(s) \/ Receive(s)
             \/ \E e \in Emitters : LookUp(e)
             \/ UNCHANGED busVars
      PROVE  /\ subs' \subseteq subs
             /\ UNCHANGED <<got, joined, selector, history>>
  BY <1>5 DEF RegisterProc, CancelSubscription, WatcherStep, RemoveSubscription, CloseChannel, Receive,
     LookUp, busVars
<1> QED
  BY <1>2, <1>3, <1>4, <1>5 DEF BusNext, EmitterStep

(* A subscriber that selects no more events than its channel holds gets    *)
(* every one of them, however late it receives.                            *)
THEOREM SlowSubscribersLoseNothing == BusSpec => []FewEventsAreComplete
<1>1. BusInit => FewEventsAreComplete
  BY DEF BusInit, FewEventsAreComplete
<1>2. BusInv /\ FewEventsAreComplete /\ [BusNext]_busVars => FewEventsAreComplete'
  BY CompleteStays
<1> QED BY <1>1, <1>2, BusInvAlways, PTL DEF BusSpec

-----------------------------------------------------------------------------
(* The capture.                                                            *)

(* The events of one emitter, as positions in history; those that entered  *)
(* the helper's channel, and those the collector has taken out of it.      *)
Positions(e) == {i \in 1..Len(history) : history[i][1] = e}
Entered == {got[mine][i] : i \in 1..Len(got[mine])}
Collected == {got[mine][i] : i \in 1..(Len(got[mine]) - Len(channel[mine]))}

(* What the collector makes of n chunks of a stream. *)
Kept(n) == [bytes |-> AtMost(n * ChunkSize, MaxBytes), truncated |-> n * ChunkSize > MaxBytes]

(* An emitter has broadcast what it has sent, but for the event in hand. *)
SentInv ==
  \A e \in Emitters :
    sent[e] = Cardinality(Positions(e)) + IF emitPc[e] = "found" THEN 1 ELSE 0

CollectInv ==
  \A e \in Copiers : capture[e] = Kept(Cardinality(Positions(e) \cap Collected))

(* The order of the helper's steps and the life of the process. *)
RunInv ==
  /\ runPc = "subscribe" <=> watcher[mine] = "absent"
  /\ runPc \in {"subscribe", "start", "refused"} => phase = "none"
  /\ runPc \in {"close input", "wait", "cancel", "drain", "returned"} =>
       phase \in {"running", "exiting", "done"}
  /\ runPc = "announce" => phase = "starting"
  /\ runPc \in {"cancel", "drain", "returned"} <=> waitErr # "none"
  /\ waitErr \in {"nil", "failed"} => phase = "done"
  /\ phase \in {"none", "starting"} => \A e \in Copiers : sent[e] = 0
  /\ phase \in {"exiting", "done"} => \A e \in Copiers : emitPc[e] = "idle"

(* The subscription lasts as long as the run, the collector until it is    *)
(* closed and drained.                                                     *)
SubscriptionInv ==
  /\ selector[mine] = [ids |-> {}, groups |-> {GroupOf[proc]}]
  /\ ctx[mine] = "cancelled" =>
       runCtx = "cancelled" \/ runPc \in {"drain", "returned", "refused"}
  /\ ctx[mine] = "live" => watcher[mine] \in {"absent", "waiting"}
  /\ collectPc = "finished" => mine \in closed /\ channel[mine] = << >>
  /\ runPc = "returned" => collectPc = "finished"
  /\ watcher[mine] # "absent" =>
       \A e \in Copiers : \A i \in Positions(e) : joined[mine] < i

(* A run that is not cancelled misses nothing while the channel suffices.  *)
EnteredInv ==
  (runCtx = "live" /\ waitErr # "cancelled" /\ Cardinality(Wanted(mine)) <= Capacity) =>
    \A e \in Copiers : Positions(e) \subseteq Entered

BusPart == BusInv /\ FewEventsAreComplete
Inv == TypeOK /\ BusPart /\ SentInv /\ RunInv /\ SubscriptionInv /\ CollectInv /\ EnteredInv

-----------------------------------------------------------------------------
(* The helper, its process and its neighbours act on the bus only through  *)
(* the steps EventBus has.                                                 *)
LEMMA EndingIsCancelling ==
  ASSUME BusTypeOK, ctx' = [ctx EXCEPT ![mine] = "cancelled"],
         UNCHANGED <<procs, subs, selector, channel, closed, watcher, emitters, history, joined, got>>
  PROVE  [BusNext]_busVars
<1>0. mine \in Subs /\ ctx \in [Subs -> {"live", "cancelled"}]
  BY CaptureAssumption DEF BusTypeOK
<1>1. CASE ctx[mine] = "live"
  <2>1. CancelSubscription(mine)
    BY <1>1 DEF CancelSubscription
  <2> QED BY <1>0, <2>1 DEF BusNext
<1>2. CASE ctx[mine] = "cancelled"
  <2>1. ctx' = ctx
    BY <1>0, <1>2
  <2> QED BY <2>1 DEF busVars, emitters
<1> QED BY <1>0, <1>1, <1>2

LEMMA StepsOfTheBus ==
  ASSUME BusTypeOK, [Next]_vars
  PROVE  [BusNext]_busVars
<1>0. /\ proc \in Procs /\ mine \in Subs /\ life \in Emitters /\ runner \in Emitters
      /\ Copiers \subseteq Emitters
  BY CaptureAssumption
<1>1. CASE CancelRun \/ StartRefused \/ RunCancelsEvents
  BY <1>1, EndingIsCancelling DEF CancelRun, StartRefused, RunCancelsEvents, EndSubscription
<1>2. CASE RunSubscribes \/ StartRegisters
  BY <1>0, <1>2 DEF RunSubscribes, StartRegisters, BusNext
<1>3. CASE StartAnnounces \/ RunClosesInput \/ ReportExit \/ \E e \in Copiers : CopierEmits(e)
  BY <1>0, <1>3 DEF StartAnnounces, RunClosesInput, ReportExit, CopierEmits, BusNext
<1>4. CASE RunFailsToCloseInput \/ RunWaited \/ RunReturns \/ CollectEnds \/ ProcessEnds
           \/ UNCHANGED vars
  BY <1>4 DEF RunFailsToCloseInput, RunWaited, RunReturns, CollectEnds, ProcessEnds, vars
<1>5. CASE Collect \/ SubscriptionCloses \/ Others
  BY <1>0, <1>5 DEF Collect, SubscriptionCloses, Others, BusNext
<1> QED BY <1>1, <1>2, <1>3, <1>4, <1>5 DEF Next, RunStep, CollectStep

LEMMA BusPartStays ==
  ASSUME BusPart, [BusNext]_busVars
  PROVE  BusPart'
BY BusTypes, WatcherStays, StreamsStay, CompleteStays DEF BusPart, BusInv

(* Of all steps, three kinds matter to the text that is captured.          *)
LEMMA KindsOfSteps ==
  ASSUME [Next]_vars
  PROVE  \/ Collect
         \/ capture' = capture /\ \E e \in Emitters : Broadcast(e)
         \/ capture' = capture /\ UNCHANGED <<history, got, channel>>
<1>0. life \in Emitters /\ runner \in Emitters /\ Copiers \subseteq Emitters
  BY CaptureAssumption
<1>1. CASE Collect
  BY <1>1
<1>2. CASE StartAnnounces \/ RunClosesInput \/ ReportExit \/ \E e \in Copiers : CopierEmits(e)
  BY <1>0, <1>2 DEF StartAnnounces, RunClosesInput, ReportExit, CopierEmits, EmitterStep, LookUp,
     captureVars
<1>3. CASE Others
  BY <1>3 DEF Others, EmitterStep, LookUp, RegisterProc, captureVars
<1>4. CASE \/ CancelRun \/ RunSubscribes \/ StartRefused \/ StartRegisters
           \/ RunFailsToCloseInput \/ RunWaited \/ RunCancelsEvents \/ RunReturns
           \/ CollectEnds \/ ProcessEnds \/ SubscriptionCloses \/ UNCHANGED vars
  BY <1>4 DEF CancelRun, RunSubscribes, StartRefused, StartRegisters, RunFailsToCloseInput, RunWaited,
     RunCancelsEvents, RunReturns, CollectEnds, ProcessEnds, SubscriptionCloses, EndSubscription,
     Subscribe, RegisterProc, WatcherStep, RemoveSubscription, CloseChannel, captureVars, vars, busVars
<1> QED BY <1>1, <1>2, <1>3, <1>4 DEF Next, RunStep, CollectStep

-----------------------------------------------------------------------------
(* Counting events.                                                        *)

LEMMA PositionsAreFinite ==
  ASSUME BusTypeOK, NEW e \in Emitters
  PROVE  IsFiniteSet(Positions(e)) /\ Cardinality(Positions(e)) \in Nat
<1>1. Len(history) \in Nat
  BY DEF BusTypeOK
<1>2. IsFiniteSet(1..Len(history)) /\ Positions(e) \subseteq 1..Len(history)
  BY <1>1, FS_Interval DEF Positions
<1>3. IsFiniteSet(Positions(e))
  BY <1>2, FS_Subset
<1> QED BY <1>3, FS_CardinalityType

LEMMA PositionsGrow ==
  ASSUME BusTypeOK, NEW e \in Emitters, Broadcast(e)
  PROVE  \A f \in Emitters :
           Positions(f)' = IF f = e THEN Positions(f) \cup {Len(history) + 1} ELSE Positions(f)
<1> DEFINE n == Len(history) + 1
<1>1. /\ history' \in Seq(Events) /\ Len(history') = n /\ history'[n] = <<e, sent[e]>>
      /\ \A i \in 1..Len(history) : history'[i] = history[i]
      /\ Len(history) \in Nat
  BY DEF Broadcast, BusTypeOK, Events
<1>2. history'[n][1] = e
  BY <1>1
<1> HIDE DEF n
<1>3. \A i : i \in 1..n <=> i \in 1..Len(history) \/ i = n
  BY <1>1 DEF n
<1>4. ASSUME NEW f \in Emitters, NEW i
      PROVE  i \in Positions(f)' <=> i \in Positions(f) \/ (i = n /\ f = e)
  BY <1>1, <1>2, <1>3 DEF Positions
<1> QED BY <1>4 DEF n

LEMMA SentStays ==
  ASSUME BusInv, SentInv, [BusNext]_busVars
  PROVE  SentInv'
<1>0. BusTypeOK
  BY DEF BusInv
<1>1. CASE UNCHANGED <<history, emitPc, sent>>
  BY <1>1 DEF SentInv, Positions
<1>2. ASSUME NEW e \in Emitters, LookUp(e) PROVE SentInv'
  <2>1. \A f \in Emitters : Positions(f)' = Positions(f)
    BY <1>2 DEF LookUp, Positions
  <2>2. \A f \in Emitters : Cardinality(Positions(f)) \in Nat
    BY <1>0, PositionsAreFinite
  <2>3. /\ emitPc[e] = "idle" /\ emitPc'[e] = "found" /\ sent'[e] = sent[e] + 1
        /\ \A f \in Emitters \ {e} : emitPc'[f] = emitPc[f] /\ sent'[f] = sent[f]
    BY <1>0, <1>2 DEF LookUp, BusTypeOK
  <2> QED BY <2>1, <2>2, <2>3 DEF SentInv
<1>3. ASSUME NEW e \in Emitters, Broadcast(e) PROVE SentInv'
  <2>1. \A f \in Emitters : f # e => Positions(f)' = Positions(f)
    BY <1>0, <1>3, PositionsGrow
  <2>2. Positions(e)' = Positions(e) \cup {Len(history) + 1}
    BY <1>0, <1>3, PositionsGrow
  <2>3. Len(history) + 1 \notin Positions(e)
    BY <1>0 DEF BusTypeOK, Positions
  <2>4. Cardinality(Positions(e)') = Cardinality(Positions(e)) + 1
    BY <1>0, <2>2, <2>3, PositionsAreFinite, FS_AddElement
  <2>5. /\ emitPc[e] = "found" /\ emitPc'[e] = "idle" /\ sent' = sent
        /\ \A f \in Emitters \ {e} : emitPc'[f] = emitPc[f]
    BY <1>0, <1>3 DEF Broadcast, BusTypeOK
  <2>6. \A f \in Emitters : Cardinality(Positions(f)) \in Nat
    BY <1>0, PositionsAreFinite
  <2> QED BY <2>1, <2>4, <2>5, <2>6 DEF SentInv
<1>4. ASSUME \/ \E p \in Procs : RegisterProc(p)
             \/ \E s \in Subs : Subscribe(s) \/ CancelSubscription(s) \/ WatcherStep(s) \/ Receive(s)
             \/ UNCHANGED busVars
      PROVE  UNCHANGED <<history, emitPc, sent>>
  BY <1>4 DEF RegisterProc, Subscribe, CancelSubscription, WatcherStep, RemoveSubscription, CloseChannel,
     Receive, emitters, busVars
<1> QED BY <1>1, <1>2, <1>3, <1>4 DEF BusNext, EmitterStep

-----------------------------------------------------------------------------
(* The collector.                                                          *)

(* What is kept of n chunks, when they are more than MaxBytes and when     *)
(* they are not.                                                           *)
LEMMA KeptOf ==
  ASSUME NEW n \in Nat
  PROVE  /\ n * ChunkSize \in Nat
         /\ n * ChunkSize > MaxBytes => Kept(n) = [bytes |-> MaxBytes, truncated |-> TRUE]
         /\ ~(n * ChunkSize > MaxBytes) =>
              Kept(n) = [bytes |-> n * ChunkSize, truncated |-> FALSE]
<1> DEFINE x == n * ChunkSize
<1>1. ChunkSize \in Nat /\ MaxBytes \in Nat
  BY CaptureAssumption
<1>2. x \in Nat
  BY <1>1
<1>3. Kept(n) = [bytes |-> AtMost(x, MaxBytes), truncated |-> x > MaxBytes]
  BY DEF Kept
<1> HIDE DEF x
<1>4. CASE x > MaxBytes
  <2>1. AtMost(x, MaxBytes) = MaxBytes
    BY <1>1, <1>2, <1>4 DEF AtMost
  <2>2. (x > MaxBytes) = TRUE
    BY <1>4
  <2> QED BY <1>2, <1>3, <1>4, <2>1, <2>2 DEF x
<1>5. CASE ~(x > MaxBytes)
  <2>1. AtMost(x, MaxBytes) = x
    BY <1>1, <1>2, <1>5 DEF AtMost
  <2>2. (x > MaxBytes) = FALSE
    BY <1>5
  <2> QED BY <1>2, <1>3, <1>5, <2>1, <2>2 DEF x
<1> QED BY <1>4, <1>5

LEMMA TruncatedRecord ==
  ASSUME NEW b \in Nat
  PROVE  [[bytes |-> b, truncated |-> FALSE] EXCEPT !.truncated = TRUE]
           = [bytes |-> b, truncated |-> TRUE]
<1> DEFINE r == [bytes |-> b, truncated |-> FALSE]
           q == [r EXCEPT !.truncated = TRUE]
<1>1. r \in [bytes : Nat, truncated : BOOLEAN] /\ r.bytes = b
  OBVIOUS
<1> HIDE DEF r
<1>2. q \in [bytes : Nat, truncated : BOOLEAN] /\ q.bytes = b /\ q.truncated = TRUE
  BY <1>1
<1> HIDE DEF q
<1>3. q = [bytes |-> b, truncated |-> TRUE]
  BY <1>2
<1> QED BY <1>3 DEF q, r

(* One more chunk makes of n chunks kept what is kept of n + 1.            *)
LEMMA KeptGrows ==
  ASSUME NEW n \in Nat
  PROVE  AppendCaptured(Kept(n), ChunkSize) = Kept(n + 1)
<1> DEFINE x == n * ChunkSize
           y == (n + 1) * ChunkSize
<1>1. ChunkSize \in Nat /\ ChunkSize > 0 /\ MaxBytes \in Nat /\ MaxBytes > 0
  BY CaptureAssumption
<1>2. x \in Nat /\ y = x + ChunkSize
  BY <1>1
<1>3. /\ x > MaxBytes => Kept(n) = [bytes |-> MaxBytes, truncated |-> TRUE]
      /\ ~(x > MaxBytes) => Kept(n) = [bytes |-> x, truncated |-> FALSE]
  BY KeptOf
<1>4. /\ y > MaxBytes => Kept(n + 1) = [bytes |-> MaxBytes, truncated |-> TRUE]
      /\ ~(y > MaxBytes) => Kept(n + 1) = [bytes |-> y, truncated |-> FALSE]
  <2>1. n + 1 \in Nat
    OBVIOUS
  <2> QED BY <2>1, KeptOf
<1> HIDE DEF x, y
<1>5. CASE x > MaxBytes
  <2>1. y > MaxBytes
    BY <1>1, <1>2, <1>5
  <2>2. Kept(n) = Kept(n + 1)
    BY <1>3, <1>4, <1>5, <2>1
  <2>3. Kept(n).truncated = TRUE
    BY <1>3, <1>5
  <2> QED BY <2>2, <2>3 DEF AppendCaptured
<1>6. CASE ~(x > MaxBytes) /\ y > MaxBytes
  <2>1. MaxBytes - x = 0 => x = MaxBytes
    BY <1>1, <1>2
  <2>2. MaxBytes - x # 0 => ChunkSize > MaxBytes - x
    BY <1>1, <1>2, <1>6
  <2>3. Kept(n).bytes = x /\ Kept(n).truncated = FALSE
    BY <1>3, <1>6
  <2>4. CASE MaxBytes - x = 0
    <3>1. [Kept(n) EXCEPT !.truncated = TRUE] = [bytes |-> MaxBytes, truncated |-> TRUE]
      <4>1. Kept(n) = [bytes |-> MaxBytes, truncated |-> FALSE]
        BY <1>3, <1>6, <2>1, <2>4
      <4>2. [[bytes |-> MaxBytes, truncated |-> FALSE] EXCEPT !.truncated = TRUE]
              = [bytes |-> MaxBytes, truncated |-> TRUE]
        BY <1>1, TruncatedRecord
      <4> QED BY <4>1, <4>2
    <3> QED BY <1>4, <1>6, <2>3, <2>4, <3>1 DEF AppendCaptured
  <2>5. CASE MaxBytes - x # 0
    BY <1>4, <1>6, <2>2, <2>3, <2>5 DEF AppendCaptured
  <2> QED BY <2>4, <2>5
<1>7. CASE ~(x > MaxBytes) /\ ~(y > MaxBytes)
  <2>1. MaxBytes - x # 0 /\ ~(ChunkSize > MaxBytes - x)
    BY <1>1, <1>2, <1>7
  <2>2. Kept(n).bytes = x /\ Kept(n).truncated = FALSE
    BY <1>3, <1>7
  <2> QED BY <1>2, <1>4, <1>7, <2>1, <2>2 DEF AppendCaptured
<1> QED BY <1>5, <1>6, <1>7

LEMMA KeptIsRight ==
  ASSUME NEW n \in Nat
  PROVE  /\ Kept(n) \in [bytes : 0..MaxBytes, truncated : BOOLEAN]
         /\ Kept(n).bytes = AtMost(n * ChunkSize, MaxBytes)
         /\ Kept(n).truncated <=> n * ChunkSize > MaxBytes
<1> DEFINE x == n * ChunkSize
<1>1. MaxBytes \in Nat /\ x \in Nat
  BY KeptOf, CaptureAssumption
<1>2. Kept(n) = [bytes |-> AtMost(x, MaxBytes), truncated |-> x > MaxBytes]
  BY DEF Kept
<1> HIDE DEF x
<1>3. AtMost(x, MaxBytes) \in 0..MaxBytes
  BY <1>1 DEF AtMost
<1>4. Kept(n).truncated <=> x > MaxBytes
  BY KeptOf DEF x
<1> QED BY <1>2, <1>3, <1>4 DEF x

LEMMA Shorter ==
  \A g, c \in Nat : c <= g => /\ 1..(g - c) \subseteq 1..g
                              /\ g - c \in Nat
                              /\ g - (c - 1) = (g - c) + 1
OBVIOUS

(* What the collector took stands before what is still in the channel.     *)
LEMMA CollectedIsOld ==
  ASSUME BusInv
  PROVE  /\ Entered \subseteq 1..Len(history)
         /\ Collected \subseteq Entered
         /\ channel[mine] = << >> => Collected = Entered
<1>1. mine \in Subs
  BY CaptureAssumption
<1>2. /\ got[mine] \in Seq(Nat) /\ channel[mine] \in Seq(Events) /\ Len(history) \in Nat
      /\ Len(channel[mine]) <= Len(got[mine])
      /\ \A i \in 1..Len(got[mine]) : got[mine][i] \in Wanted(mine)
      /\ joined[mine] \in Nat
  BY <1>1 DEF BusInv, BusTypeOK, StreamsInOrder
<1>3. Wanted(mine) \subseteq 1..Len(history)
  BY <1>2 DEF Wanted
<1>4. Len(got[mine]) \in Nat /\ Len(channel[mine]) \in Nat
  BY <1>2
<1>5. 1..(Len(got[mine]) - Len(channel[mine])) \subseteq 1..Len(got[mine])
  BY <1>2, <1>4, Shorter
<1>6. channel[mine] = << >> => Len(got[mine]) - Len(channel[mine]) = Len(got[mine])
  BY <1>4
<1> QED BY <1>2, <1>3, <1>5, <1>6 DEF Entered, Collected

LEMMA BroadcastAddsToTheEnd ==
  ASSUME BusInv, NEW e \in Emitters, Broadcast(e)
  PROVE  /\ Collected' = Collected
         /\ Entered \subseteq Entered'
         /\ (mine \in subs /\ Matches(mine, e) /\ HasRoom(mine)) => Len(history) + 1 \in Entered'
<1>1. mine \in Subs
  BY CaptureAssumption
<1> DEFINE g == Len(got[mine])
           c == Len(channel[mine])
<1>2. /\ got[mine] \in Seq(Nat) /\ channel[mine] \in Seq(Events) /\ <<e, sent[e]>> \in Events
      /\ g \in Nat /\ c \in Nat /\ c <= g /\ Len(history) + 1 \in Nat
  BY <1>1 DEF BusInv, BusTypeOK, StreamsInOrder, Events
<1>3. got'[mine] = got[mine] /\ channel'[mine] = channel[mine] =>
        Collected' = Collected /\ Entered \subseteq Entered'
  BY DEF Entered, Collected
<1>4. CASE /\ got'[mine] = Append(got[mine], Len(history) + 1)
           /\ channel'[mine] = Append(channel[mine], <<e, sent[e]>>)
  <2>1. /\ Len(got'[mine]) = g + 1 /\ Len(channel'[mine]) = c + 1
        /\ got'[mine][g + 1] = Len(history) + 1
        /\ \A i \in 1..g : got'[mine][i] = got[mine][i]
    BY <1>2, <1>4
  <2> HIDE DEF g, c
  <2>2. Len(got'[mine]) - Len(channel'[mine]) = g - c
    BY <1>2, <2>1
  <2>3. 1..(g - c) \subseteq 1..g /\ 1..g \subseteq 1..(g + 1) /\ g + 1 \in 1..(g + 1)
    BY <1>2
  <2>4. Collected' = Collected
    BY <2>1, <2>2, <2>3 DEF Collected, g, c
  <2>5. Entered \subseteq Entered' /\ Len(history) + 1 \in Entered'
    BY <2>1, <2>3 DEF Entered, g
  <2> QED BY <2>4, <2>5
<1>5. CASE mine \in subs /\ Matches(mine, e) /\ HasRoom(mine)
  BY <1>1, <1>4, <1>5 DEF Broadcast
<1>6. CASE ~(mine \in subs /\ Matches(mine, e) /\ HasRoom(mine))
  BY <1>1, <1>3, <1>6 DEF Broadcast
<1> QED BY <1>4, <1>5, <1>6

(* One turn of the collector takes the oldest event that is left.          *)
LEMMA CollectTakesTheNext ==
  ASSUME BusInv, Collect
  PROVE  \E p \in (1..Len(history)) \ Collected :
           /\ Collected' = Collected \cup {p}
           /\ Head(channel[mine])[1] = history[p][1]
           /\ got' = got /\ history' = history
<1>1. mine \in Subs
  BY CaptureAssumption
<1> DEFINE g == Len(got[mine])
           c == Len(channel[mine])
           k == g - c
<1>2. /\ got[mine] \in Seq(Nat) /\ channel[mine] \in Seq(Events) /\ channel[mine] # << >>
      /\ g \in Nat /\ c \in Nat /\ c <= g
      /\ channel'[mine] = Tail(channel[mine]) /\ got' = got /\ history' = history
  BY <1>1 DEF BusInv, BusTypeOK, StreamsInOrder, Collect, Receive
<1>3. c >= 1 /\ Len(channel'[mine]) = c - 1 /\ Head(channel[mine]) = channel[mine][1]
  BY <1>2
<1>4. \A i, j \in 1..g : i < j => got[mine][i] < got[mine][j]
  BY <1>1 DEF BusInv, StreamsInOrder
<1>5. channel[mine][1] = history[got[mine][k + 1]]
  <2>1. 1 \in 1..Len(channel[mine])
    BY <1>2, <1>3
  <2> QED BY <1>1, <2>1 DEF BusInv, StreamsInOrder
<1>6. \A i \in 1..g : got[mine][i] \in 1..Len(history) /\ got[mine][i] \in Nat
  BY <1>1, <1>2, CollectedIsOld DEF Entered
<1>7. Collected' = {got[mine][i] : i \in 1..(g - Len(channel'[mine]))}
  BY <1>2 DEF Collected
<1>8. Collected = {got[mine][i] : i \in 1..k}
  BY DEF Collected
<1> HIDE DEF g, c
<1>9. g - Len(channel'[mine]) = k + 1
  BY <1>2, <1>3, Shorter
<1>10. k \in Nat /\ k + 1 \in 1..g /\ \A i \in 1..k : i \in 1..g /\ i < k + 1
  BY <1>2, <1>3
<1> HIDE DEF k
<1>11. \A i : i \in 1..(k + 1) <=> i \in 1..k \/ i = k + 1
  BY <1>10
<1>12. Collected' = Collected \cup {got[mine][k + 1]}
  BY <1>7, <1>8, <1>9, <1>11
<1>13. \A i \in 1..k : got[mine][i] < got[mine][k + 1]
  BY <1>4, <1>10
<1>14. got[mine][k + 1] \notin Collected
  BY <1>6, <1>8, <1>10, <1>13
<1>15. got[mine][k + 1] \in (1..Len(history)) \ Collected
  BY <1>6, <1>10, <1>14
<1> QED BY <1>2, <1>3, <1>5, <1>12, <1>15

LEMMA CollectStays ==
  ASSUME TypeOK, BusInv, CollectInv, [Next]_vars
  PROVE  CollectInv'
<1>0. Copiers \subseteq Emitters /\ BusTypeOK
  BY CaptureAssumption DEF BusInv
<1>1. CASE Collect
  <2>1. PICK p \in (1..Len(history)) \ Collected :
           /\ Collected' = Collected \cup {p}
           /\ Head(channel[mine])[1] = history[p][1]
           /\ got' = got /\ history' = history
    BY <1>1, CollectTakesTheNext
  <2> SUFFICES ASSUME NEW e \in Copiers
               PROVE  capture'[e] = Kept(Cardinality(Positions(e)' \cap Collected'))
    BY DEF CollectInv, Kept
  <2>2. Positions(e)' = Positions(e)
    BY <2>1 DEF Positions
  <2>3. IsFiniteSet(Positions(e) \cap Collected)
    BY <1>0, PositionsAreFinite, FS_Subset
  <2>4. Cardinality(Positions(e) \cap Collected) \in Nat
    BY <2>3, FS_CardinalityType
  <2>5. capture[e] = Kept(Cardinality(Positions(e) \cap Collected))
    BY DEF CollectInv
  <2>6. CASE history[p][1] = e
    <3>1. capture'[e] = AppendCaptured(capture[e], ChunkSize)
      BY <1>1, <2>1, <2>6 DEF Collect, TypeOK
    <3>2. /\ Positions(e) \cap Collected' = (Positions(e) \cap Collected) \cup {p}
          /\ p \notin Positions(e) \cap Collected
      BY <2>1, <2>6 DEF Positions
    <3>3. Cardinality(Positions(e) \cap Collected') = Cardinality(Positions(e) \cap Collected) + 1
      BY <2>3, <3>2, FS_AddElement
    <3> QED BY <2>2, <2>4, <2>5, <3>1, <3>3, KeptGrows
  <2>7. CASE history[p][1] # e
    <3>1. capture'[e] = capture[e]
      BY <1>1, <2>1, <2>7 DEF Collect, TypeOK
    <3>2. Positions(e) \cap Collected' = Positions(e) \cap Collected
      BY <2>1, <2>7 DEF Positions
    <3> QED BY <2>2, <2>5, <3>1, <3>2
  <2> QED BY <2>6, <2>7
<1>2. ASSUME NEW e \in Emitters, Broadcast(e), capture' = capture PROVE CollectInv'
  <2>1. Collected' = Collected /\ Collected \subseteq 1..Len(history)
    BY <1>2, BroadcastAddsToTheEnd, CollectedIsOld
  <2>2. Len(history) + 1 \notin Collected
    BY <1>0, <2>1 DEF BusTypeOK
  <2>3. \A f \in Copiers : Positions(f)' \cap Collected' = Positions(f) \cap Collected
    BY <1>0, <1>2, <2>1, <2>2, PositionsGrow
  <2> QED BY <1>2, <2>3 DEF CollectInv, Kept
<1>3. CASE capture' = capture /\ UNCHANGED <<history, got, channel>>
  BY <1>3 DEF CollectInv, Positions, Collected, Kept
<1> QED BY <1>1, <1>2, <1>3, KindsOfSteps

-----------------------------------------------------------------------------
(* The helper and its process.                                             *)

LEMMA OnlyTheEmitter ==
  ASSUME BusTypeOK, NEW e \in Emitters, EmitterStep(e)
  PROVE  /\ UNCHANGED <<selector, watcher, closed, ctx, joined, subs>>
         /\ \A f \in Emitters \ {e} : emitPc'[f] = emitPc[f] /\ sent'[f] = sent[f]
BY DEF EmitterStep, LookUp, Broadcast, BusTypeOK

LEMMA TypeStays ==
  ASSUME TypeOK, BusInv, CollectInv, [Next]_vars
  PROVE  TypeOK'
<1>0. /\ BusTypeOK' /\ BusTypeOK
      /\ Copiers \subseteq Emitters
  BY StepsOfTheBus, BusTypes, CaptureAssumption DEF TypeOK
<1>1. CASE Collect
  <2>1. \A e \in Copiers : AppendCaptured(capture[e], ChunkSize) \in [bytes : 0..MaxBytes, truncated : BOOLEAN]
    <3> SUFFICES ASSUME NEW e \in Copiers
                 PROVE  AppendCaptured(capture[e], ChunkSize) \in [bytes : 0..MaxBytes, truncated : BOOLEAN]
      OBVIOUS
    <3>1. IsFiniteSet(Positions(e) \cap Collected)
      BY <1>0, PositionsAreFinite, FS_Subset
    <3>2. PICK n \in Nat : capture[e] = Kept(n)
      BY <3>1, FS_CardinalityType DEF CollectInv
    <3>3. n + 1 \in Nat
      OBVIOUS
    <3> QED BY <3>2, <3>3, KeptGrows, KeptIsRight
  <2>2. capture' \in [Copiers -> [bytes : 0..MaxBytes, truncated : BOOLEAN]]
    BY <1>1, <2>1 DEF Collect, TypeOK
  <2> QED BY <1>0, <1>1, <2>2 DEF Collect, TypeOK
<1>2. CASE CancelRun \/ RunStep \/ CollectEnds \/ ProcessEnds \/ ReportExit \/ UNCHANGED vars
  BY <1>0, <1>2 DEF TypeOK, CancelRun, RunStep, CollectEnds, ProcessEnds, ReportExit, vars, captureVars,
     RunSubscribes, StartRefused, StartRegisters, StartAnnounces, RunClosesInput, RunFailsToCloseInput,
     RunWaited, RunCancelsEvents, RunReturns
<1>3. CASE Others \/ SubscriptionCloses \/ \E e \in Copiers : CopierEmits(e)
  BY <1>0, <1>3 DEF TypeOK, Others, SubscriptionCloses, CopierEmits, captureVars
<1> QED BY <1>1, <1>2, <1>3 DEF Next, CollectStep

LEMMA RunStays ==
  ASSUME TypeOK, RunInv, [Next]_vars
  PROVE  RunInv'
<1>0. /\ BusTypeOK /\ mine \in Subs /\ Copiers \subseteq Emitters
      /\ life \in Emitters \ Copiers /\ runner \in Emitters \ Copiers
  BY CaptureAssumption DEF TypeOK
<1>1. CASE CancelRun \/ Collect \/ CollectEnds \/ UNCHANGED vars
  BY <1>1 DEF RunInv, CancelRun, Collect, CollectEnds, Receive, vars, busVars, captureVars, emitters
<1>2. CASE SubscriptionCloses
  BY <1>0, <1>2 DEF RunInv, SubscriptionCloses, WatcherStep, RemoveSubscription, CloseChannel, BusTypeOK,
     captureVars, emitters
<1>3. CASE Others
  <2>1. /\ UNCHANGED <<watcher, runPc, phase, waitErr>>
        /\ \A e \in Copiers : emitPc'[e] = emitPc[e] /\ sent'[e] = sent[e]
    BY <1>0, <1>3, OnlyTheEmitter DEF Others, captureVars, RegisterProc, emitters
  <2> QED BY <2>1 DEF RunInv
<1>4. CASE RunSubscribes \/ StartRefused \/ StartRegisters \/ RunFailsToCloseInput
           \/ RunCancelsEvents \/ RunReturns
  BY <1>0, <1>4 DEF RunInv, RunSubscribes, StartRefused, StartRegisters, RunFailsToCloseInput,
     RunCancelsEvents, RunReturns, Subscribe, RegisterProc, EndSubscription, BusTypeOK,
     busVars, emitters
<1>5. CASE StartAnnounces
  <2>1. watcher' = watcher /\ \A e \in Copiers : emitPc'[e] = emitPc[e] /\ sent'[e] = sent[e]
    BY <1>0, <1>5, OnlyTheEmitter DEF StartAnnounces
  <2> QED BY <1>5, <2>1 DEF RunInv, StartAnnounces
<1>6. CASE RunClosesInput
  <2>1. watcher' = watcher /\ \A e \in Copiers : emitPc'[e] = emitPc[e] /\ sent'[e] = sent[e]
    BY <1>0, <1>6, OnlyTheEmitter DEF RunClosesInput
  <2> QED BY <1>6, <2>1 DEF RunInv, RunClosesInput
<1>7. CASE ReportExit
  <2>1. watcher' = watcher /\ \A e \in Copiers : emitPc'[e] = emitPc[e] /\ sent'[e] = sent[e]
    BY <1>0, <1>7, OnlyTheEmitter DEF ReportExit
  <2> QED BY <1>7, <2>1 DEF RunInv, ReportExit
<1>8. CASE RunWaited \/ ProcessEnds
  BY <1>8 DEF RunInv, RunWaited, ProcessEnds, busVars, emitters
<1>9. ASSUME NEW e \in Copiers, CopierEmits(e) PROVE RunInv'
  <2>1. watcher' = watcher
    BY <1>0, <1>9, OnlyTheEmitter DEF CopierEmits
  <2> QED BY <1>9, <2>1 DEF RunInv, CopierEmits, captureVars
<1> QED
  BY <1>1, <1>2, <1>3, <1>4, <1>5, <1>6, <1>7, <1>8, <1>9 DEF Next, RunStep, CollectStep

(* Before the process runs no copier has broadcast anything. *)
LEMMA NothingBefore ==
  ASSUME BusTypeOK, SentInv, NEW e \in Emitters, sent[e] = 0
  PROVE  Positions(e) = {}
<1>1. IsFiniteSet(Positions(e)) /\ Cardinality(Positions(e)) \in Nat
  BY PositionsAreFinite
<1>2. Cardinality(Positions(e)) = 0
  BY <1>1 DEF SentInv
<1> QED BY <1>1, <1>2, FS_EmptySet

LEMMA SubscriptionStays ==
  ASSUME TypeOK, BusInv, SentInv, RunInv, SubscriptionInv, [Next]_vars
  PROVE  SubscriptionInv'
<1>0. /\ BusTypeOK /\ WatcherInv /\ mine \in Subs /\ Copiers \subseteq Emitters
      /\ life \in Emitters /\ runner \in Emitters
  BY CaptureAssumption DEF BusInv
<1> DEFINE Later == watcher[mine] # "absent" =>
                      \A e \in Copiers : \A i \in Positions(e) : joined[mine] < i
<1>1. CASE Collect
  BY <1>0, <1>1 DEF SubscriptionInv, Collect, Receive, Positions, BusTypeOK
<1>2. CASE \/ CancelRun \/ StartRefused \/ StartRegisters \/ RunFailsToCloseInput \/ RunWaited
           \/ RunCancelsEvents \/ RunReturns \/ CollectEnds \/ ProcessEnds \/ UNCHANGED vars
  <2>1. UNCHANGED <<history, joined, watcher, selector, closed, channel>>
    BY <1>2 DEF CancelRun, StartRefused, StartRegisters, RunFailsToCloseInput, RunWaited, RunCancelsEvents,
       RunReturns, CollectEnds, ProcessEnds, RegisterProc, EndSubscription, vars, busVars
  <2>2. Later'
    BY <2>1 DEF SubscriptionInv, Positions
  <2>3. ctx'[mine] = "cancelled" => runCtx' = "cancelled" \/ runPc' \in {"drain", "returned", "refused"}
    BY <1>0, <1>2 DEF SubscriptionInv, CancelRun, StartRefused, StartRegisters, RunFailsToCloseInput,
       RunWaited, RunCancelsEvents, RunReturns, CollectEnds, ProcessEnds, RegisterProc, EndSubscription,
       vars, busVars, captureVars, BusTypeOK
  <2>4. ctx'[mine] = "live" => ctx[mine] = "live"
    BY <1>0, <1>2 DEF CancelRun, StartRefused, StartRegisters, RunFailsToCloseInput,
       RunWaited, RunCancelsEvents, RunReturns, CollectEnds, ProcessEnds, RegisterProc, EndSubscription,
       vars, busVars, BusTypeOK
  <2>5. collectPc' = "finished" => mine \in closed /\ channel[mine] = << >>
    BY <1>2 DEF SubscriptionInv, CancelRun, StartRefused, StartRegisters, RunFailsToCloseInput,
       RunWaited, RunCancelsEvents, RunReturns, CollectEnds, ProcessEnds, vars, captureVars
  <2>6. runPc' = "returned" => collectPc' = "finished"
    BY <1>2 DEF SubscriptionInv, CancelRun, StartRefused, StartRegisters, RunFailsToCloseInput,
       RunWaited, RunCancelsEvents, RunReturns, CollectEnds, ProcessEnds, vars, captureVars
  <2> QED BY <2>1, <2>2, <2>3, <2>4, <2>5, <2>6 DEF SubscriptionInv
<1>3. CASE RunSubscribes
  <2>1. \A e \in Copiers : Positions(e) = {}
    BY <1>0, <1>3, NothingBefore DEF RunInv, RunSubscribes
  <2>2. history' = history
    BY <1>3 DEF RunSubscribes, Subscribe
  <2>3. \A e \in Copiers : Positions(e)' = {}
    BY <2>1, <2>2 DEF Positions
  <2> QED BY <1>0, <1>3, <2>3 DEF SubscriptionInv, RunSubscribes, Subscribe, BusTypeOK
<1>4. CASE SubscriptionCloses
  <2>1. /\ UNCHANGED <<history, joined, selector, ctx, channel>>
        /\ closed \subseteq closed'
        /\ ctx[mine] = "live" => watcher'[mine] = watcher[mine]
        /\ watcher[mine] # "absent"
    BY <1>0, <1>4 DEF SubscriptionCloses, WatcherStep, RemoveSubscription, CloseChannel,
       BusTypeOK, SubscriptionInv
  <2>2. UNCHANGED captureVars
    BY <1>4 DEF SubscriptionCloses
  <2> QED BY <2>1, <2>2 DEF SubscriptionInv, Positions, captureVars
<1>5. ASSUME NEW p \in Procs, RegisterProc(p), UNCHANGED captureVars
      PROVE  SubscriptionInv'
  BY <1>5 DEF SubscriptionInv, RegisterProc, Positions, captureVars
<1>6. ASSUME NEW e \in Emitters, EmitterStep(e), UNCHANGED <<runCtx, waitErr, capture>>,
             collectPc' = "finished" => collectPc = "finished",
             runPc' = "returned" => runPc = "returned" /\ collectPc' = collectPc,
             runPc' \in {"drain", "returned", "refused"} \/ runPc' = runPc
               \/ runPc \in {"announce", "close input"}
      PROVE  SubscriptionInv'
  <2>1. UNCHANGED <<selector, watcher, closed, ctx, joined>>
    BY <1>0, <1>6, OnlyTheEmitter
  <2>2. mine \in closed => channel'[mine] = channel[mine]
    BY <1>0, <1>6 DEF EmitterStep, LookUp, Broadcast, WatcherInv
  <2>3. Later'
    <3> SUFFICES ASSUME watcher[mine] # "absent", NEW f \in Copiers, NEW i \in Positions(f)'
                 PROVE  joined[mine] < i
      BY <2>1
    <3>1. CASE LookUp(e)
      BY <3>1 DEF LookUp, Positions, SubscriptionInv
    <3>2. CASE Broadcast(e)
      <4>1. i \in Positions(f) \/ i = Len(history) + 1
        BY <1>0, <3>2, PositionsGrow
      <4>2. joined[mine] \in Nat /\ Len(history) \in Nat /\ joined[mine] <= Len(history)
        BY <1>0 DEF BusTypeOK, WatcherInv
      <4> QED BY <4>1, <4>2 DEF SubscriptionInv
    <3> QED BY <1>6, <3>1, <3>2 DEF EmitterStep
  <2> QED BY <1>6, <2>1, <2>2, <2>3 DEF SubscriptionInv
<1>7. CASE Others
  BY <1>5, <1>6, <1>7 DEF Others, captureVars
<1>8. CASE StartAnnounces \/ RunClosesInput \/ ReportExit \/ \E e \in Copiers : CopierEmits(e)
  BY <1>0, <1>6, <1>8 DEF StartAnnounces, RunClosesInput, ReportExit, CopierEmits, captureVars
<1> QED
  BY <1>1, <1>2, <1>3, <1>4, <1>7, <1>8 DEF Next, RunStep, CollectStep

(* While a copier can broadcast, a run that is not cancelled is subscribed *)
(* to what it broadcasts.                                                  *)
LEMMA CopiersAreHeard ==
  ASSUME TypeOK, BusInv, RunInv, SubscriptionInv,
         phase = "running", runCtx = "live", waitErr # "cancelled", NEW e \in Copiers
  PROVE  mine \in subs /\ Matches(mine, e)
<1>1. mine \in Subs /\ ProcOf[e] = proc
  BY CaptureAssumption
<1>2. waitErr = "none"
  BY DEF RunInv, TypeOK
<1>3. runPc \in {"close input", "wait"}
  BY <1>2 DEF RunInv, TypeOK
<1>4. ctx[mine] = "live"
  BY <1>1, <1>3 DEF SubscriptionInv, TypeOK, BusTypeOK
<1>5. watcher[mine] = "waiting"
  BY <1>3, <1>4 DEF SubscriptionInv, RunInv
<1>6. mine \in subs
  BY <1>1, <1>5 DEF BusInv, WatcherInv
<1>7. Matches(mine, e)
  BY <1>1 DEF SubscriptionInv, Matches, MatchesStringSelector
<1> QED BY <1>6, <1>7

LEMMA EnteredStays ==
  ASSUME TypeOK, BusPart, SentInv, RunInv, SubscriptionInv, EnteredInv, [Next]_vars
  PROVE  EnteredInv'
<1>0. /\ BusTypeOK /\ WatcherInv /\ BusInv /\ StreamsInOrder /\ FewEventsAreComplete
      /\ mine \in Subs /\ Copiers \subseteq Emitters
      /\ life \notin Copiers /\ runner \notin Copiers /\ life \in Emitters /\ runner \in Emitters
  BY CaptureAssumption DEF BusPart, BusInv
<1>1. /\ runCtx' = "live" => runCtx = "live"
      /\ waitErr' # "cancelled" => waitErr # "cancelled"
  <2>1. CASE \/ CancelRun \/ RunStep \/ CollectStep \/ ProcessEnds \/ ReportExit \/ UNCHANGED vars
    BY <2>1 DEF RunInv, CancelRun, RunStep, CollectStep, Collect, CollectEnds, ProcessEnds, ReportExit,
       RunSubscribes, StartRefused, StartRegisters, StartAnnounces, RunClosesInput, RunFailsToCloseInput,
       RunWaited, RunCancelsEvents, RunReturns, vars, captureVars
  <2>2. CASE Others \/ SubscriptionCloses \/ \E e \in Copiers : CopierEmits(e)
    BY <2>2 DEF Others, SubscriptionCloses, CopierEmits, captureVars
  <2> QED BY <2>1, <2>2 DEF Next
<1>2. CASE UNCHANGED <<history, got, joined, selector>>
  <2>1. /\ Wanted(mine)' = Wanted(mine) /\ Entered' = Entered
        /\ \A e \in Copiers : Positions(e)' = Positions(e)
    BY <1>2 DEF Wanted, Matches, Entered, Positions
  <2> QED BY <1>1, <2>1 DEF EnteredInv
<1>3. CASE RunSubscribes
  <2>1. \A e \in Copiers : Positions(e) = {}
    BY <1>0, <1>3, NothingBefore DEF RunInv, RunSubscribes
  <2>2. \A e \in Copiers : Positions(e)' = {}
    BY <1>3, <2>1 DEF RunSubscribes, Subscribe, Positions
  <2> QED BY <2>2 DEF EnteredInv
<1>4. ASSUME NEW e \in Emitters, Broadcast(e), e \in Copiers => phase = "running"
      PROVE  EnteredInv'
  <2> SUFFICES ASSUME runCtx' = "live", waitErr' # "cancelled", Cardinality(Wanted(mine)') <= Capacity,
                      NEW f \in Copiers
               PROVE  Positions(f)' \subseteq Entered'
    BY DEF EnteredInv
  <2> DEFINE n == Len(history) + 1
  <2>1. /\ Cardinality(Wanted(mine)) \in Nat /\ IsFiniteSet(Wanted(mine)) /\ Capacity \in Nat
        /\ Len(history) \in Nat
    BY <1>0, WantedIsFinite, BusAssumption DEF BusTypeOK
  <2>2. n \notin Wanted(mine)
    BY <1>0, <2>1 DEF Wanted, BusTypeOK
  <2>3. Wanted(mine)' = IF Matches(mine, e) THEN Wanted(mine) \cup {n} ELSE Wanted(mine)
    BY <1>0, <1>4, WantedGrows
  <2>4. Positions(f)' = IF f = e THEN Positions(f) \cup {n} ELSE Positions(f)
    BY <1>0, <1>4, PositionsGrow
  <2>5. /\ Entered \subseteq Entered'
        /\ (mine \in subs /\ Matches(mine, e) /\ HasRoom(mine)) => n \in Entered'
    BY <1>0, <1>4, BroadcastAddsToTheEnd
  <2> HIDE DEF n
  <2>6. Matches(mine, e) => Cardinality(Wanted(mine)') = Cardinality(Wanted(mine)) + 1
    BY <2>1, <2>2, <2>3, FS_AddElement
  <2>7. Cardinality(Wanted(mine)) <= Capacity
    BY <2>1, <2>3, <2>6
  <2>8. Positions(f) \subseteq Entered
    BY <1>1, <2>7 DEF EnteredInv
  <2>9. CASE f # e
    BY <2>4, <2>5, <2>8, <2>9
  <2>10. CASE f = e
    <3>1. mine \in subs /\ Matches(mine, e)
      BY <1>0, <1>1, <1>4, <2>10, CopiersAreHeard
    <3>2. Len(got[mine]) = Cardinality(Wanted(mine))
      BY <2>7, <3>1 DEF BusPart, FewEventsAreComplete
    <3>3. Len(channel[mine]) <= Len(got[mine]) /\ Len(channel[mine]) \in Nat
      BY <1>0 DEF StreamsInOrder, BusTypeOK
    <3>4. HasRoom(mine)
      BY <2>1, <2>6, <3>1, <3>2, <3>3 DEF HasRoom
    <3> QED BY <2>4, <2>5, <2>8, <2>10, <3>1, <3>4
  <2> QED BY <2>9, <2>10
<1>5. ASSUME NEW e \in Emitters, EmitterStep(e), e \in Copiers => phase = "running"
      PROVE  EnteredInv'
  <2>1. CASE LookUp(e)
    BY <1>2, <2>1 DEF LookUp
  <2> QED BY <1>4, <1>5, <2>1 DEF EmitterStep
<1>6. CASE StartAnnounces \/ RunClosesInput \/ ReportExit \/ \E e \in Copiers : CopierEmits(e)
  BY <1>0, <1>5, <1>6 DEF StartAnnounces, RunClosesInput, ReportExit, CopierEmits
<1>7. CASE Others
  <2>1. CASE \E p \in Procs \ {proc} : RegisterProc(p)
    BY <1>2, <2>1 DEF RegisterProc
  <2> QED BY <1>5, <1>7, <2>1 DEF Others
<1>8. ASSUME \/ CancelRun \/ StartRefused \/ StartRegisters \/ RunFailsToCloseInput \/ RunWaited
             \/ RunCancelsEvents \/ RunReturns \/ CollectStep \/ ProcessEnds \/ SubscriptionCloses
             \/ UNCHANGED vars
      PROVE  UNCHANGED <<history, got, joined, selector>>
  BY <1>8 DEF CancelRun, StartRefused, StartRegisters, RunFailsToCloseInput, RunWaited, RunCancelsEvents,
     RunReturns, CollectStep, Collect, CollectEnds, Receive, ProcessEnds, SubscriptionCloses, WatcherStep,
     RemoveSubscription, CloseChannel, RegisterProc, EndSubscription, vars, busVars
<1> QED BY <1>2, <1>3, <1>6, <1>7, <1>8 DEF Next, RunStep

-----------------------------------------------------------------------------
LEMMA InvStarts == Init => Inv
<1> SUFFICES ASSUME Init PROVE Inv
  OBVIOUS
<1>0. BusInit /\ mine \in Subs /\ Copiers \subseteq Emitters
  BY CaptureAssumption DEF Init
<1>1. BusPart
  BY <1>0, BusAssumption
     DEF BusInit, BusPart, BusInv, BusTypeOK, WatcherInv, StreamsInOrder, FewEventsAreComplete
<1>2. \A e \in Emitters : Positions(e) = {}
  BY <1>0 DEF BusInit, Positions
<1>3. SentInv
  <2>1. \A e \in Emitters : Cardinality(Positions(e)) = 0
    BY <1>2, FS_EmptySet
  <2> QED BY <1>0, <2>1 DEF BusInit, SentInv
<1>4. CollectInv
  <2>1. \A e \in Copiers : Cardinality(Positions(e) \cap Collected) = 0
    BY <1>0, <1>2, FS_EmptySet
  <2>2. Kept(0) = Empty
    BY KeptOf, CaptureAssumption DEF Empty
  <2> QED BY <2>1, <2>2 DEF CollectInv, Init
<1>5. TypeOK
  <2>1. Empty \in [bytes : 0..MaxBytes, truncated : BOOLEAN]
    BY CaptureAssumption DEF Empty
  <2> QED BY <1>1, <2>1 DEF BusPart, BusInv, TypeOK, Init
<1>6. RunInv /\ SubscriptionInv /\ EnteredInv
  BY <1>0, <1>2 DEF RunInv, SubscriptionInv, EnteredInv, Init, BusInit
<1> QED BY <1>1, <1>3, <1>4, <1>5, <1>6 DEF Inv

LEMMA InvStays ==
  ASSUME Inv, [Next]_vars
  PROVE  Inv'
<1>1. [BusNext]_busVars
  BY StepsOfTheBus DEF Inv, TypeOK
<1>2. BusPart' /\ SentInv'
  BY <1>1, BusPartStays, SentStays DEF Inv, BusPart
<1>3. TypeOK' /\ CollectInv' /\ RunInv' /\ SubscriptionInv' /\ EnteredInv'
  BY TypeStays, CollectStays, RunStays, SubscriptionStays, EnteredStays DEF Inv, BusPart
<1> QED BY <1>2, <1>3 DEF Inv

LEMMA InvAlways == Spec => []Inv
BY InvStarts, InvStays, PTL DEF Spec

(* Capturing the output of a process is a use of the bus as EventBus       *)
(* describes it: what is proved of the bus holds here.                     *)
THEOREM CaptureUsesTheBus == Spec => BusSpec
<1>1. Init => BusInit
  BY DEF Init
<1>2. Inv /\ [Next]_vars => [BusNext]_busVars
  BY StepsOfTheBus DEF Inv, TypeOK
<1> QED BY <1>1, <1>2, InvAlways, PTL DEF Spec, BusSpec

LEMMA MoreIsMore ==
  ASSUME NEW n \in Nat, NEW m \in Nat, n <= m
  PROVE  n * ChunkSize <= m * ChunkSize
<1>1. PICK d \in Nat : m = n + d
  <2>1. m - n \in Nat /\ m = n + (m - n)
    OBVIOUS
  <2> QED BY <2>1
<1>2. ChunkSize \in Nat
  BY CaptureAssumption
<1>3. m * ChunkSize = n * ChunkSize + d * ChunkSize
  BY <1>1, <1>2
<1>4. n * ChunkSize \in Nat /\ d * ChunkSize \in Nat
  BY KeptOf
<1> QED BY <1>3, <1>4

(* The answer is never more than the process wrote, and all of it up to    *)
(* the bound, with the right flag, when the channel can hold the run.      *)
THEOREM AnswerIsExact == Spec => []CaptureIsExact
<1>1. ASSUME Inv PROVE CaptureIsOwnOutput
  <2> SUFFICES ASSUME NEW e \in Copiers
               PROVE  /\ capture[e].bytes <= Written(e)
                      /\ capture[e].truncated => Written(e) > MaxBytes
    BY DEF CaptureIsOwnOutput
  <2>0. e \in Emitters /\ BusTypeOK
    BY <1>1, CaptureAssumption DEF Inv, TypeOK
  <2> DEFINE n == Cardinality(Positions(e) \cap Collected)
             m == Cardinality(Positions(e))
  <2>1. /\ n \in Nat /\ m \in Nat /\ n <= m
    BY <2>0, PositionsAreFinite, FS_Subset, FS_CardinalityType
  <2>2. capture[e] = Kept(n)
    BY <1>1 DEF Inv, CollectInv
  <2>3. sent[e] = m + (IF emitPc[e] = "found" THEN 1 ELSE 0) /\ sent[e] \in Nat
    BY <1>1, <2>0 DEF Inv, SentInv, BusTypeOK
  <2> HIDE DEF n, m
  <2>4. n <= sent[e]
    BY <2>1, <2>3
  <2>5. n * ChunkSize <= Written(e) /\ n * ChunkSize \in Nat /\ Written(e) \in Nat /\ MaxBytes \in Nat
    BY <2>1, <2>3, <2>4, MoreIsMore, KeptOf, CaptureAssumption DEF Written
  <2>6. /\ capture[e].bytes = AtMost(n * ChunkSize, MaxBytes)
        /\ capture[e].truncated <=> n * ChunkSize > MaxBytes
    BY <2>1, <2>2, KeptIsRight
  <2> DEFINE x == n * ChunkSize
  <2>7. AtMost(x, MaxBytes) <= x
    <3>1. x \in Nat /\ MaxBytes \in Nat
      BY <2>5
    <3> HIDE DEF x
    <3> QED BY <3>1 DEF AtMost
  <2>8. /\ x \in Nat /\ Written(e) \in Nat /\ MaxBytes \in Nat /\ x <= Written(e)
        /\ capture[e].bytes = AtMost(x, MaxBytes)
        /\ capture[e].truncated <=> x > MaxBytes
    BY <2>5, <2>6
  <2> HIDE DEF x
  <2>9. AtMost(x, MaxBytes) \in Nat
    BY <2>8 DEF AtMost
  <2>10. AtMost(x, MaxBytes) <= Written(e)
    BY <2>7, <2>8, <2>9
  <2>11. x > MaxBytes => Written(e) > MaxBytes
    BY <2>8
  <2> QED BY <2>8, <2>10, <2>11
<1>2. ASSUME Inv PROVE CaptureIsComplete
  <2> SUFFICES ASSUME runPc = "returned", waitErr \in {"nil", "failed"}, runCtx = "live",
                      Cardinality(Wanted(mine)) <= Capacity, NEW e \in Copiers
               PROVE  /\ capture[e].bytes = AtMost(Written(e), MaxBytes)
                      /\ capture[e].truncated <=> Written(e) > MaxBytes
    BY DEF CaptureIsComplete
  <2>0. e \in Emitters /\ BusTypeOK /\ BusInv
    BY <1>2, CaptureAssumption DEF Inv, TypeOK, BusPart
  <2>1. phase = "done" /\ emitPc[e] = "idle"
    BY <1>2 DEF Inv, RunInv
  <2>2. sent[e] = Cardinality(Positions(e)) /\ sent[e] \in Nat
    BY <1>2, <2>0, <2>1, PositionsAreFinite DEF Inv, SentInv
  <2>3. channel[mine] = << >>
    BY <1>2 DEF Inv, SubscriptionInv
  <2>4. Collected = Entered
    BY <2>0, <2>3, CollectedIsOld
  <2>5. Positions(e) \subseteq Entered
    BY <1>2 DEF Inv, EnteredInv
  <2>6. Positions(e) \cap Collected = Positions(e)
    BY <2>4, <2>5
  <2>7. capture[e] = Kept(sent[e])
    BY <1>2, <2>2, <2>6 DEF Inv, CollectInv
  <2> QED BY <2>2, <2>7, KeptIsRight DEF Written
<1>3. Inv => CaptureIsExact
  BY <1>1, <1>2 DEF Inv, CaptureIsExact
<1> QED BY <1>3, InvAlways, PTL


=============================================================================
