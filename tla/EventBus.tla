------------------------------ MODULE EventBus ------------------------------
(***************************************************************************)
(* The event bus of hostsystem.Process: goroutines that emit events about  *)
(* processes (emit, broadcast), subscriptions that carry them through a    *)
(* bounded channel (subscribe), and the goroutine of each subscription     *)
(* that closes it when its context ends (processSubscription.close).       *)
(*                                                                         *)
(* broadcast looks the process up in one critical section of p.mu and      *)
(* sends in a second one; the send never blocks, a full channel loses the  *)
(* event.  An action is one critical section or one channel operation.     *)
(* An event is the emitter and its sequence number, so that order and loss *)
(* can be told.                                                            *)
(***************************************************************************)
EXTENDS Naturals, Sequences, FiniteSets

CONSTANTS
  Procs,      \* processes
  Groups,     \* group names
  GroupOf,    \* [Procs -> Groups], ProcessInfo.Group
  Emitters,   \* goroutines that emit
  ProcOf,     \* [Emitters -> Procs], the process an emitter speaks of
  Subs,       \* subscriptions, each made at most once
  Selectors,  \* what subscribers may select
  Capacity,   \* room in a subscription's channel
  MaxEvents   \* bound: events of one emitter

ASSUME BusAssumption ==
  /\ GroupOf \in [Procs -> Groups]
  /\ ProcOf \in [Emitters -> Procs]
  /\ Selectors \subseteq [ids : SUBSET Procs, groups : SUBSET Groups]
  /\ Capacity \in Nat \ {0}
  /\ MaxEvents \in Nat

Events == Emitters \X Nat

VARIABLES
  procs,    \* the registered processes, keys of p.procs
  subs,     \* the registered subscriptions, keys of p.subs
  selector, \* of each subscription
  channel,  \* the contents of each subscription's channel
  closed,   \* subscriptions whose channel is closed
  ctx,      \* each subscription's context: "live" or "cancelled"
  watcher,  \* the goroutine of each subscription
  emitPc,   \* each emitter
  sent,     \* how many events each emitter has emitted
  history,  \* history: the events broadcast, in the order of the lock
  joined,   \* history: how long history was when a subscription was made
  got       \* history: positions in history of what entered each channel

emitters == <<emitPc, sent>>
busVars == <<procs, subs, selector, channel, closed, ctx, watcher, emitPc, sent,
             history, joined, got>>

BusTypeOK ==
  /\ procs \subseteq Procs
  /\ subs \subseteq Subs
  /\ selector \in [Subs -> Selectors]
  /\ channel \in [Subs -> Seq(Events)]
  /\ \A s \in Subs : Len(channel[s]) <= Capacity
  /\ closed \subseteq Subs
  /\ ctx \in [Subs -> {"live", "cancelled"}]
  /\ watcher \in [Subs -> {"absent", "waiting", "removed", "ended"}]
  /\ emitPc \in [Emitters -> {"idle", "found"}]
  /\ sent \in [Emitters -> Nat]
  /\ history \in Seq(Events)
  /\ joined \in [Subs -> Nat]
  /\ got \in [Subs -> Seq(Nat)]

BusInit ==
  /\ procs = {}
  /\ subs = {}
  /\ selector \in [Subs -> Selectors]
  /\ channel = [s \in Subs |-> << >>]
  /\ closed = {}
  /\ ctx = [s \in Subs |-> "live"]
  /\ watcher = [s \in Subs |-> "absent"]
  /\ emitPc = [e \in Emitters |-> "idle"]
  /\ sent = [e \in Emitters |-> 0]
  /\ history = << >>
  /\ joined = [s \in Subs |-> 0]
  /\ got = [s \in Subs |-> << >>]

-----------------------------------------------------------------------------
(* An empty list selects everything. *)
MatchesStringSelector(values, value) == values = {} \/ value \in values

Matches(s, e) ==
  /\ MatchesStringSelector(selector[s].ids, ProcOf[e])
  /\ MatchesStringSelector(selector[s].groups, GroupOf[ProcOf[e]])

(* start() enters the process into p.procs; it is never taken out again. *)
RegisterProc(p) ==
  /\ p \notin procs
  /\ procs' = procs \cup {p}
  /\ UNCHANGED <<subs, selector, channel, closed, ctx, watcher, emitters,
                 history, joined, got>>

Subscribe(s) ==
  /\ watcher[s] = "absent"
  /\ subs' = subs \cup {s}
  /\ watcher' = [watcher EXCEPT ![s] = "waiting"]
  /\ joined' = [joined EXCEPT ![s] = Len(history)]
  /\ UNCHANGED <<procs, selector, channel, closed, ctx, emitters, history, got>>

CancelSubscription(s) ==
  /\ ctx[s] = "live"
  /\ ctx' = [ctx EXCEPT ![s] = "cancelled"]
  /\ UNCHANGED <<procs, subs, selector, channel, closed, watcher, emitters,
                 history, joined, got>>

(* Faulty variants: the channel is not closed; it is closed first. *)
RemoveSubscription_Only(s) ==
  /\ watcher[s] = "waiting"
  /\ ctx[s] = "cancelled"
  /\ subs' = subs \ {s}
  /\ watcher' = [watcher EXCEPT ![s] = "ended"]
  /\ UNCHANGED <<procs, selector, channel, closed, ctx, emitters, history,
                 joined, got>>

CloseChannel_First(s) ==
  /\ watcher[s] = "waiting"
  /\ ctx[s] = "cancelled"
  /\ closed' = closed \cup {s}
  /\ UNCHANGED <<procs, subs, selector, channel, watcher, ctx, emitters, history,
                 joined, got>>

(* The watcher: removeSubscription under p.mu, then close(s.events). *)
RemoveSubscription(s) ==
  /\ watcher[s] = "waiting"
  /\ ctx[s] = "cancelled"
  /\ subs' = subs \ {s}
  /\ watcher' = [watcher EXCEPT ![s] = "removed"]
  /\ UNCHANGED <<procs, selector, channel, closed, ctx, emitters, history,
                 joined, got>>

CloseChannel(s) ==
  /\ watcher[s] = "removed"
  /\ closed' = closed \cup {s}
  /\ watcher' = [watcher EXCEPT ![s] = "ended"]
  /\ UNCHANGED <<procs, subs, selector, channel, ctx, emitters, history,
                 joined, got>>

(* processInfo finds the process; an unknown process has no events. *)
LookUp(e) ==
  /\ emitPc[e] = "idle"
  /\ ProcOf[e] \in procs
  /\ sent[e] < MaxEvents
  /\ emitPc' = [emitPc EXCEPT ![e] = "found"]
  /\ sent' = [sent EXCEPT ![e] = @ + 1]
  /\ UNCHANGED <<procs, subs, selector, channel, closed, ctx, watcher, history,
                 joined, got>>

(* Faulty variant: room is miscounted by one. *)
HasRoom_Early(s) == Len(channel[s]) + 1 < Capacity

HasRoom(s) == Len(channel[s]) < Capacity

(* Faulty variant: the selector is forgotten. *)
Broadcast_Unselected(e) ==
  LET receivers == {s \in subs : HasRoom(s)} IN
  /\ emitPc[e] = "found"
  /\ emitPc' = [emitPc EXCEPT ![e] = "idle"]
  /\ history' = Append(history, <<e, sent[e]>>)
  /\ channel' = [s \in Subs |-> IF s \in receivers
                                  THEN Append(channel[s], <<e, sent[e]>>)
                                  ELSE channel[s]]
  /\ got' = [s \in Subs |-> IF s \in receivers
                              THEN Append(got[s], Len(history) + 1)
                              ELSE got[s]]
  /\ UNCHANGED <<procs, subs, selector, closed, ctx, watcher, sent, joined>>

(* One send per selected subscription, each dropped when its channel is    *)
(* full, all under the lock.                                               *)
Broadcast(e) ==
  LET receivers == {s \in subs : Matches(s, e) /\ HasRoom(s)} IN
  /\ emitPc[e] = "found"
  /\ emitPc' = [emitPc EXCEPT ![e] = "idle"]
  /\ history' = Append(history, <<e, sent[e]>>)
  /\ channel' = [s \in Subs |-> IF s \in receivers
                                  THEN Append(channel[s], <<e, sent[e]>>)
                                  ELSE channel[s]]
  /\ got' = [s \in Subs |-> IF s \in receivers
                              THEN Append(got[s], Len(history) + 1)
                              ELSE got[s]]
  /\ UNCHANGED <<procs, subs, selector, closed, ctx, watcher, sent, joined>>

(* What was buffered can still be received after the channel is closed. *)
Receive(s) ==
  /\ channel[s] # << >>
  /\ channel' = [channel EXCEPT ![s] = Tail(@)]
  /\ UNCHANGED <<procs, subs, selector, closed, ctx, watcher, emitters, history,
                 joined, got>>

WatcherStep(s) == RemoveSubscription(s) \/ CloseChannel(s)
EmitterStep(e) == LookUp(e) \/ Broadcast(e)

BusNext ==
  \/ \E p \in Procs : RegisterProc(p)
  \/ \E s \in Subs : \/ Subscribe(s) \/ CancelSubscription(s)
                     \/ WatcherStep(s) \/ Receive(s)
  \/ \E e \in Emitters : EmitterStep(e)

BusSpec == BusInit /\ [][BusNext]_busVars

(* Goroutines of the bus go on.  Nothing is assumed of subscribers: they   *)
(* may stop receiving for ever.                                            *)
BusFairness ==
  /\ \A s \in Subs : WF_busVars(WatcherStep(s))
  /\ \A e \in Emitters : WF_busVars(Broadcast(e))

FairBusSpec == BusSpec /\ BusFairness

-----------------------------------------------------------------------------
(* A send on a closed channel panics: no subscription a broadcast can      *)
(* reach is closed, although the two are done by different goroutines and  *)
(* the channel is closed outside the lock.                                 *)
NoSendOnClosed == subs \cap closed = {}

(* The events of history a subscription selects, from joining it on. *)
Wanted(s) == {i \in (joined[s] + 1)..Len(history) : Matches(s, history[i][1])}

(* Every subscriber sees what it selected, nothing twice, nothing from     *)
(* before it subscribed, in the one order all subscribers share; what is   *)
(* in its channel is the end of what it ever got.                          *)
StreamsInOrder ==
  \A s \in Subs :
    /\ \A i \in 1..Len(got[s]) : got[s][i] \in Wanted(s)
    /\ \A i, j \in 1..Len(got[s]) : i < j => got[s][i] < got[s][j]
    /\ Len(channel[s]) <= Len(got[s])
    /\ \A i \in 1..Len(channel[s]) :
         channel[s][i] = history[got[s][Len(got[s]) - Len(channel[s]) + i]]

(* As long as no more events are selected than the channel has room for,   *)
(* a subscriber loses none, however slow it is.                            *)
FewEventsAreComplete ==
  \A s \in subs : Cardinality(Wanted(s)) <= Capacity =>
    Len(got[s]) = Cardinality(Wanted(s))

(* Cancelling the context of a subscription closes its channel, so that a  *)
(* subscriber that ranges over it comes to an end.                         *)
CancelCloses ==
  \A s \in Subs : (ctx[s] = "cancelled" /\ watcher[s] # "absent") ~> s \in closed

=============================================================================
