# A verification of fluxplane-system in TLA+

`fluxplane-system` is a Go library that stands between an agent and a machine:
processes, files, network, environment, host facts.  Most of it is thin code
over the operating system.  The part with hard behaviour is the process
manager `hostsystem.Process`: each process it starts is looked after by
several goroutines that share state with any number of callers and with the
operating system, and everything that happens is told to subscribers over an
event bus.  This project models that part first.

## The system: parts, state, operations

| part | state | operations | what is hard | what makes it correct |
|---|---|---|---|---|
| handle contract, `process.go` | what a handle has reported and answers | events, `Wait` | order of events and answers | one lifecycle, in order, one final answer |
| managed process, `hostsystem/process.go`, `process_unix.go` | request, three contexts, goroutines `start`, `monitor`, `wait`, two copiers of os/exec, `info`, `stdin`, `result`, `timedOut`; the process group | `Run`, `Start`, the signals, `Pause`, `Resume`, `Detach`, `CloseInput`, `Wait` | interleaving of goroutines, deadlines, children that outlive their leader | settled when done, no output lost before the exit, timeouts reported, the process ends when it must |
| event bus, `hostsystem/process.go` | `procs`, `subs`, a channel and a goroutine for each subscription | `subscribe`, `broadcast`, `close` | two critical sections per event, close outside the lock, full channels | no send on a closed channel, one order for all, emitters never block, cancelling closes |
| process capture, `process_capture.go` | its subscription, a collector goroutine, bounded buffers | `RunProcessCapture` | the order of cancel, drain and answer | complete up to the bound, only its own output, returns |
| registry and groups, `hostsystem/process.go` | `procs`, `groups`, labels | `Ensure`, `Restart`, `List`, the group's methods | check then act, members that come and go | one running process per label, a restart that comes back |
| process input, `hostsystem/process.go` | `stdin`, two mutexes | `Write`, `CloseInput` | a write abandoned by its caller | no write lost or half reported, no deadlock |
| HTTP retries, `httptransport` | attempt, waits | `RoundTrip` | cancellation against retry, widths of durations | bounded attempts, every discarded response closed |
| memory filesystem, `memsystem` | a map from path to node | the `FileSystem` interface | sequences of legal calls | the map stays a tree |
| mounted filesystem, `mountfs` | named roots, a paging offset | the same, mapped to roots | names that leave a root, access per root, paging | nothing outside its root, nothing written read-only |
| host filesystem, `hostsystem/filesystem.go`, `host_paths.go`, `paths.go`, `host_file_ops.go` | files of the machine | the same, over several system calls | what changes between two calls, errors half way | no replacement without leave, no file left behind |
| walks, `fs_helpers.go`, `internal/pathpattern` | the walk under way | `Walk`, `Glob`, pattern matching | the tree changes under the walk, limits | everything selected that stayed is found, nothing else |
| environment helpers, `env_helpers.go` | none | parsing, merging | quoting | agreement with a definition |
| file reads, `fs_helpers.go` | a copy of the file | `ReadFileLimit`, `ReadFileLines` | bounds at the end of a line or of the file | what was asked for, and a true flag |
| the rest: `systemkit`, `hostinfo`, `network.go`, `systemtest` | configuration | construction, one request, one lookup | little | little to say in a state machine |

The parts meet in three places.  `start` enters a process in `procs`, which is
what makes its events visible: `emit` goes through `broadcast`, which looks the
process up.  `wait` ends a process for everybody: it settles `info`, takes the
process out of its group, releases the timer, closes the input, emits `exited`
and closes `done`, in this order.  `RunProcessCapture` is a client of both: it
subscribes, starts, waits, cancels, drains.  The mounts and the walks are
clients of a base filesystem that others change meanwhile.

## Modules

| module | models | checked by | proofs |
|---|---|---|---|
| `ProcessContract` | what a handle promises, abstractly | through `ProcessInput` and `ManagedProcess` | `ProcessInput_proofs` |
| `ManagedProcess` | one managed process and its process group | `MCManagedProcess` | `ManagedProcess_proofs` |
| `ProcessInput` | the input of a process, over `ProcessContract` | `MCProcessInput` | `ProcessInput_proofs` |
| `ProcessRegistry` | `procs`, `groups`, `Ensure`, `Restart`, calls on groups | `MCProcessRegistry` | `ProcessRegistry_proofs` |
| `EventBus` | subscriptions and broadcasts | `MCEventBus` | `ProcessCapture_proofs` |
| `ProcessCapture` | `RunProcessCapture`, over `EventBus` | `MCProcessCapture` | `ProcessCapture_proofs` |
| `RetryTransport` | one round trip with its attempts and waits | `MCRetryTransport` | `RetryTransport_proofs` |
| `MemFileSystem` | `memsystem.FileSystem` | through the three below | `MemFileSystem_proofs` |
| `GoInt` | the sums of Go's `int` and `int64`, which wrap | through `FileReads` and `MountFS` | `MemClients_proofs` |
| `TreeWalk` | `Walk`, `Glob` and path patterns, over `MemFileSystem` | through `FileReads` | `MemClients_proofs` |
| `FileReads` | `ReadFileLimit`, `ReadFileLines`, over `TreeWalk` | `MCFileReads` | `MemClients_proofs` |
| `MountFS` | `mountfs.FileSystem`, over `MemFileSystem` | `MCMountFS` | `MemClients_proofs` |
| `HostFileSystem` | the host filesystem's operations as system calls | `MCHostFileSystem` | `HostFileSystem_proofs` |

A definition with a suffix, as in `Leave_Open`, stands before the one it is a
faulty variant of; no specification uses it.

### ManagedProcess

Every goroutine has a program counter (`startPc`, `monitorPc`, `waitPc`,
`copier`, `callPc`) and one action is what a goroutine does between two points
where another can come in: a critical section, a system call, a channel
operation.  `Launch` is `close(started)` with the two `go` statements, after
which `monitor` and `wait` exist.  A `select` with several ready arms is one
action per arm; `MonitorSeesBase` and `MonitorAsksDetached` are two because
`Detach` can come between them, as are `MonitorSeesDeadline`,
`MonitorMarksTimeout` and `MonitorKills` because `wait` can.

The operating system is a process group of a leader and members it may fork.
A member is running, stopped or gone, may be deaf to the polite signals, and
keeps a polite signal pending while it is stopped.  A signal to the group
reaches all its members (`Setpgid`, `kill(-pid)`).  A member inherits the output
pipes of the one that forked it (`holders`) and holds each until it ends or lets
go of it (`LetGo`), as a child started by `cmd >/dev/null 2>&1 &` does; a request
names the members that may (`redirects`).  `cmd.Wait` reaps the leader and joins
the copiers, so it returns when the leader is gone, nobody holds a pipe any more
and the pipes are drained.  A member that let go may outlive that: `done` closes
while it lives, nobody watches its deadline from then on, and a signal that
comes late still reaches it.  So `DoneIsSettled` speaks of the leader and of the
streams, `PausedMatchesGroup` of processes that run, and `TimeoutReported` of the
members `cmd.Wait` waits for (`Awaited`, remembered in `overran`): the deadline
may pass between the report and the release of the timer and kill a child that
let go, and no timeout is reported.  `fatal` is history: a `Stop` or a `Kill` was
called.  A descendant that leaves the group (its own `setsid`) is not modelled.

Abstracted: the command and its environment, exit codes beyond ok, failed and
signalled, event payloads and times.  `log` is the sequence of the kinds of
events emitted; how they travel is `EventBus`.

### EventBus

`emit` is two critical sections of `p.mu`: `LookUp`, and `Broadcast`, which
sends to every selected subscription that has room.  Closing a subscription is
`RemoveSubscription` under the lock and then `CloseChannel` outside it.  A
subscriber may stop receiving at any time.  Events are an emitter with a
number, `history` is the order of the broadcasts and `got` what entered each
channel: both are history variables, nothing depends on them.

### ProcessCapture

Extends `EventBus` with the helper's goroutine, its collector, and what
`ManagedProcess` shows of a process's events (announced by `start`, output from
the copiers, the exit when they have finished).  In `capture.cfg` another
process emits in the same group.

### ProcessInput

Extends `ProcessContract`, so it knows of the process what any client of the
handle knows, with the callers of `Write` and `CloseInput`, the goroutine each
`Write` leaves its bytes to, the pipe and the two ends of it.  `p.writeMu` is
held from `Lock` to the end of the goroutine; `p.inputMu` never over more than
one step.  Our end of the pipe (`file`) may be closed by os/exec while `p.stdin`
still refers to it.  `GiveUp` and `Leave` are two steps, as `select` and
`closeInput` are.  `os.File.Close` waits for a write that is in the pipe, so
closing is one step after which nothing enters.  `fed` and `told` are history.

### ProcessRegistry

Several processes of which only the end is modelled, in the order
`ManagedProcess` has in detail.  A call is what it does under `p.mu`, its
signals, its waits.  `Ensure` looks in one critical section and starts after
it; a group's call takes its members at the beginning; `Restart` stops, waits
with a time limit, kills, waits without one and starts.  `crossed` remembers
whether two calls that may start a label ran at once: the code promises one
process for a label only to callers that do not.

### RetryTransport

One `RoundTrip` over a transport, a context and a body that are the
environment.  A duration is a signed number of `Width` bits, and the waits are
computed as the code computes them: `Wrap` where it multiplies, `FromFloat`
where it converts, the seconds of a `Retry-After` among them.  `open`
is the set of attempts whose response still has its body open, `torn` that an attempt was sent with a body already read.  `Decode`
is the decompressing transport around it; decoders are libraries and either
open or refuse.

### ProcessContract

`ManagedProcess` implements it under the mapping at the end of that module
(`Phase`, `Answer`), and `ProcessInput` runs on it: the contract is what any
client of a handle may rely on.  `LifecycleInOrder`, what it comes to for the
history of events, is proved and needs no run of its own.

### MemFileSystem

`nodes` is the map of the code, from a path (the sequence of its names, the
root the empty one) to a directory or a file.  Each operation holds `f.mu` from
beginning to end and is one action that takes its arguments, checks them in the
code's order and either refuses, possibly after `ensureParents` has written
some of the parents, or stores.  `Stat`, `ReadFile` and `ReadDir` change
nothing: they are the operators `Exists`, `IsFile` and `Listing` the properties
are about.  Permissions of files, modification times and cancelled contexts are
left out, and so is the file handle of `Open`, which is a copy.  Permissions of
directories are kept, one of `Modes`: `ensureParents` gives them anew to every
directory above the path, those that were there included, and a call that then
meets a file among the parents fails without taking that back.  `FilesAreKept`
allows a failed call exactly this (`ParentsReset`).  `last` is a
history variable: the call, the paths it was given leave to replace, and
whether it succeeded.

The code keeps its tree whole only for callers that keep away from some calls,
named by `Avoids`: writing or renaming over a directory, renaming a directory
or the root, renaming an entry to its own name, making directories where there
is a file.  All runs avoid these, because the code does otherwise than a tree
would: `Rename` moves one node and what lay below a directory stays where it
was; an entry renamed to its own name with `Overwrite` is entered and then
deleted; `MkdirAll` puts a directory where a file was, and gives the
directories on the way, the root's included, the new mode.

### TreeWalk and FileReads

`fs.WalkDir` lists a directory when it comes to it and looks at its entries one
at a time, so `List` and `Look` are steps and other callers' operations
(`FileStep`) come between them.  `pending` is what is left of the listings of
the directories the walk is in.  The order of a listing is left open, and so
the entries found are a set.  Patterns are sequences of elements; `Compile`,
its braces and `MatchSegments` are the code's, and `Fits` is the definition they
are checked against.  `stable` and `seen` are history: what was there all
through the walk, and what was there at some time.  A pattern is looked through
for `..` before its braces are expanded, so one within braces stays.

A file of the memory filesystem is read from a copy, so reads need no
interleaving with writers: what remains is lines, windows and bounds, one step
per line because the context is looked at for each.  The bound plus one byte
that `ReadFileLimit` asks its reader for is computed in 64 bits (`Plus`), and so
the greatest bound reads nothing (`Limited`).

### MountFS

A visible name resolves through the table of roots to a path of the base, which
is a `MemFileSystem` that others may use directly.  `roots` is what `New` made
of the table; names within a root that lead out of it, access, and the virtual
root with its paging are the code's; the end of a page is a sum of `int`s
(`PageEnd`), and one that wraps makes the handle panic (`read.panic`).  Facts the model shows and the properties
allow: the root of a mount may itself be removed or replaced through it; an
entry of the base whose name begins with `@` is listed but cannot be reached;
nothing is listed if the primary root is no directory; a call within a root
resets the permissions of the directories that lead to it, those outside every
read-write root included (`OutsideIsKept` allows that for these and no others).

### HostFileSystem

A call is the system calls it makes, and those of other callers come between
them: `Look` (Lstat), `Parents` (MkdirAll), `Open`, `Write`, `Rename`, and after
a failure `Undo`.  A file that is open keeps its inode when its name goes.
`maker`, `expected`, `late` and `moved` are history.  Facts: `ResolveCreate`
needs the parent to exist, so the `MkdirAll` of `HostScratchDir.WriteFile` never
has a parent to create; `CopyRegularFile` with `Overwrite` onto another name of
its own source would truncate it first, links are not modelled.

## Runs

| run | instance | shows |
|---|---|---|
| `process` | one caller with two calls on a leader and its child, which may let go of its output; or two symmetric callers with one call each on a leader that may or may not | the five safety properties, and `ImplementsContract` |
| `process_ends` | leader and child, one caller that kills, pauses and waits, or detaches and pauses, fairness | `KillEnds`, `CancelEnds`, `DeadlineEnds`, `NobodyLeftBehind` |
| `process_unbounded` | the same with `Stop`, expected to fail | finding 1 |
| `input` | two writers with three calls between them, writes larger than the pipe, fairness | `InputIsWhole`, `WritesEnd` |
| `registry` | three processes, two callers with three calls between them, fairness | groups, labels, restarts, calls on groups |
| `registry_restart` | a process that only a signal ends with an error, expected to fail | finding 2 |
| `bus` | two processes, two emitters, two subscriptions, channels of two events, fairness | the four properties of `EventBus` |
| `capture` | one stream, a neighbour in the group, a channel of four events, a bound at the end of a chunk, fairness | `CaptureIsExact`, `CaptureReturns` |
| `retry` | three configurations, durations of eight bits, fairness | bodies, attempts, answers, waits, return |
| `files` | five paths on three levels, ten walks and globs with up to two changes by others during each, fifty-two reads, two permissions of directories, ints up to 4 | the tree, walks, globs, reads |
| `mounts` | four tables of roots within and beside each other over two levels, and one that is refused; pages up to the greatest int, two permissions of directories | what calls through mounts may reach, names, paging |
| `hostfs` | two symmetric callers with four calls between them out of fifteen, three inodes | what system calls of others can do to a call |

Bounds.  `MaxChunks`, `MaxCalls`, `MaxEvents`, `MaxOutputs`, `MaxProcs`,
`MaxInodes` and `MaxChanges` bound what the environment does, never what the
code does.  One chunk per stream is enough for a copier to hold a chunk while
another goroutine acts; two callers with one call each, or one with two, reach
every pair of calls.  A request of `ManagedProcess` carries its bounds with it:
its `script` says what each caller may call first, second and so on, `forks`
whether the program has a child, and `redirects` which members may let go of
their streams; `OneOrTwoCallers` of `MCManagedProcess` are the
requests of both kinds.  A pipe of one byte under writes of two makes a writer wait with half of
its bytes delivered, and a second writer behind it; the third call finds a
goroutine that an earlier one left.  Three processes let a label end, start
again and be restarted.  Channels hold two to four events instead of 128 so
that they fill up.  Eight bits with a second of ten units let an exponential
wait overflow, and a `Retry-After` to a negative number and to a short one.  Three levels of paths are what it takes for
`ensureParents` to write one parent and then to meet a file; one change during
a walk can already come between any listing and any look, and a second can take
it back.  With a greatest int of 4 the bound of a read and the end of a page
overflow on files and directories of three entries.  `VIEW` leaves out
history that no property of the state and no action reads (`last`, `via`).
Symmetry is used only in `process` and `hostfs`, whose properties are safety
properties and treat callers alike.  Deadlock is not checked where a process, a
bus or a helper really comes to rest.

A type invariant is a conjunct of one property of each run; those of
`ManagedProcess` and `EventBus` are proved and not run.

Fairness.  Every goroutine that can go on goes on and timers fire
(`ManagedProcess`: `WF_vars` of `StartStep`, `MonitorStep`, `WaitStep`,
`DeadlinePasses`, each copier, each call under way; `ProcessInput`: the
goroutine of each write, each call, start and wait; `ProcessRegistry`: each
`wait()`, each call, the five seconds of `Restart`): this is what the Go
scheduler and runtime give.  `RetryTransport` adds that the wrapped transport
answers.  Nothing is assumed of a program's own exit or reading, of new calls,
of a caller's context, nor of subscribers.  `CancelEnds` and `DeadlineEnds` say
what ends a process that obeys; a stopped process keeps a SIGTERM pending, as
the code lets it, and the run has no `Stop`, because of finding 1.  The
filesystems have no fairness: nothing of theirs waits.

Every property has a mutant, a faulty variant of one definition, under which
TLC finds the property violated in the same configuration.

## Findings

1. **A deadline is not enforced once the process has been asked to end.**
   `monitor()` returns after it has sent SIGTERM, for `Stop`
   (`hostsystem/process.go:634-636`) or for a cancelled context
   (`hostsystem/process.go:643-647`); nobody watches `timeoutCtx` any more.  A
   process that ignores SIGTERM, or is paused, outlives its `Timeout`, against
   "ProcessRequest describes one bounded process execution" (`process.go:88`).
   Run `process_unbounded`.
2. **`Restart` of a running process does not restart it.**  It takes the error
   of `Wait` for a failure to stop (`hostsystem/process.go:499-503`), and a
   process that a signal ended always has one: only a process that answers
   SIGTERM by exiting with status 0 is started again.  Run `registry_restart`.

Known and without a run: a capture loses output without a flag when its channel
overflows (`hostsystem/process.go:235-238`; `CaptureIsExact` speaks of runs that
fit), and the calls on a memory filesystem that `Avoids` names.  A window of
lines that fills the bound with the file's last line is reported as truncated
although nothing is missing (`fs_helpers.go:108-110`); `ReadIsRight` allows
exactly that.  `ReadFileLimit` with the greatest bound answers nothing, without
the flag (`fs_helpers.go:65`), which `ReadIsRight` states; `systemkit/http.go:247`
adds one to a bound in the same way and is not modelled.  After a first page the
virtual root panics when asked for a page so long that its end is no `int`
(`mountfs/mountfs.go:473`, `:477`); `PagingIsWhole` says that nothing else does.
A `Retry-After` of more than 2^63 - 1 nanoseconds is not honoured: its seconds are
multiplied before anything bounds the product (`httptransport/http_client.go:275`),
which wraps to a negative duration, and the server is asked again at once, or to a
short one, where the greatest wait is due; `WaitsAreRight` says exactly what wait
is left.

## Proofs

Checked by TLAPS for every value of the constants that satisfies the named
assumptions of the modules: any number of callers, processes, subscriptions and
calls, any sizes and bounds.  Every invariant below is inductive: one lemma or
step says that it holds initially, one that every action keeps it, and the
theorem follows with temporal logic.

**Contract and managed process.**

- `LogTellsLifecycle` (`ProcessInput_proofs`): by an invariant that says what of
  the log each phase allows.
- `TypeCorrect`, `SettledWhenDone`, `OutputComesFirst`, `TimeoutsAreReported`,
  `MonitorActsJustified` (`ManagedProcess_proofs`): all follow from one
  invariant `Inv`.  The properties alone are not inductive.  That the
  leader is gone and nobody holds a stream when `done` closes holds because of
  what had to be true when `cmd.Wait` returned (`WaitInv`), which rests on a
  copier at the end of its stream knowing that nobody holds it (`GroupInv`).
  That is stable because no signal brings a member back (`GroupMoves`,
  `GroupShrinks`) and only a holder passes a stream on.  That a process whose
  leader or whose last holder the deadline killed is reported as timed out rests
  on the mark being set before the kill (`TimeoutInv`) and on the kill finding
  none of these alive once `wait` has read it.
- `ContractImplemented`: the initial states and every step of `ManagedProcess`
  map to `ProcessContract`, using `Inv`.
- `InfoTellsPaused`: while it runs, `Info` agrees with the group, on the condition `OneRecorder`
  that no two callers are between the signal of a `Pause` or `Resume` and its
  record.  The code does not ensure that: two callers may signal in one order
  and record in the other.  The run has one caller, for whom the condition
  always holds; the theorem allows any number as long as these two calls do not
  meet, with all else happening meanwhile.

**Input.**  `InputKeepsContract` shows that every step of `ProcessInput` is a
step of the contract or leaves it alone, so `LogTellsLifecycle` holds there.
`InputStaysWhole` uses `InputInv`: `p.writeMu` admits one goroutine to the pipe
(`OneWriter`), which goes on where the pipe ends (`Pipe`); a goroutine has
counted what entered for it (`Goroutines`); and whoever was told an answer has
either ended its goroutine or closed the pipe before (`Told`), which is what
makes the count it was told final.

**Bus and capture** (`ProcessCapture_proofs`).

- `BusTypeCorrect`, `SendsAreSafe`, `OneOrderForAll`:
  `WatcherInv` ties a subscription's place, registered or closed, to the one
  goroutine that moves it, so that no registered channel is closed.  The order
  is kept because a broadcast appends to `history` and to what a subscription
  got in one critical section, and a channel always holds the end of what it
  got.
- `SlowSubscribersLoseNothing`: the property is inductive given that invariant;
  a channel drops an event only when it holds its full size of selected ones,
  and then one more has been selected than fits.
- `CaptureUsesTheBus`: every step of the capture is a
  step of `BusSpec` or leaves the bus alone, so what is proved of the bus holds
  of the capture.  `AnswerIsExact` counts positions in `history`: what an emitter
  has sent is at its positions (`SentInv`), the collector has kept those it took
  out of the channel (`CollectInv`), and when the helper answers the channel is
  closed and drained, so these are all that entered.

**Registry and groups** (`ProcessRegistry_proofs`).  `GroupsStayRight`,
`EnsureStartsOne`, `RestartReplaces` and `GroupCallsAnswerForAll` follow from one
`Inv`: a process that was found ended cannot come back (`ProcInv`), a process a
caller has started is nobody else's until it registers it (`CallInv`), a call on
a group has done its part for the members it has gone past (`LoopInv`), and for
a label that was only ensured, by one caller at a time, either one caller is
about to start it or one process runs under it (`LabelInv`).  The last is needed
because `Ensure` looks and starts in two critical sections.

**Retries** (`RetryTransport_proofs`).  `NoBodyLeaks`, `RepeatsAreWhole`,
`LastAnswerWins` and `WaitsWithinBounds`: the loop sets its few variables at one
point and uses them at another, and `Points` says what each holds between;
`Cancelled` where the loop can be once an attempt has begun too late.  The waits
are modelled with their width and may overflow; the bounds are proved for every
width, from lemmas on powers of two, and that an advice is honoured for those
that fit a duration of that width.  Of the others it is proved that the wait is
for the remainder of the product that two's complement leaves (`WrapLeaves`).

**Host filesystem** (`HostFileSystem_proofs`).  `WritesStayWhole`,
`FailedTempsGo` and `FilesKeepTheirNames` hold for any number of calls whose
system calls interleave.  `TreeInv`: every name stands in directories up to the
root (at every depth, where `WritesAreWhole` looks at the parent only: a rename
moves whole subtrees, and the lemmas on `Landing` say where they come down), and
a file has one name and a maker.  `PlaceOf`, `TempOf` and `LateOf` say what a
caller knows at each of its steps, and `WriteInv` that whoever writes a file
alone found it empty.

**Memory filesystem** (`MemFileSystem_proofs`).  `ListingsStayRight` and
`FilesStayKept`, under `Careful`: the callers avoid all five uses named above, as
in both runs; without it both properties are false.  A failed call has changed
nothing, or the permissions of directories on the way to a file and nothing
else.  `Whole` says that every
path of the map has directories for all its prefixes; `EnterDirs`, `PutWhole` and
`DropWhole` are the three ways an operation changes the map, and each leads from
a whole map to a whole one.

The clients of the memory filesystem share one module of proofs,
`MemClients_proofs`, because they share its lemmas on paths, prefixes and cuts.

**Mounted filesystem** (`MemClients_proofs`), under `Careful` too.  A call through
the mounts is a refusal or a call of the base on a path within a read-write root
(`WritableIs`, `CallsBaseDone`), so `MountsKeepTheBase`: what is proved of the
memory filesystem stays true when it is used through mounts as well.
`MountsSpareTheRest`: each way an operation changes the map spares what is
outside (`SparedBy`), because a parent it makes or resets on its way to a path
within a root is within that root or leads to it (`OnTheWay`).  `TempNamesWork`: the name
a root gives to a path within it resolves to that path.  `VirtualRootStaysRight`
and `PagesStayWhole` need `MountInv`: the map is finite, the table is the one
`New` checked (`TableInv`), and an open directory holds its entries in the order
of their names (`PagesInv`), which `SortedIs` gets from numbering each entry by
how many come no later.  `PageEnds` says of the wrapped sum that it is the end of
the page, the end of the listing, or below the offset; the last is the panic.

**Walks and globs** (`MemClients_proofs`), under `Careful`: a walk finds what is
below a directory by going down through directories, so the map must stay whole
while it walks.  `ReadsKeepTheFiles`: reads use a walk as `WalkSpec` describes it
(`ReadsWalk`) and walks use the filesystem as `Spec` does, so `ListingAgrees` and
`FilesAreKept` hold of them.  `WalksAreRight` needs `WalkInv`.  `CoverInv` says
that an entry which stays and was not found yet is still ahead: it waits in a
listing, or lies below a directory that waits or is listed next.  `FrontierInv`
says that nothing is met twice although others change the tree meanwhile: no
waiting entry is a prefix of another one, of what was found, or of the directory
listed next.  `HistoryInv` and `FoundInv` relate these to `stable` and `seen`, and
`DoneInv` says what a finished walk knows.  `GlobsAreRight` takes from `DoneInv`
that the matches are those of a complete walk, or as many as the limit allows,
and from `MatchMeansFits` that a compiled pattern matches what it means: the
recursion of `matchSegments` is compared with the definition by cuts from the
end of the pattern backwards, by an induction that speaks of a set of numbers
(`AllNumbers`) because the library's speaks of an operator.  `CleanIs` treats
`cleanFSName` in the same way.

**Reads** (`MemClients_proofs`).  `ReadsAreRight` needs no `Careful`: a read works
on a copy.  `PlaceInv` says that the place of the reader is the beginning of a
line, that the number it keeps is that line's, and that what it has taken is all
of the window that lies before the place; `NextLineIs` says what one step moves,
`WindowIs` that the window of the definition is one slice, and `PlacesCount` how
long it is.  `LimitedIs` says what the limited reader passes on, for every bound
up to the greatest, which it treats as the code does.

Assumptions on the constants: paths are sequences of strings and closed under
prefixes (`HostAssumption`, `PathsAssumption`), the names tried for a temporary
file are a sequence of strings (`NamesAssumption`); for mounts, that roots are
what `New` accepts with one `@` element for each name (`RootsAssumption`), that
entries of the base and names for temporary files are elements `fs.ValidPath`
accepts (`ElementsAssumption`), that all names have a place in the order of
strings (`CollationAssumption`), and that pages are of a size between 0 and the
greatest int (`PagesAssumption`); for reads, that the contents of a file are a
sequence shorter than the greatest int, whose bytes are named by strings
(`BytesAssumption`); and that the greatest int is a natural number
(`MaxIntAssumption`).  The others are types, and bounds
that are positive.

**Model-checked only**: liveness, which is outside the prover's reach: `KillEnds`,
`CancelEnds`, `DeadlineEnds`, `NobodyLeftBehind`, `CancelCloses`, `CaptureReturns`,
`WritesEnd`, `RestartComesBack` and `RoundTripReturns`.
Every other property of a passing run is stated by a theorem.

## Plan

1. Done: the modules above, and the proofs of every safety property their runs
   check.
2. The environment helpers against reference definitions; the bounds of
   `systemkit`'s HTTP requests.

The project keeps to a dozen runs, each of which asks several related
questions of one instance.

## Not modelled

Windows process control, DNS and dialling, TLS, decompression streams, host
facts, option plumbing and test doubles: no state of their own, or behaviour
that belongs to a library.  The environment helpers parse and merge and keep no
state.  Reuse of process numbers by the operating system and descendants that
leave their group are outside the model of the group; symbolic links,
permissions and other volumes outside that of the host's files.  A group's
`Write` is one `Write` after the other on its members.
