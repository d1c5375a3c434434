# A formal model of xud-docker-api

xud-docker-api (the "proxy") runs beside the containers of an ExchangeUnion
node.  It watches the Docker engine, keeps gRPC connections to lnd, xud and
boltz, follows logs, talks to launchers through a websocket, and answers REST
requests.  This directory holds TLA+ models of its concurrent core, the TLC
configurations that check them, and proofs checked by TLAPS.

Paths are relative to the repository; `core/` stands for `service/core/`.

## 1. The system

| component | state | operations | talks to |
|---|---|---|---|
| Service manager (`service/manager.go`) | `services`, `listeners`, the event loop | create services, dispatch Docker events, collect the status report, close | Docker engine, services |
| Container cache (`core/single_container_service.go`) | `container` with `mutex` and two condition variables, per service | `initContainer`, `OnEvent`, `setContainer`, `WaitContainer[Running]`, `GetLogs`, `FollowLogs[2]`, `Exec1` | Docker engine; used by all services |
| Status functions (`service/*/*.go`) | none | `GetStatus` | cache, lnd/xud clients, JSON-RPC, `wrapper` commands |
| Launcher agent (`service/launcher.go`, stream in `service/api.go`) | `listeners`, `statusHistory`, `state` | tail the log, emit statuses, subscribe, cancel | HTTP clients of the stream |
| Launcher registry (`launcher/ws.go`) | `launchers`; `counter` and `requests` of each | attach, call, listen, remove | websocket launchers, API requests |
| gRPC connections (`rpc/grpc.go`) | `conn`, `client`, `mutex` | `Open`, `Update`, `Close`, `GetClient` | lnd, xud, boltz |
| Log watcher (`service/lnd/logwatcher.go`) | `neutrinoSyncing` | follow the log, parse, reset | cache, status of lnd |
| Console (`cmd/proxy/console.go`, disconnect in `socketio.go`) | `consoleMap`, the file `init.bash`, shells, input events | create, start, resize, stop, disconnect | socket.io clients, shells |
| REST handlers (`service/{xud,boltz,lnd}/api.go`, `rpc.go`) | the file `.default-password` | one request each | gRPC clients |

Interactions.  The event loop of the manager calls `OnEvent` of a service,
which inspects the container again and stores the result; storing wakes the
callers of `WaitContainerRunning`, among them the log follower of each lnd.  The
status report starts one goroutine per service; each reads the cached container
and the state of the launcher agent and then asks the program in the container.
`cmd/proxy/main.go` defers `manager.Close()` inside the function that creates
the manager, so the gRPC connections are closed once while they are being
opened.

What is hard: five parts share memory between goroutines, three of them
(launcher agent, launcher registry, console) without any lock; inspections are
made outside the mutex and stored later; subscriptions have gaps; most waits
have no deadline.  `PROJECT.json` lists each hazard with its line.

## 2. Modules

| module | models | kind |
|---|---|---|
| `DockerEngine` | containers, event stream | external, from its use in `manager.go` and `core/` |
| `SingleContainerService` | the cache and its three parties | extends `DockerEngine` |
| `ServiceManager` | the event loop, composed with the two above | specification |
| `ServiceManagerProofs` | theorems about it | proofs |
| `GoSlice` | slices over shared arrays: append in place, removal by moving down | external (the Go language) |
| `LauncherAgent`, `LauncherAgentProofs` | emitter, requests for the stream | specification, proofs |
| `StatusStream` | what the stream promises | abstract specification, implemented by `LauncherAgent` |
| `LauncherRegistry`, `LauncherRegistryProofs` | attachment, calls, `Listen` | specification, proofs |
| `GrpcConn`, `GrpcConnProofs` | connections and `manager.Close` | specification, proofs |
| `InspectedCache` | what a service promises of its cache: from older states to newer ones | abstract specification, implemented by `ServiceManager`, used by `LogWatcher` |
| `RestApi`, `RestApiProofs` | the handlers and the calls of the clients, composed with `GrpcConn` | specification, proofs |
| `LogWatcher`, `LogWatcherProofs` | `Start` on top of `FollowLogs2` | specification, proofs |
| `Console`, `ConsoleProofs` | the web console and its shells | specification, proofs |
| `ServiceStatus` | the status functions, as operators | pure definitions |
| `StatusReport`, `StatusReportProofs` | `Manager.GetStatus`, and the status of one service, over those functions | specification, proofs |
| `MC*` | instances for TLC | |

Operators commented `Mutant of X` are plausible wrong versions of `X`; no
specification uses them.  Replacing `X` by one of them must break a property,
which shows that the property depends on that piece of code.

### How the state corresponds to the code

* A critical section of a `sync.Mutex` is one step.  An access to shared memory
  that is not locked is a step of its own: `x = append(x, y)` and `x += 1` are a
  read and a write with anything in between.
* Actions carry the names of the functions they model, or of what they do, with
  a `pc`-like field `at` that says where a goroutine is.
* A snapshot of a container carries `rev`, the number of the change that made
  it, so that old and new inspections can be told apart.  `clock` counts changes.
* Auxiliary variables (marked so) are read by no action: `since`, `initAt`,
  `lapsed`; `raced`, `skipped`, `doubled`; `torn`, `collided`; `before`, `withdrawn`, `overlapped`;
  `ran`; `strays`, `crossed`, `disturbed`; `removeFailed`.  They record the
  excuse in the name of which a property makes an exception.  `changes` only bounds a model.

**ServiceManager.**  A container is `none`, `created`, `running` or `exited`.
`InitInspect`/`InitSet` are the two halves of `initContainer`,
`OnEventInspect`/`OnEventSet` those of `OnEvent`; every inspection may fail.
`TakeEvent`, `Dispatch`, `Discard`, `ListenerStop` are the `select` loop;
`Targets` is `id2name` with the lookup in `listeners`, or the comparison of
cached IDs for a destroy.  The loop is busy while `OnEvent` runs.  `Cache(n)` is
`InspectedCache` with the `rev` of the container and of its cached inspection.

**LauncherAgent.**  A status is known by its position in the history.  The
emitter appends, reads the slice header once, and sends element by element,
reading each from the shared array at that moment.  A request appends its
channel (`Subscribe`, `AppendListener`), copies the history, writes it (`Replay`,
up to its first Done), then receives; at a Done it removes its channel
in three steps: it looks for it (`FindListener`), reads the slice header and moves
elements, also under the emitter (`MoveListeners`), and writes the header
(`StoreListeners`); if the slice has become shorter in the meantime, the removal may
panic, and the HTTP server recovers.  A cell that no listener was stored in holds the
nil channel, on which the emitter would wait for ever.

Two things can go wrong and are kept apart.  Two updates (an append or a removal)
*overlap* when one of them writes over what the other read or is about to write;
`raced` says that this has happened, and nothing else sets it.  A single update that
overlaps with no other can still meet an emission: the emitter ranges over a header
that it read before, so a removal may move a listener to a cell it has visited, which
then loses the status (`Lost`, kept in `skipped`), while the last cell keeps its content,
so that a listener is in two cells and gets the status twice (`Twice`, kept in
`doubled`).  An append that reuses the array after a removal overwrites the last
cell, with the same effect as `Lost`.  With three viewers, one that leaves at its Done
while the emitter is still sending it to the others is enough.

A client that stops reading blocks its handler (`Stall`); one that leaves does not,
for a failing write is ignored and the handler drains its channel until a Done.

**LauncherRegistry.**  `GetInfo` and `UpdateBackup` have the same control and
are one `Call`.  A send on a nil channel never ends and one on a closed channel
panics.  `Listen` is a goroutine of its own, so a panic there ends the process.
A response remembers which call it answers (`to`), which the code cannot see.
`collided` says that a call was given a number while another one used it, that is
(`Users`), had sent its message and not returned, or had its message or its answer
under way.  The loop that removes a launcher ranges over the slice that it has
evaluated once, and goes on after a removal (`SearchAfter`); a removal reads the
header and moves elements (`MoveLaunchers`), then writes the header
(`StoreLaunchers`).  `torn` says that two updates of the slice overlapped.
`requests <- LauncherRequest` is not modelled: it is reached only by a message
that is no JSON object of the shape of a `Response`, which no launcher sends.

**GrpcConn.**  A connection is known by the `Open` that dialed it.  `up` is what
was dialed and not closed.  `Update` is called nowhere in the program; it is
modelled because it is exported and shares the mutex.

**LogWatcher.**  The container starts and stops by turns, so that its states are
numbers (odd ones run) and a run is two of them; the cache moves over them by
`Learn` of `InspectedCache`, which `ServiceManager` implements as long as
`initContainer` does not interfere.  A stream ends with the run (`TakeEOF`) or breaks
at any moment while the container runs (`StreamBreaks`); both read as the same EOF
line.  The watcher handles a line assignment by assignment.

**RestApi.**  An instance of `GrpcConn` opens and closes the connections while
requests use them.  The handlers differ in control only: `plain`, `checked` (a
bad parameter is answered 400), `bound` (a bad body is answered 400, and the
handler goes on) and `changepass`.  A request takes the client of its connection
(`TakeClient`; boltz panics on none), the server may carry out the call (`Serve`),
also after the caller gave up, and the call returns or fails.  `status` is the
code of the first answer and `bodies` counts the answers that were written.

**Console.**  `consoleMap` holds the owner of each entry.  A write of it is two
steps (`BeginCreate`/`Insert`, `BeginStop`/`Delete`, `FindIds`/`RemoveId`), and an
access in between may be found by the runtime (`DetectRace`).  A start works on a
copy of the entry; its steps are those on the shared file (`CreateFile`,
`WriteFile`), the shell (`Spawn`) and the events (`Bind`).  A shell reads the file
when it gets to it (`Boot`).  From go-socket.io we take that the events of one
connection are handled one after the other, that the disconnect handler may run
beside them, and that registering a handler for an event replaces the old one.

**StatusReport.**  The sets of answers in `ServiceStatus` range over what a
program can say; texts are abstracted to what decides a status.  Where a
status function dereferences what an answer lacks (parts of xud's, a part asked for by
connext, the numbers of bitcoind's), it panics.  `BeginOne` is the
request for one service: it runs the function itself, so that a panic is answered
500 (`recovered`), where in a goroutine of the report it ends the process.

## 3. Runs

Deadlock is not checked anywhere: the proxy is a daemon that rests once the
bounded inputs (changes, statuses, calls) are used up.

| run | instance | shows |
|---|---|---|
| `ServiceManager_one` | 1 service, 2 callers, 4 changes | `IInv`, `NoLostWakeup`, `CacheAgrees`, `CacheAdvances`, `NoWaitForever` |
| `ServiceManager_destroy` | 1 service, 4 changes | `RunningIsRunning` is violated |
| `LauncherAgent` | 3 clients, channels of 1, 2 statuses | `InOrder`, `NothingMissed`, `NoGap`, `OneLost`, `Implements` |
| `LauncherAgent_leave` | 3 clients, two of which listen already, 2 statuses | `EmitterReturns`, `StreamsEnd` |
| `LauncherRegistry` | 3 launchers, or 3 calls to one, counter modulo 2 | `ListedIsListening`, `OwnAnswer`, `CrashNeedsRace`, `StuckBeforeRegistered`, `WaitingReturns` |
| `LauncherRegistry_removed` | 2 launchers | `EndedIsRemoved` is violated |
| `LauncherRegistry_request` | 1 launcher, 1 call | `RequestIsNoAnswer` is violated |
| `GrpcConn` | boltz: 2 connections, one Update each | `IInv`, `ClientIsUp`, `NoLeak`, `CloseCloses`, `ConnectedUnlessWithdrawn` |
| `LogWatcher` | 2 runs, 3 lines, heights 1 and 2 | `ProgressOfStream`, `OneRunPerStream`, `CatchesUp` |
| `StatusReport` | geth and connext; xud and lndbtc; bitcoind, arby and proxy; 1 change | `CompleteReport`, `ReportedWasRunning`, `SyncingIsBehind`, `Returns` |
| `Console` | 2 connections, 2 consoles, 2 starts | `EntryIsOwned`, `ScriptIsComplete`, `InputToLatest` |
| `RestApi` | 2 requests, xud and one connection of boltz | `OutcomeTold`, `DefaultFileIsTrue` |

Why the bounds are enough.  Four changes take a container through created, running,
exited and running again, or gone and re-created; two callers on one condition
variable are what a broadcast needs to differ from a signal.  Two clients are needed
for updates that overlap, and three for a removal that makes the emitter skip one
listener and send twice to another; one slot makes every second status block the
emitter.  `LauncherAgent` is constrained to clients that do not stall (`NoStall`): for
what may never happen, a client that has stalled is one that takes no step, and such
behaviours are among those explored.  `LauncherAgent_leave` starts where two clients
have subscribed before the first status, a state that `Init` reaches (`ListeningInit`
spells it out); from `Init` three clients are too many for a check of liveness.
`LauncherRegistry` takes launchers and calls in the order of their names, as they are
interchangeable, and several of the ones or of the others (`Scenario` in
`MCLauncherRegistry`): three launchers leave two in the slice around one that is
removed, and only launchers change the slice; calls meet at one launcher only. Only
steps that need not happen are left out, so that liveness may be checked.  A counter
modulo 2 comes round at the second call, and the third of three calls gets the number
of the first.  One change in the report is enough to invalidate any look at a cache,
and the initial caches are arbitrary.  Two runs of lnd give one restart, that is, an
end of stream, a reset, and a second stream from a cache that may be outdated; the
third line gives each stream, or one of them, more than one line.  The functions of
the report share nothing but the caches and the state of the launcher, and only geth
looks at the container of another service, so that the report is checked on parts of
the list.  Two starts are enough for one to truncate the file of the other, and two
consoles for a disconnect handler to be between two removals.  Two requests are enough
for one to remove the file under the other; each connection is opened once and closed
by the deferred `Close`, and requests come before, between and after.  Connections,
requests of `RestApi` and callers are interchangeable; where symmetry is declared no
liveness is checked.

That events of two containers do not mix is no longer a run of its own: the
theorem `CacheInvariant` says it for every set of names.

### Fairness

Goroutines run while they can (weak fairness of their steps): the Go scheduler
is preemptive.  The engine answers inspections.  In `LauncherAgent` clients take
what is written to them until they stall.  In `LauncherRegistry` a launcher that stays connected
answers.  In `LogWatcher` a
stream need not break, and `CatchesUp` is about behaviours in which streams break
finitely often.  In `GrpcConn` nothing is assumed of the servers; in `LogWatcher` the
cache catches up with a container that no longer changes (that is `CacheAgrees`).  In `StatusReport` a
program answers unless it hangs, which only those that are asked without a
deadline may do.  No new change, status, call or request need ever come.

### What the violated properties say

* `ServiceManager_destroy`: `manager.go:262` passes "die" where a container was
  destroyed.  `OnEvent("destroy")` exists and clears the cache, but has no caller.
* `LauncherRegistry_removed`: the unlocked removal in `ws.go:175-179` and the
  append in `ws.go:77` undo each other; a dead launcher stays first in the slice
  and every later call waits for ever.
* `LauncherRegistry_request`: a `Request` unmarshals as a `Response`.

### What the passing runs say beyond the obvious

The exceptions in the properties are the known weaknesses of the code, and the
runs show that they are the only ones in the model:

* the cache may be wrong for good after a change between `initContainer` and the
  subscription, after a failed inspection, after `initContainer` stored an older
  inspection over a newer one, and after the event stream broke;
* an update of `listeners` that overlaps with no other, made in the middle of an
  emission, lets at most one other listener lose the status in emission (a removal
  moves it to a cell already visited, an append overwrites its cell), and a removal
  may send that status twice to a listener; if the lost status is a Done, that stream
  does not end there and goes on behind it;
* two updates of `listeners` that overlap may leave a listener out of the slice for
  good, or in it twice; from then on nothing is claimed of the order and the
  completeness of the streams, nor that they end;
* the emitter of the launcher agent stops for good when it sends to a full
  channel of a request that has seen its Done but not yet removed its channel, or
  of one whose client no longer reads, and when overlapping updates have left a nil
  channel in the slice;
* the cache goes back in time only where `initContainer` stores its inspection
  late, never by the listener alone;
* an entry of `consoleMap` outlives its connection only when its create overlaps
  the disconnect handler; a shell misses its script only when another start comes
  in between or the file cannot be written;
* a 200 always means that the server did what was asked, a 400 does not mean that
  it did nothing (the handlers that go on); `.default-password` is removed after
  calls that failed, and just that keeps it from outliving the default password
  when xud carries out a call late;
* `Listen` gets stuck when an answer overtakes the registration of its call, and,
  where two calls have one number, also on the answer to a call that shares its
  number, although that call may have returned: the other one has deleted the
  channel;
* the list of launchers is wrong only after two updates of it overlapped; a call gets
  another's answer only after a number in use was given out, and the process panics
  only after one of the two or on a launcher's own request;
* a gRPC connection that was established before the deferred `manager.Close`
  found it is never opened again;
* `FollowLogs2` never recovers from one failed `FollowLogs`; it does from a stream
  that breaks.

## 4. Proofs

The eight modules `*Proofs` prove, for every value of the constants, what the runs
check on small instances: all invariants of all passing runs, and the properties of
steps `CacheAdvances`, `OneLost` and `Implements`.  What is proved by
steps is an inductive invariant, `IInv` (in `ConsoleProofs` there are several, one on
top of the other); TLC agreed with each on the instance of the run before it was
proved.  There is a lemma for every action, or for every action and part of the
invariant that it can disturb.  The assumptions are those on the constants that the
modules declare.

**ServiceManager.**  Assumptions: `MaxChanges` is a natural number, `NoName` is
no name, `Listened` is a subset of `Names`.  `TypeCorrect` is inductive by
itself.  `NoWakeupLost` follows by the cases of `SetContainer` and `Test`.

`CacheAgrees` speaks only of settled states and is far from inductive.  `IInv`
says what holds in between: every inspection the program holds is the present
state or an older one (`SnapshotsBounded`); if the last change of a container is
one the program can learn of (`Due`), then it is `UnderWay` - an event that
names the container is in the feed or in the hands of the listener, or an
inspection is about to be made, or one that shows the present state is held, or
the cache has it; and an outdated inspection that `OnEvent` holds is followed by
an event (`HeldOutdatedIsReported`), which is why storing it does no harm.
`HeldIsNoOlder` says that `OnEvent` holds nothing older than the cache unless
`initContainer` has come in between; `CacheGoesForward` draws `CacheAdvances` from
it, that is, every step of a cache is one of `InspectedCache` or a stutter.
`EngineInv` (IDs are never reused) makes an event of one container useless for
another.  `CacheInvariant` proves `IInv` with one lemma per action and
`CacheCorrect` draws `CacheAgrees` from it.

**GrpcConn.**  Assumption: `CloseOrder` lists every connection, each service has
at least one.  `IInv` adds to `NoLeak` and `ClientIsUp` that a connection is up
only between its dialing and a `Close` (`OpenersInv`), that without overlap one
`Open` runs at a time and begins with nothing stored (`OneAtATime`), and that
what was connected when `manager.Close` began is still ahead of it or closed
(`CloserInv`).  `GrpcInvariant`, `ClientAlwaysUp`, `NothingLeaks` and
`CloseIsComplete` are the results.  A corollary is that `Close` never fails, so
that boltz, which returns at the first error, always closes both.

**Console.**  Assumptions: `Nobody` is no connection, `MaxStarts` is a natural
number.  `TypeOK` needs `AtWork` beside it: an event in progress names a console,
and a start that is about to bind has a shell of that console.  `EntryIsOwned`
is inductive with the types.  `ScriptIsComplete` needs `ScriptReady`: while a
start that nobody disturbed is about to spawn, or its shell about to read, the
file is complete.  `InputToLatest` needs that, without overlap, a console has one
start in progress (`OneStart`) and the shell of that start is its youngest
(`BindsYoungest`).  The proof has a lemma per event on what the event does to the
other starts and shells (`CreateFileStep`, `SpawnStep`, `ShellStep`), from which
all four theorems draw.

**LauncherAgent.**  Assumptions: a channel has room for something, and the bound on
the statuses is a natural number.  Any number of requests append to and remove from
one slice without a lock.  `Typed` says that even so every slice that anyone holds
lies within its array, because arrays never shrink.  As long as no two updates
overlapped (`raced`), `Orderly` says that the slice lists the requests that listen,
each once (`Listed`; while a removal has yet to write its header, the last cell is
one too many), and that the emitter visits channels that listen or have listened, one
of them twice only if a removal doubled it (`Viewed`).  `Tracks` follows each request:
what its channel was sent rises, without a gap but at the statuses it lost and without
a repetition but at those that were doubled (`Rising`), up to the newest status or, if
the emission in progress has yet to reach it, the one before (`Current`), and joins the
history it copied (`Joined`).  For the listeners that a removal moves into what is left
of an emission it needs that those who came after the emission began have not been
sent its status (`Unsent`).  `Ledgers` says what a request wrote.  `OrderKept`,
`NoneMissed` and `GapFree` are read off these, and none of them excludes a removal
during an emission.  `OneIsLost` compares the cells that the emission has yet to visit
before and after an update: a removal moves them down by one, so only the listener in
the first of them can leave, and an append touches one cell only.  `AgentImplements`
is the refinement of `StatusStream`.  It needs one thing more, that a request which
still streams has written no Done (`RInv`).

**LauncherRegistry.**  Assumptions: the counter has at least one value, `NoCaller` is
no call.  `Listed`: without overlapping updates the slice lists the launchers whose
`Listen` runs, each once, and one whose removal has yet to write the header
(`Storing`, of which there is one at a time, `OneStores`).  `Numbers` is about the calls: a channel is registered
under the number of its call (`Registered`), a message in flight carries the number
of the call it is about (`Addressed`) and there is one for each call (`Once`), the
channel in the hands of `Listen` is that of the call (`Aimed`), and two calls do not
use one number (`Alone`) unless one was given a number in use.  None of them is
inductive without the others: the answer that `Listen` holds is the right one
because no other call can have taken over the entry of the map since.
`StuckOnWaiting` does not assume `Alone`: the call that `Listen` is stuck on waits, or
its number was given to another one as well (`Due`).

**RestApi.**  Assumptions: `Boltz` is a set of connections, and those of `GrpcConn`.
The module takes an instance of `GrpcConnProofs`, so `IInv` contains the invariant of
the connections, and only that requests leave it alone is proved anew
(`RequestsDoNotInterfere`).  The rest is about one request at a time: which handlers
go on after a bad request (`Handled`), what the handler knows of the call (`Called`),
what has been written by then (`Written`) and what the client is told (`Told`).
`FileSettled` relates requests: a changepass that is past its removal leaves no file
behind, unless the removal failed.

**StatusReport.**  Assumptions: a list has at least two services, no one twice.
`Founded` says of a goroutine that it asks a program only after it has seen the
container run, and that what it sends is a status that one of the functions of
`ServiceStatus` may return (`Good`) on these grounds (`Earned`); the lemmas on these
functions are the larger part of the module.  `Counted` says that the report counts
as many statuses as goroutines have sent theirs; that a returned report is complete
is then a matter of cardinalities.  `Noticed` says that what runs is known to have
run.

**LogWatcher.**  Assumption: the bounds are natural numbers.  `InOrderOfRuns`: the log
is sorted by runs, hence `FirstSince`, which counts the lines of earlier runs, is the
first line since the start of the run, and a stream holds nothing older
(`StreamOfRuns`).  `InStep` says what is shown while the watcher is between two
assignments: there is a progress `known`, that of the lines handled completely, of
which `neutrinoSyncing` shows the part that has been assigned; during a reset nothing
is known and the stream, if one is open already, has not been read from.  `Progress`
is a recursive function of the log, and no induction is at hand to compute it.  The
invariant therefore carries the function along as a witness (`Known`), extended by
one line at a time, and `ProgressUnique` shows that there is no other, by the first
line after which two of them would differ.

**Only model-checked:** all liveness (`NoWaitForever`, `EmitterReturns`, `StreamsEnd`,
`WaitingReturns`, `ConnectedUnlessWithdrawn`, `CatchesUp`, `Returns`), for fairness is
beyond the prover, and the three properties that are violated.

## 5. Not modelled

* The generated protobuf code (`*.pb.go`), which is 24,876 of the 29,340 lines of
  Go: messages, stubs and servers without state of their own.  What the program
  relies on of a stub, that it returns a response or an error, is in `RestApi`.
  The models cover the rest of the code, less what follows.
* Docker events that the listener ignores (pause, unpause, rename, oom); an
  inspection that never returns; re-creations of the container in `LogWatcher`.
* Torn reads of single words and slice headers, concurrent websocket writes, and,
  in the launcher registry, the run-time detection of concurrent map access.
* REST clients that go away (a handler never looks), and a history parameter of
  `subscribeSetupStatus` other than -1, which no caller passes.
* Malformed lines of the launcher log, on which `handleLine` panics.
* `launcher/api.go`: it formats what the registry returned.  (`PUT /v1/backup`
  answers 400 even after a success, as nothing returns between the answers.)
* `GET /v1/version`, `/v1/services` and `/v1/logs/:service`, which read and format;
  what requests and responses of `RestApi` contain; headers that are set after the
  body.
* Logging, flags, middleware, TLS, build files and scripts: no state that changes.

## 6. Plan

1. Done: the modules above; the invariants of all eight specifications and the
   refinements of `InspectedCache` and `StatusStream` are proved.
2. An abstract registry (each call is answered once or never, by its own answer)
   that `LauncherRegistry` implements while nothing races, with a proof on top of
   `AnswersAreOwn`.
3. An abstract report (asked, then returned with a status for each service) for
   `StatusReport`.
