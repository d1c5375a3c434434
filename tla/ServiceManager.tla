--------------------------- MODULE ServiceManager ---------------------------
(***************************************************************************)
(* service/manager.go: the services of the proxy and the goroutine         *)
(* listenForDockerEvents, which keeps their caches up to date.  NewManager *)
(* first creates the services (their initContainer goroutines start        *)
(* running) and then spawns the listener, so the subscription to the       *)
(* events of the engine comes at some later moment.                        *)
(*                                                                         *)
(* The listener handles one event at a time and OnEvent runs in it.  A     *)
(* create, start or die event is resolved to a name by inspecting the ID   *)
(* (id2name) and dispatched to listeners[name]; a destroy event cannot be  *)
(* resolved that way and is matched with the IDs of the cached containers. *)
(***************************************************************************)
EXTENDS SingleContainerService

CONSTANT Listened   \* names in `listeners': every service but the proxy

ASSUME ListenedAssumption == Listened \subseteq Names

VARIABLES
    listener,       \* the goroutine listenForDockerEvents
    since           \* auxiliary: the value of clock at the subscription

vars == <<engineVars, serviceVars, listener, since>>

NoEvent == [action |-> "none", id |-> 0]

Init ==
    /\ EngineInit
    /\ ServiceInit
    /\ listener = [at |-> "start", event |-> NoEvent]
    /\ since = 0

-----------------------------------------------------------------------------
\* client.Events: the engine reports the changes made from now on.
Subscribe ==
    /\ listener.at = "start"
    /\ listener' = [listener EXCEPT !.at = "select"]
    /\ since' = clock
    /\ stream' = "open"
    /\ UNCHANGED <<engine, clock, feed, serviceVars>>

\* Mutant of TakeEvent: OnEvent runs in a goroutine of its own.
TakeEventAtOnce ==
    /\ listener.at = "select"
    /\ feed # <<>>
    /\ listener' = [at |-> "dispatch", event |-> Head(feed)]
    /\ feed' = Tail(feed)
    /\ UNCHANGED <<engine, clock, stream, serviceVars, since>>

\* case event := <-events, once the previous event is done with.
TakeEvent ==
    /\ listener.at = "select"
    /\ onEvent = Idle
    /\ feed # <<>>
    /\ listener' = [at |-> "dispatch", event |-> Head(feed)]
    /\ feed' = Tail(feed)
    /\ UNCHANGED <<engine, clock, stream, serviceVars, since>>

\* The kind OnEvent is called with, by the action of the event.
Kind(action) == IF action = "destroy" THEN "die" ELSE action

\* Mutant of Targets: die events are not dispatched.
TargetsUnlessDie(event) ==
    IF event.action = "destroy"
    THEN {n \in Names : container[n].id = event.id}
    ELSE {n \in Listened : event.action # "die" /\ engine[n].id = event.id}

\* What the listener finds for an event: the names of listeners[id2name(ID)]
\* or, for destroy, of the service whose cached container has the ID.
Targets(event) ==
    IF event.action = "destroy"
    THEN {n \in Names : container[n].id = event.id}
    ELSE {n \in Listened : engine[n].id = event.id}

\* The event has a target and OnEvent is called for it.
Dispatch ==
    /\ listener.at = "dispatch"
    /\ \E n \in Targets(listener.event) :
         OnEvent(n, Kind(listener.event.action))
    /\ listener' = [at |-> "select", event |-> NoEvent]
    /\ UNCHANGED <<engineVars, since>>

\* The event has no target, or the inspection of id2name failed.
Discard ==
    /\ listener.at = "dispatch"
    /\ listener.event.action = "destroy" => Targets(listener.event) = {}
    /\ lapsed' = [n \in Names |-> lapsed[n] \/ n \in Targets(listener.event)]
    /\ listener' = [at |-> "select", event |-> NoEvent]
    /\ UNCHANGED <<engineVars, container, initPc, initSnap, onEvent, call,
                   condCreated, condRunning, initAt, since>>

\* case err := <-errs: the error follows the last event that was received.
\* The goroutine ends and nothing subscribes again.
ListenerStop ==
    /\ listener.at = "select"
    /\ onEvent = Idle
    /\ stream = "broken"
    /\ feed = <<>>
    /\ listener' = [listener EXCEPT !.at = "stopped"]
    /\ UNCHANGED <<engineVars, serviceVars, since>>

-----------------------------------------------------------------------------
\* The parties, one line each: the engine, the goroutine of the listener,
\* the initContainer goroutine of a service, and a caller of Wait*.
Engine == EngineNext /\ UNCHANGED <<serviceVars, listener, since>>

HandleEvent ==
    (OnEventInspect \/ OnEventSet) /\ UNCHANGED <<engineVars, listener, since>>

Listener ==
    Subscribe \/ TakeEvent \/ Dispatch \/ Discard \/ HandleEvent \/ ListenerStop

InitContainer(n) ==
    (InitInspect(n) \/ InitSet(n)) /\ UNCHANGED <<engineVars, listener, since>>

NewCall(w) ==
    /\ \E op \in Ops, n \in Names : Wait(w, op, n)
    /\ UNCHANGED <<engineVars, listener, since>>

Caller(w) == Test(w) /\ UNCHANGED <<engineVars, listener, since>>

Next ==
    \/ Engine
    \/ Listener
    \/ \E n \in Names : InitContainer(n)
    \/ \E w \in Waiters : NewCall(w) \/ Caller(w)

Spec == Init /\ [][Next]_vars

(* Every goroutine keeps running while it can (the Go scheduler is fair),  *)
(* and the engine answers every inspection.  Nothing is assumed of the     *)
(* engine's own changes, nor of new calls.                                 *)
Fairness ==
    /\ WF_vars(Listener)
    /\ \A n \in Names : WF_vars(InitContainer(n))
    /\ \A w \in Waiters : WF_vars(Caller(w))

FairSpec == Spec /\ Fairness

-----------------------------------------------------------------------------
TypeOK ==
    /\ engine \in [Names -> Container]
    /\ clock \in Nat
    /\ stream \in {"unsubscribed", "open", "broken"}
    /\ feed \in Seq(Event)
    /\ container \in [Names -> Container]
    /\ initPc \in [Names -> {"inspect", "set", "done"}]
    /\ initSnap \in [Names -> Container]
    /\ onEvent \in [at : {"idle", "inspect", "set"},
                    name : Names \cup {NoName}, snap : Container]
    /\ onEvent.at # "idle" => onEvent.name \in Names
    /\ call \in [Waiters -> [op : Ops, name : Names] \cup {NoCall}]
    /\ condCreated \in [Names -> SUBSET Waiters]
    /\ condRunning \in [Names -> SUBSET Waiters]
    /\ initAt \in [Names -> Nat]
    /\ lapsed \in [Names -> BOOLEAN]
    /\ listener \in [at : {"start", "select", "dispatch", "stopped"},
                     event : Event \cup {NoEvent}]
    /\ listener.at = "dispatch" => listener.event \in Event
    /\ since \in Nat

(* No lost wakeup: while a goroutine sleeps in WaitContainer the service   *)
(* has no cached container, and while one sleeps in WaitContainerRunning   *)
(* the cached container is not running.  setContainer broadcasts on the    *)
(* condition variables; a broadcast missed on some path would leave a      *)
(* sleeper next to the container it waits for.                             *)
NoLostWakeup ==
    \A n \in Names :
        /\ condCreated[n] # {} => container[n] = NoContainer
        /\ condRunning[n] # {} => container[n].status # "running"

\* Nothing of what the engine has reported is still on its way to the cache.
Settled(n) ==
    /\ initPc[n] = "done"
    /\ stream = "open"
    /\ feed = <<>>
    /\ listener.at = "select"
    /\ onEvent = Idle

\* The last change of n came after the subscription, or before initContainer
\* looked: not in the gap that may lie between the two.
Noticeable(n) == engine[n].rev > since \/ engine[n].rev <= initAt[n]

(* The cache is right whenever things settle: once initContainer is done   *)
(* and the listener has dealt with every event, the cached inspection of   *)
(* an existing container is its present state, unless the last change fell *)
(* into the gap between initContainer's inspection and the subscription,   *)
(* or the entry has lapsed (a failed inspection, or initContainer storing  *)
(* an old inspection over a newer one).  OnEvent inspects the container    *)
(* again instead of trusting the event: that is what makes outdated        *)
(* inspections harmless, whatever the order they are stored in.            *)
CacheAgrees ==
    \A n \in Listened :
        Settled(n) /\ Exists(n) /\ Noticeable(n) /\ ~lapsed[n]
            => container[n] = engine[n]

(* A service whose container is cached as running has a running container: *)
(* the status handlers say so ("container is running") after a look at the *)
(* cache.  Claimed only where CacheAgrees holds and, besides, initContainer*)
(* looked before the container was first created, so that all the cache    *)
(* knows came with the events.                                             *)
RunningIsRunning ==
    \A n \in Listened :
        /\ Settled(n) /\ Noticeable(n) /\ ~lapsed[n] /\ initAt[n] = 0
        /\ container[n].status = "running"
        => engine[n].status = "running"

\* The promise of InspectedCache, to the service n.
Cache(n) == INSTANCE InspectedCache WITH
              rev <- engine[n].rev, seen <- container[n].rev

\* initContainer interferes: what is cached is its inspection, or it has just
\* stored an older one over a newer one.
Interferes(n) == container[n].rev <= initAt[n] \/ lapsed'[n]

(* Two inspections of a service can be on their way to its cache at the    *)
(* same time, and nothing compares them when they are stored: one that is  *)
(* overtaken would put the cache back in time.  It never goes back in the  *)
(* listener alone, which has one inspection under way, only where          *)
(* initContainer interferes.                                               *)
CacheAdvances ==
    [][\A n \in Names :
          \/ Interferes(n)
          \/ Cache(n)!Next
          \/ UNCHANGED <<engine[n].rev, container[n].rev>>]_vars

\* w waits for a container that is running, and nothing excuses it.
Stranded(w) ==
    /\ call[w].op = "WaitContainerRunning"
    /\ call[w].name \in Listened
    /\ engine[call[w].name].status = "running"
    /\ Noticeable(call[w].name)
    /\ stream # "broken"
    /\ ~lapsed[call[w].name]

(* A call of WaitContainerRunning does not wait for ever beside a running  *)
(* container: the log followers, which start with it, make progress.       *)
NoWaitForever == \A w \in Waiters : []<>~Stranded(w)

-----------------------------------------------------------------------------
(* The inductive invariant behind CacheAgrees.                             *)

\* Container IDs are never reused and belong to one name; a name that has
\* never been used has no change.
EngineInv ==
    \A n \in Names :
        /\ engine[n].rev <= clock
        /\ engine[n].id <= clock
        /\ Exists(n) <=> engine[n].id > 0
        /\ engine[n].rev = 0 => engine[n] = NoContainer
        /\ \A m \in Names : m # n /\ Exists(n) => engine[m].id # engine[n].id

\* c is an inspection of n, now or earlier.
Outdated(n, c) == c.rev < engine[n].rev
SnapshotOf(n, c) == c = engine[n] \/ Outdated(n, c)

\* Every inspection of n that the program holds is one of these.
SnapshotsBounded ==
    /\ \A n \in Names :
         /\ SnapshotOf(n, container[n])
         /\ initPc[n] = "set" => SnapshotOf(n, initSnap[n])
         /\ initAt[n] <= clock
    /\ onEvent.at = "set" => SnapshotOf(onEvent.name, onEvent.snap)
    /\ since <= clock

\* An event that will make the listener inspect the container n.
Reports(event, n) == event.action # "destroy" /\ event.id = engine[n].id

EventPending(n) == \E i \in 1..Len(feed) : Reports(feed[i], n)

\* The listener is at work and will receive every event since `since'.
Listening == stream = "open" /\ listener.at \in {"select", "dispatch"}

\* The last change of n is one the program will learn of, or has.
Due(n) ==
    /\ Exists(n)
    /\ ~lapsed[n]
    /\ \/ Listening /\ engine[n].rev > since
       \/ stream # "broken" /\ initPc[n] # "inspect" /\ engine[n].rev <= initAt[n]

\* ... and it is on its way to the cache, or has arrived.
UnderWay(n) ==
    \/ EventPending(n)
    \/ listener.at = "dispatch" /\ Reports(listener.event, n)
    \/ onEvent.at = "inspect" /\ onEvent.name = n
    \/ onEvent.at = "set" /\ onEvent.name = n /\ onEvent.snap = engine[n]
    \/ initPc[n] = "set" /\ initSnap[n] = engine[n]
    \/ container[n] = engine[n]

\* An outdated inspection that OnEvent is about to store is followed by the
\* event of the change it missed.
HeldOutdatedIsReported ==
    \A n \in Listened :
        /\ onEvent.at = "set" /\ onEvent.name = n /\ stream = "open"
        /\ Exists(n) /\ onEvent.snap # engine[n]
        => EventPending(n)

\* What OnEvent is about to store is no older than what is cached, unless
\* initContainer has come in between; its inspection was the state at initAt.
HeldIsNoOlder ==
    /\ onEvent.at = "set" =>
         LET n == onEvent.name
         IN container[n].rev <= onEvent.snap.rev \/ container[n].rev <= initAt[n]
    /\ \A n \in Names : initPc[n] = "set" => initSnap[n].rev <= initAt[n]

\* The listener starts with a stream of its own and an OnEvent call is its.
ListenerInv ==
    /\ listener.at = "start" <=> stream = "unsubscribed"
    /\ listener.at = "start" => feed = <<>> /\ onEvent = Idle
    /\ listener.at = "stopped" => stream = "broken"
    /\ listener.at = "dispatch" => onEvent = Idle
    /\ onEvent.at = "idle" <=> onEvent = Idle

IInv ==
    /\ TypeOK
    /\ EngineInv
    /\ ListenerInv
    /\ SnapshotsBounded
    /\ \A n \in Listened : Due(n) => UnderWay(n)
    /\ HeldOutdatedIsReported
    /\ HeldIsNoOlder
=============================================================================
