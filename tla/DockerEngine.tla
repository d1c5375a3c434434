---------------------------- MODULE DockerEngine ----------------------------
(***************************************************************************)
(* The part of the Docker engine that xud-docker-api observes: one         *)
(* container per container name, and the event stream of the engine.  The  *)
(* engine is not part of the repository; it is modelled from how           *)
(* service/manager.go and service/core/single_container_service.go use it  *)
(* (ContainerInspect by name or by ID, Events).                            *)
(*                                                                         *)
(* A container is a record [id, status, rev].  rev is the number of the    *)
(* change that produced it, counted over all containers by clock: it       *)
(* orders the snapshots that inspections return.  Every change and its     *)
(* event are one step, as in the engine, which publishes an event only     *)
(* when the new state can be inspected.                                    *)
(***************************************************************************)
EXTENDS Naturals, Sequences

CONSTANTS
    Names,        \* container names, "<network>_<service>_1"
    MaxChanges    \* bound on the number of changes of the engine

ASSUME MaxChangesAssumption == MaxChanges \in Nat

VARIABLES
    engine,       \* engine[n]: the container named n
    clock,        \* number of changes so far
    stream,       \* the event stream of client.Events
    feed          \* events sent on the stream and not yet received

engineVars == <<engine, clock, stream, feed>>

Statuses == {"created", "running", "exited"}
Actions  == {"create", "start", "die", "destroy"}

Container == [id : Nat, status : Statuses \cup {"none"}, rev : Nat]
Event     == [action : Actions, id : Nat]

\* No container.  It also stands for the nil *types.ContainerJSON.
NoContainer == [id |-> 0, status |-> "none", rev |-> 0]

Exists(n) == engine[n].status # "none"

EngineInit ==
    /\ engine = [n \in Names |-> NoContainer]
    /\ clock = 0
    /\ stream = "unsubscribed"
    /\ feed = <<>>

-----------------------------------------------------------------------------
(* The container named n becomes [id, status]; the event is about `about'. *)
Change(n, id, status, action, about) ==
    /\ clock < MaxChanges
    /\ clock' = clock + 1
    /\ engine' = [engine EXCEPT ![n] =
                    [id |-> id, status |-> status, rev |-> clock + 1]]
    /\ feed' = IF stream = "open"
               THEN Append(feed, [action |-> action, id |-> about])
               ELSE feed
    /\ UNCHANGED stream

\* The ID of a new container is unique for ever: the number of its creation.
Create(n) ==
    /\ ~Exists(n)
    /\ Change(n, clock + 1, "created", "create", clock + 1)

Start(n) ==
    /\ engine[n].status \in {"created", "exited"}
    /\ Change(n, engine[n].id, "running", "start", engine[n].id)

Die(n) ==
    /\ engine[n].status = "running"
    /\ Change(n, engine[n].id, "exited", "die", engine[n].id)

Destroy(n) ==
    /\ engine[n].status \in {"created", "exited"}
    /\ Change(n, 0, "none", "destroy", engine[n].id)

\* The connection of the event stream is lost, with the events of some suffix
\* that were still in flight.
BreakStream ==
    /\ stream = "open"
    /\ stream' = "broken"
    /\ \E k \in 0..Len(feed) : feed' = SubSeq(feed, 1, k)
    /\ UNCHANGED <<engine, clock>>

EngineNext ==
    \/ \E n \in Names : Create(n) \/ Start(n) \/ Die(n) \/ Destroy(n)
    \/ BreakStream
=============================================================================
