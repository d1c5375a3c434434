----------------------- MODULE SingleContainerService -----------------------
(***************************************************************************)
(* service/core/single_container_service.go: every service of the proxy    *)
(* keeps a cached inspection of its container, `container', guarded by     *)
(* `mutex'.  Three parties touch the cache of a service:                   *)
(*                                                                         *)
(*  - its initContainer goroutine, spawned by NewSingleContainerService:   *)
(*    inspect, then setContainer;                                          *)
(*  - OnEvent, called by the event listener of the manager (the only       *)
(*    caller, so at most one call is in progress): inspect, then           *)
(*    setContainer;                                                        *)
(*  - callers of WaitContainer and WaitContainerRunning, which sleep on a  *)
(*    condition variable until the cache fits.                             *)
(*                                                                         *)
(* An inspection is a request to the engine made without the mutex; what   *)
(* it returned may be outdated when it is stored.  A critical section of   *)
(* the mutex is one step.                                                  *)
(***************************************************************************)
EXTENDS DockerEngine

CONSTANTS
    Waiters,      \* goroutines that call WaitContainer[Running]
    NoName        \* not a container name

ASSUME NoNameAssumption == NoName \notin Names

VARIABLES
    container,    \* container[n]: the cached inspection, or NoContainer
    initPc,       \* initPc[n]: the initContainer goroutine of service n
    initSnap,     \* initSnap[n]: what its inspection returned
    onEvent,      \* the call of OnEvent in progress
    call,         \* call[w]: the Wait* call of goroutine w
    condCreated,  \* condCreated[n]: goroutines asleep on the condition
    condRunning,
    initAt,       \* auxiliary: the value of clock when initContainer inspected
    lapsed        \* auxiliary: see Lapse below

serviceVars == <<container, initPc, initSnap, onEvent, call,
                 condCreated, condRunning, initAt, lapsed>>

Ops == {"WaitContainer", "WaitContainerRunning"}

NoCall == [op |-> "none", name |-> NoName]
Idle   == [at |-> "idle", name |-> NoName, snap |-> NoContainer]

ServiceInit ==
    /\ container = [n \in Names |-> NoContainer]
    /\ initPc = [n \in Names |-> "inspect"]
    /\ initSnap = [n \in Names |-> NoContainer]
    /\ onEvent = Idle
    /\ call = [w \in Waiters |-> NoCall]
    /\ condCreated = [n \in Names |-> {}]
    /\ condRunning = [n \in Names |-> {}]
    /\ initAt = [n \in Names |-> 0]
    /\ lapsed = [n \in Names |-> FALSE]

-----------------------------------------------------------------------------
\* Mutant of SetContainer: no broadcast for callers that wait for running.
SetContainerSilently(n, c) ==
    /\ container' = [container EXCEPT ![n] = c]
    /\ condCreated' = IF c # NoContainer
                      THEN [condCreated EXCEPT ![n] = {}]
                      ELSE condCreated
    /\ UNCHANGED condRunning

(* setContainer, one critical section: assign and broadcast.               *)
SetContainer(n, c) ==
    /\ container' = [container EXCEPT ![n] = c]
    /\ condCreated' = IF c # NoContainer
                      THEN [condCreated EXCEPT ![n] = {}]
                      ELSE condCreated
    /\ condRunning' = IF c.status = "running"
                      THEN [condRunning EXCEPT ![n] = {}]
                      ELSE condRunning

(* The two events after which the cache of an existing container may lag   *)
(* behind the engine with nothing left to repair it: an inspection of an   *)
(* existing container failed (the code logs it and returns), or the        *)
(* initContainer goroutine stored an inspection older than the one in the  *)
(* cache.  The next inspection that OnEvent stores ends the lapse.         *)
Lapse(n) == lapsed' = [lapsed EXCEPT ![n] = TRUE]

\* ContainerInspect by name in the initContainer goroutine.  A failure ends
\* the goroutine.
InitInspect(n) ==
    /\ initPc[n] = "inspect"
    /\ initAt' = [initAt EXCEPT ![n] = clock]
    /\ \/ /\ Exists(n)
          /\ initPc' = [initPc EXCEPT ![n] = "set"]
          /\ initSnap' = [initSnap EXCEPT ![n] = engine[n]]
          /\ UNCHANGED lapsed
       \/ /\ initPc' = [initPc EXCEPT ![n] = "done"]
          /\ IF Exists(n) THEN Lapse(n) ELSE UNCHANGED lapsed
          /\ UNCHANGED initSnap
    /\ UNCHANGED <<container, onEvent, call, condCreated, condRunning>>

InitSet(n) ==
    /\ initPc[n] = "set"
    /\ initPc' = [initPc EXCEPT ![n] = "done"]
    /\ SetContainer(n, initSnap[n])
    /\ IF container[n].rev > initSnap[n].rev THEN Lapse(n) ELSE UNCHANGED lapsed
    /\ initSnap' = [initSnap EXCEPT ![n] = NoContainer]
    /\ UNCHANGED <<onEvent, call, initAt>>

-----------------------------------------------------------------------------
(* OnEvent(kind) is called: the kinds that inspect only start here.        *)
OnEvent(n, kind) ==
    IF kind = "destroy"
    THEN /\ SetContainer(n, NoContainer)
         /\ UNCHANGED <<onEvent, initPc, initSnap, call, initAt, lapsed>>
    ELSE /\ onEvent' = [at |-> "inspect", name |-> n, snap |-> NoContainer]
         /\ UNCHANGED <<container, initPc, initSnap, call, condCreated,
                        condRunning, initAt, lapsed>>

\* Mutant of OnEventInspect: after a failure nil is stored.
OnEventInspectOrClear ==
    /\ onEvent.at = "inspect"
    /\ \E snap \in {engine[onEvent.name], NoContainer} :
         onEvent' = [onEvent EXCEPT !.at = "set", !.snap = snap]
    /\ UNCHANGED <<container, initPc, initSnap, call, condCreated,
                   condRunning, initAt, lapsed>>

\* ContainerInspect by name; a failure ends the call and leaves the cache.
OnEventInspect ==
    /\ onEvent.at = "inspect"
    /\ \/ /\ Exists(onEvent.name)
          /\ onEvent' = [onEvent EXCEPT !.at = "set",
                                        !.snap = engine[onEvent.name]]
          /\ UNCHANGED lapsed
       \/ /\ onEvent' = Idle
          /\ IF Exists(onEvent.name) THEN Lapse(onEvent.name)
                                     ELSE UNCHANGED lapsed
    /\ UNCHANGED <<container, initPc, initSnap, call, condCreated,
                   condRunning, initAt>>

OnEventSet ==
    /\ onEvent.at = "set"
    /\ onEvent' = Idle
    /\ SetContainer(onEvent.name, onEvent.snap)
    /\ lapsed' = [lapsed EXCEPT ![onEvent.name] = FALSE]
    /\ UNCHANGED <<initPc, initSnap, call, initAt>>

-----------------------------------------------------------------------------
(* WaitContainer and WaitContainerRunning.                                 *)
Wait(w, op, n) ==
    /\ call[w] = NoCall
    /\ call' = [call EXCEPT ![w] = [op |-> op, name |-> n]]
    /\ UNCHANGED <<container, initPc, initSnap, onEvent, condCreated,
                   condRunning, initAt, lapsed>>

Asleep(w) == \E n \in Names : w \in condCreated[n] \cup condRunning[n]

\* The loop condition of the two calls.
MustWait(op, c) ==
    IF op = "WaitContainer" THEN c = NoContainer ELSE c.status # "running"

\* With the mutex, on entry or woken up: test, then sleep or return.
Test(w) ==
    LET op == call[w].op
        n  == call[w].name
    IN /\ call[w] # NoCall
       /\ ~Asleep(w)
       /\ IF MustWait(op, container[n])
          THEN /\ condCreated' = IF op = "WaitContainer"
                                 THEN [condCreated EXCEPT ![n] = @ \cup {w}]
                                 ELSE condCreated
               /\ condRunning' = IF op = "WaitContainer"
                                 THEN condRunning
                                 ELSE [condRunning EXCEPT ![n] = @ \cup {w}]
               /\ UNCHANGED call
          ELSE /\ call' = [call EXCEPT ![w] = NoCall]
               /\ UNCHANGED <<condCreated, condRunning>>
       /\ UNCHANGED <<container, initPc, initSnap, onEvent, initAt, lapsed>>

=============================================================================
