------------------------ MODULE ServiceManagerProofs ------------------------
(***************************************************************************)
(* Proofs about ServiceManager, for every set of names and callers and     *)
(* every bound on the number of changes.                                   *)
(***************************************************************************)
EXTENDS ServiceManager, TLAPS

-----------------------------------------------------------------------------
(* The type invariant.                                                     *)

(* The records that stand for nil, and what they are made of.              *)
LEMMA Nils ==
    /\ NoContainer \in Container
    /\ NoContainer.rev = 0 /\ NoContainer.id = 0 /\ NoContainer.status = "none"
    /\ Idle \in [at : {"idle", "inspect", "set"},
                 name : Names \cup {NoName}, snap : Container]
    /\ Idle.at = "idle"
BY DEF NoContainer, Container, Idle

LEMMA TypeInit == Init => TypeOK
<1> SUFFICES ASSUME Init PROVE TypeOK
  OBVIOUS
<1>1. /\ engine \in [Names -> Container]
      /\ container \in [Names -> Container]
      /\ initSnap \in [Names -> Container]
      /\ onEvent \in [at : {"idle", "inspect", "set"},
                      name : Names \cup {NoName}, snap : Container]
      /\ onEvent.at = "idle"
  BY Nils DEF Init, EngineInit, ServiceInit
<1>2. QED
  BY <1>1 DEF Init, EngineInit, ServiceInit, TypeOK

LEMMA SetContainerType ==
    ASSUME TypeOK, NEW n \in Names, NEW c \in Container, SetContainer(n, c)
    PROVE  /\ container' \in [Names -> Container]
           /\ condCreated' \in [Names -> SUBSET Waiters]
           /\ condRunning' \in [Names -> SUBSET Waiters]
BY DEF TypeOK, SetContainer

LEMMA EngineType ==
    ASSUME TypeOK, EngineNext, UNCHANGED <<serviceVars, listener, since>>
    PROVE  TypeOK'
<1>1. CASE \E n \in Names : Create(n) \/ Start(n) \/ Die(n) \/ Destroy(n)
  <2>1. PICK n \in Names, id \in Nat, status \in Statuses \cup {"none"},
             action \in Actions, about \in Nat :
               Change(n, id, status, action, about)
    <3>1. PICK n \in Names : Create(n) \/ Start(n) \/ Die(n) \/ Destroy(n)
      BY <1>1
    <3>2. engine[n].id \in Nat /\ clock + 1 \in Nat
      BY DEF TypeOK, Container
    <3>3. QED
      BY <3>1, <3>2 DEF Create, Start, Die, Destroy, Statuses, Actions
  <2>2. [id |-> id, status |-> status, rev |-> clock + 1] \in Container
    BY <2>1 DEF TypeOK, Container
  <2>3. /\ engine' \in [Names -> Container]
        /\ clock' \in Nat
        /\ stream' = stream
    BY <2>1, <2>2 DEF Change, TypeOK
  <2>4. [action |-> action, id |-> about] \in Event
    BY <2>1 DEF Event
  <2>5. feed' \in Seq(Event)
    BY <2>1, <2>4 DEF Change, TypeOK
  <2>6. QED
    BY <2>3, <2>5 DEF TypeOK, serviceVars
<1>2. CASE BreakStream
  <2>1. feed' \in Seq(Event)
    BY <1>2 DEF BreakStream, TypeOK
  <2>2. QED
    BY <1>2, <2>1 DEF BreakStream, TypeOK, serviceVars
<1>3. QED
  BY <1>1, <1>2 DEF EngineNext

LEMMA ListenerType ==
    ASSUME TypeOK, Listener
    PROVE  TypeOK'
<1>1. CASE Subscribe
  BY <1>1 DEF Subscribe, TypeOK, serviceVars
<1>2. CASE TakeEvent
  BY <1>2 DEF TakeEvent, TypeOK, serviceVars
<1>3. CASE Dispatch
  <2>1. PICK n \in Names : OnEvent(n, Kind(listener.event.action))
    BY <1>3, ListenedAssumption DEF Dispatch, Targets
  <2>2. Kind(listener.event.action) # "destroy"
    BY DEF Kind
  <2>3. /\ onEvent' \in [at : {"idle", "inspect", "set"},
                        name : Names \cup {NoName}, snap : Container]
        /\ onEvent'.name \in Names
    BY <2>1, <2>2, Nils DEF OnEvent
  <2>4. /\ listener' \in [at : {"start", "select", "dispatch", "stopped"},
                         event : Event \cup {NoEvent}]
        /\ listener'.at # "dispatch"
    BY <1>3 DEF Dispatch
  <2>5. QED
    BY <1>3, <2>1, <2>2, <2>3, <2>4 DEF Dispatch, OnEvent, TypeOK, engineVars
<1>4. CASE Discard
  <2>1. lapsed' \in [Names -> BOOLEAN]
    BY <1>4 DEF Discard, TypeOK
  <2>2. /\ listener' \in [at : {"start", "select", "dispatch", "stopped"},
                         event : Event \cup {NoEvent}]
        /\ listener'.at = "select"
    BY <1>4 DEF Discard
  <2>3. QED
    BY <1>4, <2>1, <2>2 DEF Discard, TypeOK, engineVars
<1>5. CASE OnEventInspect /\ UNCHANGED <<engineVars, listener, since>>
  <2>1. onEvent.name \in Names
    BY <1>5 DEF OnEventInspect, TypeOK
  <2>2. /\ onEvent' \in [at : {"idle", "inspect", "set"},
                        name : Names \cup {NoName}, snap : Container]
        /\ onEvent'.at # "idle" => onEvent'.name \in Names
    <3>1. CASE onEvent' = Idle
      BY <3>1, Nils
    <3>2. CASE onEvent' = [onEvent EXCEPT !.at = "set",
                                          !.snap = engine[onEvent.name]]
      <4>1. engine[onEvent.name] \in Container
        BY <2>1 DEF TypeOK
      <4>2. QED
        BY <2>1, <3>2, <4>1 DEF TypeOK
    <3>3. QED
      BY <1>5, <3>1, <3>2 DEF OnEventInspect
  <2>3. lapsed' \in [Names -> BOOLEAN]
    BY <1>5 DEF OnEventInspect, Lapse, TypeOK
  <2>4. QED
    BY <1>5, <2>2, <2>3 DEF OnEventInspect, TypeOK, engineVars
<1>6. CASE OnEventSet /\ UNCHANGED <<engineVars, listener, since>>
  <2>1. /\ onEvent.name \in Names
        /\ onEvent.snap \in Container
        /\ SetContainer(onEvent.name, onEvent.snap)
    BY <1>6 DEF OnEventSet, TypeOK
  <2>2. /\ container' \in [Names -> Container]
        /\ condCreated' \in [Names -> SUBSET Waiters]
        /\ condRunning' \in [Names -> SUBSET Waiters]
    BY <2>1, SetContainerType
  <2>3. lapsed' \in [Names -> BOOLEAN] /\ onEvent' = Idle
    BY <1>6 DEF OnEventSet, TypeOK
  <2>4. QED
    BY <1>6, <2>2, <2>3, Nils DEF OnEventSet, TypeOK, engineVars
<1>7. CASE ListenerStop
  BY <1>7 DEF ListenerStop, TypeOK, engineVars, serviceVars
<1>8. QED
  BY <1>1, <1>2, <1>3, <1>4, <1>5, <1>6, <1>7 DEF Listener, HandleEvent

LEMMA InitContainerType ==
    ASSUME TypeOK, NEW n \in Names, InitContainer(n)
    PROVE  TypeOK'
<1>1. CASE InitInspect(n) /\ UNCHANGED <<engineVars, listener, since>>
  <2>1. engine[n] \in Container /\ clock \in Nat
    BY DEF TypeOK
  <2>2. initPc' \in [Names -> {"inspect", "set", "done"}]
    BY <1>1 DEF InitInspect, TypeOK
  <2>3. initSnap' \in [Names -> Container]
    BY <1>1, <2>1 DEF InitInspect, TypeOK
  <2>4. initAt' \in [Names -> Nat]
    BY <1>1, <2>1 DEF InitInspect, TypeOK
  <2>5. lapsed' \in [Names -> BOOLEAN]
    BY <1>1 DEF InitInspect, Lapse, TypeOK
  <2>6. UNCHANGED <<engineVars, listener, since, container, onEvent, call,
                    condCreated, condRunning>>
    BY <1>1 DEF InitInspect
  <2>7. QED
    BY <2>2, <2>3, <2>4, <2>5, <2>6 DEF TypeOK, engineVars
<1>2. CASE InitSet(n) /\ UNCHANGED <<engineVars, listener, since>>
  <2>1. initSnap[n] \in Container /\ SetContainer(n, initSnap[n])
    BY <1>2 DEF InitSet, TypeOK
  <2>2. /\ container' \in [Names -> Container]
        /\ condCreated' \in [Names -> SUBSET Waiters]
        /\ condRunning' \in [Names -> SUBSET Waiters]
    BY <2>1, SetContainerType
  <2>3. /\ lapsed' \in [Names -> BOOLEAN]
        /\ initSnap' \in [Names -> Container]
        /\ initPc' \in [Names -> {"inspect", "set", "done"}]
    BY <1>2, Nils DEF InitSet, Lapse, TypeOK
  <2>4. QED
    BY <1>2, <2>2, <2>3 DEF InitSet, TypeOK, engineVars
<1>3. QED
  BY <1>1, <1>2 DEF InitContainer

(* A sleeper more leaves a family of sets of sleepers.                      *)
LEMMA SleeperType ==
    ASSUME NEW f \in [Names -> SUBSET Waiters], NEW n \in Names, NEW w \in Waiters
    PROVE  [f EXCEPT ![n] = @ \cup {w}] \in [Names -> SUBSET Waiters]
<1>1. f[n] \cup {w} \in SUBSET Waiters
  OBVIOUS
<1>2. QED
  BY <1>1

LEMMA CallerType ==
    ASSUME TypeOK, NEW w \in Waiters, NewCall(w) \/ Caller(w)
    PROVE  TypeOK'
<1>1. CASE NewCall(w)
  <2>1. call' \in [Waiters -> [op : Ops, name : Names] \cup {NoCall}]
    BY <1>1 DEF NewCall, Wait, TypeOK
  <2>2. QED
    BY <1>1, <2>1 DEF NewCall, Wait, TypeOK, engineVars
<1>2. CASE Caller(w)
  <2>1. call[w] # NoCall => call[w].name \in Names
    BY DEF TypeOK
  <2>2. /\ condCreated' \in [Names -> SUBSET Waiters]
        /\ condRunning' \in [Names -> SUBSET Waiters]
    <3>1. call[w].name \in Names
      BY <1>2, <2>1 DEF Caller, Test
    <3>2. \/ UNCHANGED condCreated
          \/ condCreated' = [condCreated EXCEPT ![call[w].name] = @ \cup {w}]
      BY <1>2 DEF Caller, Test
    <3>3. condCreated' \in [Names -> SUBSET Waiters]
      <4>1. condCreated \in [Names -> SUBSET Waiters]
        BY DEF TypeOK
      <4>2. [condCreated EXCEPT ![call[w].name] = @ \cup {w}]
              \in [Names -> SUBSET Waiters]
        BY <3>1, <4>1, SleeperType
      <4>3. QED
        BY <3>2, <4>1, <4>2
    <3>4. \/ UNCHANGED condRunning
          \/ condRunning' = [condRunning EXCEPT ![call[w].name] = @ \cup {w}]
      BY <1>2 DEF Caller, Test
    <3>5. condRunning' \in [Names -> SUBSET Waiters]
      <4>1. condRunning \in [Names -> SUBSET Waiters]
        BY DEF TypeOK
      <4>2. [condRunning EXCEPT ![call[w].name] = @ \cup {w}]
              \in [Names -> SUBSET Waiters]
        BY <3>1, <4>1, SleeperType
      <4>3. QED
        BY <3>4, <4>1, <4>2
    <3>6. QED
      BY <3>3, <3>5
  <2>3. call' \in [Waiters -> [op : Ops, name : Names] \cup {NoCall}]
    BY <1>2 DEF Caller, Test, TypeOK
  <2>4. QED
    BY <1>2, <2>2, <2>3 DEF Caller, Test, TypeOK, engineVars
<1>3. QED
  BY <1>1, <1>2

LEMMA TypeStep == TypeOK /\ [Next]_vars => TypeOK'
<1> SUFFICES ASSUME TypeOK, [Next]_vars
             PROVE  TypeOK'
  OBVIOUS
<1>1. CASE UNCHANGED vars
  BY <1>1 DEF vars, engineVars, serviceVars, TypeOK
<1>2. CASE Next
  BY <1>2, EngineType, ListenerType, InitContainerType, CallerType
  DEF Next, Engine
<1>3. QED
  BY <1>1, <1>2

(* Every variable keeps its type.                                          *)
THEOREM TypeCorrect == Spec => []TypeOK
BY TypeInit, TypeStep, PTL DEF Spec

-----------------------------------------------------------------------------
(* No lost wakeup.                                                         *)

\* A call of OnEvent by the listener never has the kind "destroy".
LEMMA DispatchInspects ==
    ASSUME TypeOK, Dispatch
    PROVE  /\ \E n \in Targets(listener.event) :
                 onEvent' = [at |-> "inspect", name |-> n, snap |-> NoContainer]
           /\ UNCHANGED <<container, initPc, initSnap, call, condCreated,
                          condRunning, initAt, lapsed>>
BY DEF Dispatch, OnEvent, Kind

\* setContainer wakes everyone the stored container has something for.
LEMMA SetContainerWakes ==
    ASSUME TypeOK, NoLostWakeup, NEW n \in Names, NEW c \in Container,
           SetContainer(n, c)
    PROVE  NoLostWakeup'
<1> SUFFICES ASSUME NEW m \in Names
             PROVE  /\ condCreated'[m] # {} => container'[m] = NoContainer
                    /\ condRunning'[m] # {} => container'[m].status # "running"
  BY DEF NoLostWakeup
<1>1. CASE m = n
  <2>1. container'[m] = c
    BY <1>1 DEF SetContainer, TypeOK
  <2>2. c # NoContainer => condCreated'[m] = {}
    BY <1>1 DEF SetContainer, TypeOK
  <2>3. c.status = "running" => condRunning'[m] = {}
    BY <1>1 DEF SetContainer, TypeOK
  <2>4. QED
    BY <2>1, <2>2, <2>3
<1>2. CASE m # n
  <2>1. /\ container'[m] = container[m]
        /\ condCreated'[m] = condCreated[m]
        /\ condRunning'[m] = condRunning[m]
    BY <1>2 DEF SetContainer, TypeOK
  <2>2. QED
    BY <2>1 DEF NoLostWakeup
<1>3. QED
  BY <1>1, <1>2

\* A caller goes to sleep only where the container does not fit.
LEMMA TestSleepsRightly ==
    ASSUME TypeOK, NoLostWakeup, NEW w \in Waiters, Test(w)
    PROVE  NoLostWakeup'
<1> DEFINE n == call[w].name
<1>1. n \in Names /\ call[w].op \in Ops /\ container' = container
  BY DEF Test, TypeOK
<1>2. ASSUME NEW m \in Names, condCreated'[m] # {}
      PROVE  container[m] = NoContainer
  <2>1. CASE condCreated'[m] = condCreated[m]
    BY <1>2, <2>1 DEF NoLostWakeup
  <2>2. CASE condCreated'[m] # condCreated[m]
    <3>1. call[w].op = "WaitContainer" /\ MustWait(call[w].op, container[n])
      BY <2>2 DEF Test
    <3>2. m = n
      BY <1>1, <2>2, <3>1 DEF Test, TypeOK
    <3>3. QED
      BY <3>1, <3>2 DEF MustWait
  <2>3. QED
    BY <2>1, <2>2
<1>3. ASSUME NEW m \in Names, condRunning'[m] # {}
      PROVE  container[m].status # "running"
  <2>1. CASE condRunning'[m] = condRunning[m]
    BY <1>3, <2>1 DEF NoLostWakeup
  <2>2. CASE condRunning'[m] # condRunning[m]
    <3>1. call[w].op # "WaitContainer" /\ MustWait(call[w].op, container[n])
      BY <2>2 DEF Test
    <3>2. m = n
      BY <1>1, <2>2, <3>1 DEF Test, TypeOK
    <3>3. QED
      BY <3>1, <3>2 DEF MustWait
  <2>3. QED
    BY <2>1, <2>2
<1>4. QED
  BY <1>1, <1>2, <1>3 DEF NoLostWakeup

LEMMA WakeupStep == TypeOK /\ NoLostWakeup /\ [Next]_vars => NoLostWakeup'
<1> SUFFICES ASSUME TypeOK, NoLostWakeup, [Next]_vars
             PROVE  NoLostWakeup'
  OBVIOUS
<1>1. CASE UNCHANGED <<container, condCreated, condRunning>>
  BY <1>1 DEF NoLostWakeup
<1>2. CASE OnEventSet
  <2>1. onEvent.name \in Names /\ onEvent.snap \in Container
    BY <1>2 DEF OnEventSet, TypeOK
  <2>2. QED
    BY <1>2, <2>1, SetContainerWakes DEF OnEventSet
<1>3. CASE \E n \in Names : InitSet(n)
  <2>1. PICK n \in Names : InitSet(n)
    BY <1>3
  <2>2. initSnap[n] \in Container
    BY DEF TypeOK
  <2>3. QED
    BY <2>1, <2>2, SetContainerWakes DEF InitSet
<1>4. CASE \E w \in Waiters : Test(w)
  BY <1>4, TestSleepsRightly
<1>5. CASE Dispatch
  BY <1>1, <1>5, DispatchInspects
<1>6. QED
  BY <1>1, <1>2, <1>3, <1>4, <1>5
  DEF Next, Engine, Listener, HandleEvent, InitContainer, NewCall, Caller,
      Subscribe, TakeEvent, Discard, ListenerStop, OnEventInspect,
      InitInspect, Wait, vars, serviceVars

(* NoLostWakeup holds for any number of services and callers.              *)
THEOREM NoWakeupLost == Spec => []NoLostWakeup
<1>1. Init => NoLostWakeup
  BY DEF Init, ServiceInit, NoLostWakeup
<1>2. QED
  BY <1>1, WakeupStep, TypeCorrect, PTL DEF Spec

-----------------------------------------------------------------------------
(* The steps, seen from what the inductive invariant is about.  Most steps *)
(* leave a good part of it alone: the lemmas below say what they do touch. *)

\* What a change of the engine does, whichever it is.
ChangeEffect(n) ==
    /\ clock' = clock + 1
    /\ engine' = [engine EXCEPT ![n] = engine'[n]]
    /\ engine'[n].rev = clock + 1
    /\ engine'[n].id = engine[n].id \/ engine'[n].id = 0
                                   \/ engine'[n].id = clock + 1
    /\ engine'[n].status # "none" <=> engine'[n].id > 0
    /\ stream' = stream
    /\ \E e \in Event :
         /\ stream = "open" => feed' = Append(feed, e)
         /\ stream # "open" => feed' = feed
         /\ engine'[n].status # "none"
              => e.action # "destroy" /\ e.id = engine'[n].id

LEMMA ChangeHasEffect ==
    ASSUME TypeOK, EngineInv, NEW n \in Names,
           Create(n) \/ Start(n) \/ Die(n) \/ Destroy(n)
    PROVE  ChangeEffect(n)
<1>1. /\ engine[n] \in Container /\ clock \in Nat
      /\ Exists(n) <=> engine[n].id > 0
  BY DEF TypeOK, EngineInv
<1>2. ASSUME NEW id \in Nat, NEW status, NEW action \in Actions, NEW about \in Nat,
             Change(n, id, status, action, about),
             id = engine[n].id \/ id = 0 \/ id = clock + 1,
             status # "none" <=> id > 0,
             status # "none" => action # "destroy" /\ about = id
      PROVE  ChangeEffect(n)
  <2> DEFINE e == [action |-> action, id |-> about]
  <2>1. /\ engine'[n] = [id |-> id, status |-> status, rev |-> clock + 1]
        /\ engine' = [engine EXCEPT ![n] = engine'[n]]
        /\ clock' = clock + 1
        /\ stream' = stream
    BY <1>2 DEF Change, TypeOK
  <2>2. /\ stream = "open" => feed' = Append(feed, e)
        /\ stream # "open" => feed' = feed
    BY <1>2 DEF Change
  <2>3. e \in Event /\ e.action = action /\ e.id = about
    BY <1>2 DEF Event
  <2>4. /\ engine'[n].rev = clock + 1
        /\ engine'[n].id = id
        /\ engine'[n].status = status
    BY <2>1
  <2>5. engine'[n].status # "none"
          => e.action # "destroy" /\ e.id = engine'[n].id
    BY <1>2, <2>3, <2>4
  <2> HIDE DEF e
  <2>6. QED
    BY <1>2, <2>1, <2>2, <2>3, <2>4, <2>5 DEF ChangeEffect
<1>3. /\ engine[n].id \in Nat /\ clock + 1 \in Nat /\ 0 \in Nat
      /\ "create" \in Actions /\ "start" \in Actions
      /\ "die" \in Actions /\ "destroy" \in Actions
  BY <1>1 DEF Container, Actions
<1>4. CASE Create(n)
  <2>1. Change(n, clock + 1, "created", "create", clock + 1)
    BY <1>4 DEF Create
  <2>2. QED
    BY <1>1, <1>2, <1>3, <2>1
<1>5. CASE Start(n)
  <2>1. Change(n, engine[n].id, "running", "start", engine[n].id) /\ Exists(n)
    BY <1>5 DEF Start, Exists
  <2>2. QED
    BY <1>1, <1>2, <1>3, <2>1
<1>6. CASE Die(n)
  <2>1. Change(n, engine[n].id, "exited", "die", engine[n].id) /\ Exists(n)
    BY <1>6 DEF Die, Exists
  <2>2. QED
    BY <1>1, <1>2, <1>3, <2>1
<1>7. CASE Destroy(n)
  <2>1. Change(n, 0, "none", "destroy", engine[n].id)
    BY <1>7 DEF Destroy
  <2>2. QED
    BY <1>1, <1>2, <1>3, <2>1
<1>8. QED
  BY <1>4, <1>5, <1>6, <1>7

\* The steps of a caller, and no step at all.
Aside ==
    UNCHANGED <<engineVars, container, initPc, initSnap, onEvent, initAt,
                lapsed, listener, since>>

LEMMA CallerAside ==
    ASSUME NEW w \in Waiters, NewCall(w) \/ Caller(w)
    PROVE  Aside
BY DEF Aside, NewCall, Caller, Wait, Test

\* The steps of Next, with those of callers put aside.
LEMMA Steps ==
    ASSUME [Next]_vars
    PROVE  \/ Aside
           \/ /\ \E n \in Names : Create(n) \/ Start(n) \/ Die(n) \/ Destroy(n)
              /\ UNCHANGED <<serviceVars, listener, since>>
           \/ BreakStream /\ UNCHANGED <<serviceVars, listener, since>>
           \/ Subscribe
           \/ TakeEvent
           \/ Dispatch
           \/ Discard
           \/ OnEventInspect /\ UNCHANGED <<engineVars, listener, since>>
           \/ OnEventSet /\ UNCHANGED <<engineVars, listener, since>>
           \/ ListenerStop
           \/ \E n \in Names :
                InitInspect(n) /\ UNCHANGED <<engineVars, listener, since>>
           \/ \E n \in Names :
                InitSet(n) /\ UNCHANGED <<engineVars, listener, since>>
<1>1. CASE UNCHANGED vars
  BY <1>1 DEF vars, engineVars, serviceVars, Aside
<1>2. CASE \E w \in Waiters : NewCall(w) \/ Caller(w)
  BY <1>2, CallerAside
<1>3. CASE Engine \/ Listener \/ \E n \in Names : InitContainer(n)
  BY <1>3 DEF Engine, EngineNext, Listener, HandleEvent, InitContainer
<1>4. QED
  BY <1>1, <1>2, <1>3 DEF Next

-----------------------------------------------------------------------------
(* The engine and the listener.                                            *)

LEMMA EngineInvStep ==
    ASSUME TypeOK, EngineInv, [Next]_vars
    PROVE  EngineInv'
<1>1. CASE UNCHANGED <<engine, clock>>
  BY <1>1 DEF EngineInv, Exists
<1>2. CASE \E n \in Names : Create(n) \/ Start(n) \/ Die(n) \/ Destroy(n)
  <2>1. PICK n \in Names : Create(n) \/ Start(n) \/ Die(n) \/ Destroy(n)
    BY <1>2
  <2>2. /\ clock' = clock + 1
        /\ engine'[n].rev = clock + 1
        /\ engine'[n].id = engine[n].id \/ engine'[n].id = 0
                                       \/ engine'[n].id = clock + 1
        /\ engine'[n].status # "none" <=> engine'[n].id > 0
    BY <2>1, ChangeHasEffect DEF ChangeEffect
  <2>3. \A m \in Names : m # n => engine'[m] = engine[m]
    BY <2>1, ChangeHasEffect DEF ChangeEffect, TypeOK
  <2>4. \A m \in Names : /\ engine[m].id \in Nat /\ engine[m].rev \in Nat
                         /\ clock \in Nat
    BY DEF TypeOK, Container
  <2>5. QED
    BY <2>2, <2>3, <2>4 DEF EngineInv, Exists
<1>3. QED
  BY <1>1, <1>2, Steps
  DEF Aside, BreakStream, Subscribe, TakeEvent, Dispatch, Discard,
      ListenerStop, engineVars

LEMMA ListenerInvStep ==
    ASSUME TypeOK, ListenerInv, [Next]_vars
    PROVE  ListenerInv'
<1>1. CASE Aside
  BY <1>1 DEF Aside, ListenerInv, engineVars
<1>2. CASE /\ \E n \in Names : Create(n) \/ Start(n) \/ Die(n) \/ Destroy(n)
           /\ UNCHANGED <<serviceVars, listener, since>>
  <2>1. stream' = stream /\ (stream # "open" => feed' = feed)
    BY <1>2 DEF Create, Start, Die, Destroy, Change
  <2>2. QED
    BY <1>2, <2>1 DEF ListenerInv, serviceVars
<1>3. CASE BreakStream /\ UNCHANGED <<serviceVars, listener, since>>
  BY <1>3 DEF BreakStream, ListenerInv, serviceVars
<1>4. CASE Subscribe
  BY <1>4 DEF Subscribe, ListenerInv, TypeOK, serviceVars
<1>5. CASE TakeEvent
  BY <1>5 DEF TakeEvent, ListenerInv, serviceVars
<1>6. CASE Dispatch
  <2>1. onEvent'.at = "inspect" /\ onEvent' # Idle
    BY <1>6, DispatchInspects, Nils
  <2>2. QED
    BY <1>6, <2>1 DEF Dispatch, ListenerInv, engineVars
<1>7. CASE Discard
  BY <1>7 DEF Discard, ListenerInv, engineVars
<1>8. CASE OnEventInspect /\ UNCHANGED <<engineVars, listener, since>>
  <2>1. onEvent' = Idle \/ onEvent'.at = "set"
    BY <1>8 DEF OnEventInspect, TypeOK
  <2>2. QED
    BY <1>8, <2>1, Nils DEF OnEventInspect, ListenerInv, engineVars
<1>9. CASE OnEventSet /\ UNCHANGED <<engineVars, listener, since>>
  BY <1>9, Nils DEF OnEventSet, ListenerInv, engineVars
<1>10. CASE ListenerStop
  BY <1>10 DEF ListenerStop, ListenerInv, TypeOK, engineVars, serviceVars
<1>11. CASE \E n \in Names : /\ InitInspect(n) \/ InitSet(n)
                             /\ UNCHANGED <<engineVars, listener, since>>
  BY <1>11 DEF InitInspect, InitSet, ListenerInv, engineVars
<1>12. QED
  BY <1>1, <1>2, <1>3, <1>4, <1>5, <1>6, <1>7, <1>8, <1>9, <1>10, <1>11, Steps

-----------------------------------------------------------------------------
(* Inspections are bounded by the engine.                                  *)

\* What was an inspection of n stays one, and a change of n outdates it.
LEMMA SnapshotStays ==
    ASSUME TypeOK, EngineInv, [Next]_vars, NEW n \in Names,
           NEW c \in Container, SnapshotOf(n, c)
    PROVE  c = engine'[n] \/ c.rev < engine'[n].rev
<1>1. CASE engine'[n] = engine[n]
  BY <1>1 DEF SnapshotOf, Outdated
<1>2. CASE engine'[n] # engine[n]
  <2>1. PICK m \in Names : Create(m) \/ Start(m) \/ Die(m) \/ Destroy(m)
    BY <1>2, Steps
    DEF Aside, BreakStream, Subscribe, TakeEvent, Dispatch, Discard,
        ListenerStop, engineVars
  <2>2. m = n /\ engine'[n].rev = clock + 1
    BY <1>2, <2>1, ChangeHasEffect DEF ChangeEffect, TypeOK
  <2>3. c.rev \in Nat /\ engine[n].rev \in Nat /\ clock \in Nat
    BY DEF TypeOK, Container
  <2>4. c.rev <= engine[n].rev /\ engine[n].rev <= clock
    BY <2>3 DEF SnapshotOf, Outdated, EngineInv
  <2>5. QED
    BY <2>2, <2>3, <2>4 DEF SnapshotOf, Outdated
<1>3. QED
  BY <1>1, <1>2

\* The clock never goes back.
LEMMA ClockGrows ==
    ASSUME TypeOK, EngineInv, [Next]_vars
    PROVE  clock' \in Nat /\ clock <= clock'
<1>1. CASE clock' = clock
  BY <1>1 DEF TypeOK
<1>2. CASE \E n \in Names : Create(n) \/ Start(n) \/ Die(n) \/ Destroy(n)
  <2>1. clock' = clock + 1
    BY <1>2, ChangeHasEffect DEF ChangeEffect
  <2>2. QED
    BY <2>1 DEF TypeOK
<1>3. QED
  BY <1>1, <1>2, Steps
  DEF Aside, BreakStream, Subscribe, TakeEvent, Dispatch, Discard,
      ListenerStop, engineVars

\* What a step can do to the cache of n ...
LEMMA CacheMoves ==
    ASSUME TypeOK, [Next]_vars, NEW n \in Names
    PROVE  \/ container'[n] = container[n]
           \/ /\ onEvent.at = "set" /\ onEvent.name = n
              /\ container'[n] = onEvent.snap /\ onEvent' = Idle
              /\ engine' = engine
           \/ /\ initPc[n] = "set" /\ container'[n] = initSnap[n]
              /\ container[n].rev > initSnap[n].rev => lapsed'[n]
              /\ engine' = engine /\ initAt' = initAt
<1>1. CASE OnEventSet /\ UNCHANGED <<engineVars, listener, since>>
  BY <1>1 DEF OnEventSet, SetContainer, TypeOK, engineVars
<1>2. CASE \E m \in Names :
             InitSet(m) /\ UNCHANGED <<engineVars, listener, since>>
  BY <1>2 DEF InitSet, SetContainer, Lapse, TypeOK, engineVars
<1>3. CASE Dispatch
  BY <1>3, DispatchInspects
<1>4. QED
  BY <1>1, <1>2, <1>3, Steps
  DEF Aside, serviceVars, Subscribe, TakeEvent, Discard, ListenerStop,
      OnEventInspect, InitInspect

\* ... to what initContainer holds ...
LEMMA InitMoves ==
    ASSUME TypeOK, [Next]_vars, NEW n \in Names
    PROVE  /\ initAt'[n] = initAt[n] \/ initAt'[n] = clock
           /\ initPc'[n] = "set" =>
                \/ /\ initPc[n] = "set" /\ initSnap'[n] = initSnap[n]
                   /\ initAt'[n] = initAt[n]
                \/ initSnap'[n] = engine[n] /\ initAt'[n] = clock
<1>1. CASE \E m \in Names : InitInspect(m)
  BY <1>1 DEF InitInspect, TypeOK
<1>2. CASE \E m \in Names : InitSet(m)
  BY <1>2 DEF InitSet, TypeOK
<1>3. CASE Dispatch
  BY <1>3, DispatchInspects
<1>4. QED
  BY <1>1, <1>2, <1>3, Steps
  DEF Aside, serviceVars, Subscribe, TakeEvent, Discard, ListenerStop,
      OnEventInspect, OnEventSet

\* ... and to what OnEvent holds.
LEMMA HeldMoves ==
    ASSUME TypeOK, [Next]_vars, onEvent'.at = "set"
    PROVE  \/ onEvent' = onEvent
           \/ /\ onEvent.at = "inspect" /\ onEvent'.name = onEvent.name
              /\ onEvent'.snap = engine[onEvent.name]
              /\ container' = container
<1>1. CASE OnEventInspect
  BY <1>1, Nils DEF OnEventInspect, TypeOK
<1>2. CASE OnEventSet
  BY <1>2, Nils DEF OnEventSet
<1>3. CASE Dispatch
  BY <1>3, DispatchInspects
<1>4. QED
  BY <1>1, <1>2, <1>3, Steps
  DEF Aside, serviceVars, Subscribe, TakeEvent, Discard, ListenerStop,
      InitInspect, InitSet

LEMMA SnapshotsStep ==
    ASSUME TypeOK, EngineInv, SnapshotsBounded, [Next]_vars
    PROVE  SnapshotsBounded'
<1>1. ASSUME NEW n \in Names
      PROVE  SnapshotOf(n, container[n])'
  <2>1. \/ container'[n] = container[n]
        \/ /\ onEvent.at = "set" /\ onEvent.name = n
           /\ container'[n] = onEvent.snap
        \/ initPc[n] = "set" /\ container'[n] = initSnap[n]
    BY CacheMoves
  <2>2. /\ container'[n] \in Container
        /\ SnapshotOf(n, container'[n])
    BY <2>1 DEF SnapshotsBounded, TypeOK
  <2>3. QED
    BY <2>2, SnapshotStays DEF SnapshotOf, Outdated
<1>2. ASSUME NEW n \in Names, initPc'[n] = "set"
      PROVE  SnapshotOf(n, initSnap[n])'
  <2>1. \/ initPc[n] = "set" /\ initSnap'[n] = initSnap[n]
        \/ initSnap'[n] = engine[n]
    BY <1>2, InitMoves
  <2>2. /\ initSnap'[n] \in Container
        /\ SnapshotOf(n, initSnap'[n])
    BY <2>1 DEF SnapshotsBounded, SnapshotOf, TypeOK
  <2>3. QED
    BY <2>2, SnapshotStays DEF SnapshotOf, Outdated
<1>3. ASSUME onEvent'.at = "set"
      PROVE  SnapshotOf(onEvent.name, onEvent.snap)'
  <2>1. \/ onEvent' = onEvent
        \/ /\ onEvent.at = "inspect" /\ onEvent'.name = onEvent.name
           /\ onEvent'.snap = engine[onEvent.name]
    BY <1>3, HeldMoves
  <2>2. onEvent'.name \in Names
    BY <1>3, <2>1 DEF TypeOK
  <2>3. /\ onEvent'.snap \in Container
        /\ SnapshotOf(onEvent'.name, onEvent'.snap)
    BY <1>3, <2>1, <2>2 DEF SnapshotsBounded, SnapshotOf, TypeOK
  <2>4. QED
    BY <2>2, <2>3, SnapshotStays DEF SnapshotOf, Outdated
<1>4. since' = since \/ since' = clock
  BY Steps
  DEF Aside, Subscribe, TakeEvent, Dispatch, Discard, ListenerStop
<1>5. \A n \in Names : initAt'[n] = initAt[n] \/ initAt'[n] = clock
  BY InitMoves
<1>6. since' <= clock' /\ \A n \in Names : initAt'[n] <= clock'
  <2>1. clock' \in Nat /\ clock \in Nat /\ clock <= clock'
    BY ClockGrows DEF TypeOK
  <2>2. since \in Nat /\ since <= clock
    BY DEF SnapshotsBounded, TypeOK
  <2>3. \A n \in Names : initAt[n] \in Nat /\ initAt[n] <= clock
    BY DEF SnapshotsBounded, TypeOK
  <2>4. QED
    BY <1>4, <1>5, <2>1, <2>2, <2>3
<1>7. QED
  BY <1>1, <1>2, <1>3, <1>6 DEF SnapshotsBounded

(* OnEvent holds nothing older than the cache, but for initContainer.       *)
LEMMA HeldIsNoOlderStep ==
    ASSUME TypeOK, EngineInv, SnapshotsBounded, HeldIsNoOlder, [Next]_vars
    PROVE  HeldIsNoOlder'
<1>1. ASSUME NEW n \in Names
      PROVE  /\ container[n].rev \in Nat /\ container[n].rev <= engine[n].rev
             /\ engine[n].rev \in Nat /\ engine[n].rev <= clock
             /\ initAt[n] \in Nat /\ initAt[n] <= clock /\ clock \in Nat
             /\ initSnap[n].rev \in Nat
  <2>1. SnapshotOf(n, container[n])
    BY DEF SnapshotsBounded
  <2>2. QED
    BY <2>1 DEF SnapshotsBounded, SnapshotOf, Outdated, EngineInv, TypeOK,
                Container
<1>2. ASSUME onEvent'.at = "set", NEW n, n = onEvent'.name
      PROVE  \/ container'[n].rev <= onEvent'.snap.rev
             \/ container'[n].rev <= initAt'[n]
  <2>1. n \in Names /\ onEvent.name = n
    <3>1. onEvent.at # "idle" /\ onEvent.name = n
      BY <1>2, HeldMoves
    <3>2. QED
      BY <3>1 DEF TypeOK
  <2>2. \/ onEvent' = onEvent
        \/ onEvent'.snap = engine[n] /\ container' = container
    BY <1>2, <2>1, HeldMoves
  <2>3. CASE onEvent'.snap = engine[n] /\ container' = container
    BY <1>1, <2>1, <2>3
  <2>4. CASE onEvent' = onEvent /\ container'[n] = container[n]
    <3>1. \/ container[n].rev <= onEvent.snap.rev
          \/ container[n].rev <= initAt[n]
      BY <1>2, <2>1, <2>4 DEF HeldIsNoOlder
    <3>2. initAt'[n] = initAt[n] \/ initAt'[n] = clock
      BY <2>1, InitMoves
    <3>3. QED
      BY <1>1, <2>1, <2>4, <3>1, <3>2
  <2>5. CASE initPc[n] = "set" /\ container'[n] = initSnap[n] /\ initAt' = initAt
    BY <2>1, <2>5 DEF HeldIsNoOlder
  <2>6. onEvent' # Idle
    BY <1>2, Nils
  <2>7. QED
    BY <2>1, <2>2, <2>3, <2>4, <2>5, <2>6, CacheMoves
<1>3. ASSUME NEW n \in Names, initPc'[n] = "set"
      PROVE  initSnap'[n].rev <= initAt'[n]
  BY <1>1, <1>3, InitMoves DEF HeldIsNoOlder
<1>4. QED
  BY <1>2, <1>3 DEF HeldIsNoOlder

-----------------------------------------------------------------------------
(* The last change of a container is on its way to the cache.              *)

\* An event that is sent is pending; those that were pending still are.
LEMMA AppendPending ==
    ASSUME TypeOK, NEW e \in Event, feed' = Append(feed, e), NEW n \in Names
    PROVE  /\ e.action # "destroy" /\ e.id = engine'[n].id => EventPending(n)'
           /\ EventPending(n) /\ engine'[n] = engine[n] => EventPending(n)'
<1>1. /\ Len(feed') = Len(feed) + 1 /\ Len(feed) \in Nat
      /\ feed'[Len(feed) + 1] = e
      /\ \A i \in 1..Len(feed) : feed'[i] = feed[i]
  BY DEF TypeOK
<1>2. QED
  BY <1>1 DEF EventPending, Reports

\* An event that is received is the listener's; the others are still pending.
LEMMA TakePending ==
    ASSUME TypeOK, TakeEvent, NEW n \in Names, EventPending(n)
    PROVE  \/ EventPending(n)'
           \/ listener'.at = "dispatch" /\ Reports(listener.event, n)'
<1>1. /\ Len(feed) \in Nat \ {0} /\ Len(feed') = Len(feed) - 1
      /\ \A i \in 1..Len(feed') : feed'[i] = feed[i + 1]
      /\ feed[1] = Head(feed)
  BY DEF TakeEvent, TypeOK
<1>2. PICK i \in 1..Len(feed) : Reports(feed[i], n)
  BY DEF EventPending
<1>3. /\ listener'.at = "dispatch" /\ listener'.event = Head(feed)
      /\ engine' = engine
  BY DEF TakeEvent
<1>4. CASE i = 1
  BY <1>1, <1>2, <1>3, <1>4 DEF Reports
<1>5. CASE i # 1
  <2>1. i - 1 \in 1..Len(feed') /\ feed'[i - 1] = feed[i]
    BY <1>1, <1>5
  <2>2. QED
    BY <1>2, <1>3, <2>1 DEF EventPending, Reports
<1>6. QED
  BY <1>4, <1>5

LEMMA HeldStep ==
    ASSUME IInv, [Next]_vars
    PROVE  HeldOutdatedIsReported'
<1> USE DEF IInv
<1> SUFFICES ASSUME NEW n \in Listened,
                    onEvent'.at = "set", onEvent'.name = n, stream' = "open",
                    Exists(n)', onEvent'.snap # engine'[n]
             PROVE  EventPending(n)'
  BY DEF HeldOutdatedIsReported
<1>1. n \in Names
  BY ListenedAssumption
<1>2. CASE Aside
  BY <1>2 DEF Aside, engineVars, HeldOutdatedIsReported, Exists,
              EventPending, Reports
<1>3. CASE /\ \E m \in Names : Create(m) \/ Start(m) \/ Die(m) \/ Destroy(m)
           /\ UNCHANGED <<serviceVars, listener, since>>
  <2>1. PICK m \in Names : Create(m) \/ Start(m) \/ Die(m) \/ Destroy(m)
    BY <1>3
  <2>2. ChangeEffect(m) /\ onEvent' = onEvent
    BY <1>3, <2>1, ChangeHasEffect DEF serviceVars
  <2>3. PICK e \in Event :
          /\ feed' = Append(feed, e)
          /\ engine'[m].status # "none"
               => e.action # "destroy" /\ e.id = engine'[m].id
    BY <2>2 DEF ChangeEffect
  <2>4. CASE m = n
    BY <1>1, <2>3, <2>4, AppendPending DEF Exists
  <2>5. CASE m # n
    <3>1. engine'[n] = engine[n] /\ stream = "open"
      BY <1>1, <2>2, <2>5 DEF ChangeEffect, TypeOK
    <3>2. EventPending(n)
      BY <2>2, <3>1 DEF HeldOutdatedIsReported, Exists
    <3>3. QED
      BY <1>1, <2>3, <3>1, <3>2, AppendPending
  <2>6. QED
    BY <2>4, <2>5
<1>4. CASE \/ BreakStream
           \/ OnEventSet
           \/ Dispatch
  <2>1. CASE BreakStream
    BY <2>1 DEF BreakStream
  <2>2. CASE OnEventSet
    BY <2>2, Nils DEF OnEventSet
  <2>3. CASE Dispatch
    BY <2>3, DispatchInspects
  <2>4. QED
    BY <1>4, <2>1, <2>2, <2>3
<1>5. CASE Subscribe \/ TakeEvent \/ Discard \/ ListenerStop
  <2>1. onEvent = Idle /\ onEvent' = onEvent
    BY <1>5 DEF Subscribe, TakeEvent, Discard, ListenerStop, ListenerInv,
                serviceVars
  <2>2. QED
    BY <2>1, Nils
<1>6. CASE OnEventInspect /\ UNCHANGED <<engineVars, listener, since>>
  <2>1. onEvent' = [onEvent EXCEPT !.at = "set", !.snap = engine[onEvent.name]]
    BY <1>6, Nils DEF OnEventInspect
  <2>2. onEvent'.snap = engine[n]
    BY <2>1 DEF TypeOK
  <2>3. QED
    BY <1>6, <2>2 DEF engineVars
<1>7. CASE \E m \in Names : /\ InitInspect(m) \/ InitSet(m)
                            /\ UNCHANGED <<engineVars, listener, since>>
  BY <1>7 DEF InitInspect, InitSet, engineVars, HeldOutdatedIsReported,
              Exists, EventPending, Reports
<1>8. QED
  BY <1>2, <1>3, <1>4, <1>5, <1>6, <1>7, Steps

\* Uniqueness of IDs: an event of an existing container names no other.
LEMMA ReportsOne ==
    ASSUME TypeOK, EngineInv, NEW m \in Names, NEW n \in Names, NEW event,
           Exists(n), Reports(event, n), engine[m].id = event.id
    PROVE  m = n
BY DEF EngineInv, Reports

\* The steps that leave n's cache and what is under way for it alone.
Untouched(n) ==
    /\ engine'[n] = engine[n]
    /\ EventPending(n) => EventPending(n)'
    /\ UNCHANGED <<onEvent, listener>>
    /\ UNCHANGED <<initPc[n], initSnap[n], container[n]>>

LEMMA UntouchedUnderWay ==
    ASSUME NEW n, Untouched(n), UnderWay(n)
    PROVE  UnderWay(n)'
BY DEF Untouched, UnderWay, Reports

LEMMA DueStep ==
    ASSUME IInv, [Next]_vars, NEW n \in Listened, Due(n)'
    PROVE  UnderWay(n)'
<1> USE DEF IInv
<1>1. n \in Names
  BY ListenedAssumption
<1>2. CASE Aside
  <2>1. Due(n) /\ Untouched(n)
    BY <1>2 DEF Aside, engineVars, Due, Exists, Listening, Untouched,
                EventPending, Reports
  <2>2. QED
    BY <2>1, UntouchedUnderWay
<1>3. CASE /\ \E m \in Names : Create(m) \/ Start(m) \/ Die(m) \/ Destroy(m)
           /\ UNCHANGED <<serviceVars, listener, since>>
  <2>1. PICK m \in Names : Create(m) \/ Start(m) \/ Die(m) \/ Destroy(m)
    BY <1>3
  <2>2. ChangeEffect(m)
    BY <2>1, ChangeHasEffect
  <2>3. PICK e \in Event :
          /\ stream = "open" => feed' = Append(feed, e)
          /\ stream # "open" => feed' = feed
          /\ engine'[m].status # "none"
               => e.action # "destroy" /\ e.id = engine'[m].id
    BY <2>2 DEF ChangeEffect
  <2>4. CASE m = n
    <3>1. engine'[n].rev = clock + 1 /\ stream' = stream
      BY <2>2, <2>4 DEF ChangeEffect
    <3>2. initAt' = initAt /\ initAt[n] \in Nat /\ initAt[n] <= clock /\ clock \in Nat
      BY <1>1, <1>3 DEF serviceVars, SnapshotsBounded, TypeOK
    <3>3. Exists(n)' /\ stream = "open"
      BY <3>1, <3>2 DEF Due, Listening
    <3>4. EventPending(n)'
      BY <1>1, <2>3, <2>4, <3>3, AppendPending DEF Exists
    <3>5. QED
      BY <3>4 DEF UnderWay
  <2>5. CASE m # n
    <3>1. engine'[n] = engine[n] /\ stream' = stream
      BY <1>1, <2>2, <2>5 DEF ChangeEffect, TypeOK
    <3>2. Due(n)
      BY <1>3, <3>1 DEF Due, Exists, Listening, serviceVars
    <3>3. EventPending(n) => EventPending(n)'
      <4>1. CASE stream = "open"
        BY <1>1, <2>3, <3>1, <4>1, AppendPending
      <4>2. CASE stream # "open"
        BY <2>3, <3>1, <4>2 DEF EventPending, Reports
      <4>3. QED
        BY <4>1, <4>2
    <3>4. Untouched(n)
      BY <1>3, <3>1, <3>3 DEF Untouched, serviceVars
    <3>5. QED
      BY <3>2, <3>4, UntouchedUnderWay
  <2>6. QED
    BY <2>4, <2>5
<1>4. CASE BreakStream \/ ListenerStop
  BY <1>4 DEF BreakStream, ListenerStop, Due, Listening, engineVars
<1>5. CASE Subscribe
  <2>1. since' = clock /\ engine' = engine /\ engine[n].rev <= clock
    BY <1>1, <1>5 DEF Subscribe, EngineInv
  <2>2. ~(engine'[n].rev > since')
    BY <1>1, <2>1 DEF TypeOK, Container
  <2>3. Due(n)
    BY <1>5, <2>1, <2>2 DEF Subscribe, ListenerInv, Due, Exists, serviceVars
  <2>4. UnderWay(n)'
    BY <1>5, <2>3 DEF Subscribe, UnderWay, EventPending, Reports, serviceVars
  <2>5. QED
    BY <2>4
<1>6. CASE TakeEvent
  <2>1. Due(n)
    BY <1>6 DEF TakeEvent, Due, Exists, Listening, serviceVars
  <2>2. CASE EventPending(n)
    BY <1>1, <1>6, <2>2, TakePending DEF UnderWay, Reports
  <2>3. CASE ~EventPending(n)
    BY <1>6, <2>1, <2>3 DEF TakeEvent, UnderWay, serviceVars
  <2>4. QED
    BY <2>2, <2>3
<1>7. CASE Dispatch
  <2>1. Due(n) /\ engine' = engine /\ feed' = feed
    BY <1>7, DispatchInspects
    DEF Dispatch, Due, Exists, Listening, engineVars
  <2>2. PICK m \in Targets(listener.event) :
               onEvent' = [at |-> "inspect", name |-> m, snap |-> NoContainer]
    BY <1>7, DispatchInspects
  <2>3. CASE Reports(listener.event, n)
    <3>1. m \in Names /\ engine[m].id = listener.event.id
      BY <2>2, <2>3, ListenedAssumption DEF Targets, Reports
    <3>2. m = n
      BY <1>1, <2>1, <2>3, <3>1, ReportsOne DEF Due
    <3>3. QED
      BY <2>2, <3>2 DEF UnderWay
  <2>4. CASE ~Reports(listener.event, n)
    <3>1. onEvent.at = "idle"
      BY <1>7, Nils DEF Dispatch, ListenerInv
    <3>2. \/ EventPending(n)
          \/ initPc[n] = "set" /\ initSnap[n] = engine[n]
          \/ container[n] = engine[n]
      BY <2>1, <2>4, <3>1 DEF UnderWay
    <3>3. QED
      BY <1>7, <2>1, <3>2, DispatchInspects DEF UnderWay, EventPending, Reports
  <2>5. QED
    BY <2>3, <2>4
<1>8. CASE Discard
  <2>1. Due(n) /\ n \notin Targets(listener.event)
    BY <1>1, <1>8 DEF Discard, Due, Exists, Listening, TypeOK, engineVars
  <2>2. ~Reports(listener.event, n)
    BY <2>1 DEF Targets, Reports
  <2>3. QED
    BY <1>8, <2>1, <2>2 DEF Discard, UnderWay, EventPending, Reports, engineVars
<1>9. CASE OnEventInspect /\ UNCHANGED <<engineVars, listener, since>>
  <2>1. CASE onEvent.name = n
    <3>1. CASE onEvent' = Idle
      BY <1>1, <1>9, <2>1, <3>1, Nils
      DEF OnEventInspect, Due, Exists, Lapse, TypeOK, engineVars
    <3>2. CASE onEvent' # Idle
      <4>1. onEvent' = [onEvent EXCEPT !.at = "set", !.snap = engine[n]]
        BY <1>9, <2>1, <3>2 DEF OnEventInspect
      <4>2. onEvent'.at = "set" /\ onEvent'.name = n /\ onEvent'.snap = engine'[n]
        BY <1>9, <2>1, <4>1 DEF TypeOK, engineVars
      <4>3. QED
        BY <4>2 DEF UnderWay
    <3>3. QED
      BY <3>1, <3>2
  <2>2. CASE onEvent.name # n
    <3>1. Due(n)
      BY <1>1, <1>9, <2>2
      DEF OnEventInspect, Due, Exists, Listening, Lapse, TypeOK, engineVars
    <3>2. QED
      BY <1>9, <2>2, <3>1
      DEF OnEventInspect, UnderWay, EventPending, Reports, engineVars
  <2>3. QED
    BY <2>1, <2>2
<1>10. CASE OnEventSet /\ UNCHANGED <<engineVars, listener, since>>
  <2>1. onEvent.at = "set" /\ onEvent.name \in Names
    BY <1>10 DEF OnEventSet, TypeOK
  <2>2. CASE onEvent.name = n
    <3>1. container'[n] = onEvent.snap
      BY <1>1, <1>10, <2>2 DEF OnEventSet, SetContainer, TypeOK
    <3>2. CASE onEvent.snap = engine[n]
      BY <1>10, <3>1, <3>2 DEF UnderWay, engineVars
    <3>3. CASE onEvent.snap # engine[n]
      <4>1. stream = "open" /\ Exists(n)
        <5>1. onEvent # Idle
          BY <2>1, Nils
        <5>2. stream # "unsubscribed"
          BY <5>1 DEF ListenerInv
        <5>3. stream # "broken" /\ Exists(n)
          BY <1>10 DEF Due, Exists, Listening, engineVars
        <5>4. QED
          BY <5>2, <5>3 DEF TypeOK
      <4>2. EventPending(n)
        BY <2>1, <2>2, <3>3, <4>1 DEF HeldOutdatedIsReported
      <4>3. QED
        BY <1>10, <4>2 DEF UnderWay, EventPending, Reports, engineVars
    <3>4. QED
      BY <3>2, <3>3
  <2>3. CASE onEvent.name # n
    <3>1. Due(n)
      BY <1>1, <1>10, <2>3
      DEF OnEventSet, Due, Exists, Listening, TypeOK, engineVars
    <3>2. container'[n] = container[n]
      BY <1>1, <1>10, <2>3 DEF OnEventSet, SetContainer, TypeOK
    <3>3. QED
      BY <1>10, <2>1, <2>3, <3>1, <3>2
      DEF OnEventSet, UnderWay, EventPending, Reports, engineVars
  <2>4. QED
    BY <2>2, <2>3
<1>11. CASE \E m \in Names : InitInspect(m) /\ UNCHANGED <<engineVars, listener, since>>
  <2>1. PICK m \in Names : InitInspect(m) /\ UNCHANGED <<engineVars, listener, since>>
    BY <1>11
  <2>2. CASE m = n
    <3>1. CASE initPc'[n] = "set"
      BY <1>1, <2>1, <2>2, <3>1 DEF InitInspect, UnderWay, TypeOK, engineVars
    <3>2. CASE initPc'[n] # "set"
      BY <1>1, <2>1, <2>2, <3>2
      DEF InitInspect, Due, Exists, Lapse, TypeOK, engineVars
    <3>3. QED
      BY <3>1, <3>2
  <2>3. CASE m # n
    <3>1. Due(n) /\ Untouched(n)
      BY <1>1, <2>1, <2>3
      DEF InitInspect, Due, Exists, Listening, Lapse, Untouched, EventPending,
          Reports, TypeOK, engineVars
    <3>2. QED
      BY <3>1, UntouchedUnderWay
  <2>4. QED
    BY <2>2, <2>3
<1>12. CASE \E m \in Names : InitSet(m) /\ UNCHANGED <<engineVars, listener, since>>
  <2>1. PICK m \in Names : InitSet(m) /\ UNCHANGED <<engineVars, listener, since>>
    BY <1>12
  <2>2. CASE m = n
    <3>1. /\ container'[n] = initSnap[n] /\ initPc[n] = "set"
          /\ engine' = engine /\ feed' = feed /\ onEvent' = onEvent
          /\ listener' = listener
      BY <1>1, <2>1, <2>2 DEF InitSet, SetContainer, TypeOK, engineVars
    <3>2. ~lapsed'[n] => ~(container[n].rev > initSnap[n].rev) /\ ~lapsed[n]
      BY <1>1, <2>1, <2>2 DEF InitSet, Lapse, TypeOK
    <3>3. Due(n)
      BY <1>1, <2>1, <2>2, <3>1, <3>2
      DEF InitSet, Due, Exists, Listening, TypeOK, engineVars
    <3>4. CASE container[n] = engine[n]
      <4>1. initSnap[n] = engine[n] \/ initSnap[n].rev < engine[n].rev
        BY <1>1, <3>1 DEF SnapshotsBounded, SnapshotOf, Outdated
      <4>2. initSnap[n] = engine[n]
        <5>0. ~lapsed'[n]
          BY DEF Due
        <5>1. ~(engine[n].rev > initSnap[n].rev)
          BY <5>0, <3>2, <3>4
        <5>2. engine[n].rev \in Nat /\ initSnap[n].rev \in Nat
          BY <1>1 DEF TypeOK, Container
        <5>3. QED
          BY <4>1, <5>1, <5>2
      <4>3. QED
        BY <3>1, <4>2 DEF UnderWay
    <3>5. CASE initSnap[n] = engine[n]
      BY <3>1, <3>5 DEF UnderWay
    <3>6. CASE container[n] # engine[n] /\ initSnap[n] # engine[n]
      BY <3>1, <3>3, <3>6 DEF UnderWay, EventPending, Reports
    <3>7. QED
      BY <3>4, <3>5, <3>6
  <2>3. CASE m # n
    <3>1. Due(n) /\ Untouched(n)
      BY <1>1, <2>1, <2>3
      DEF InitSet, SetContainer, Due, Exists, Listening, Lapse, Untouched,
          EventPending, Reports, TypeOK, engineVars
    <3>2. QED
      BY <3>1, UntouchedUnderWay
  <2>4. QED
    BY <2>2, <2>3
<1>13. QED
  BY <1>2, <1>3, <1>4, <1>5, <1>6, <1>7, <1>8, <1>9, <1>10, <1>11, <1>12, Steps

-----------------------------------------------------------------------------
LEMMA InvInit == Init => IInv
<1> SUFFICES ASSUME Init PROVE IInv
  OBVIOUS
<1>1. TypeOK
  BY TypeInit
<1>2. EngineInv
  <2>1. clock = 0 /\ \A n \in Names : engine[n] = NoContainer
    BY DEF Init, EngineInit
  <2>2. \A n \in Names : ~Exists(n) /\ engine[n].id = 0 /\ engine[n].rev = 0
    BY <2>1, Nils DEF Exists
  <2>3. ASSUME NEW n \in Names
        PROVE  /\ engine[n].rev <= clock /\ engine[n].id <= clock
               /\ Exists(n) <=> engine[n].id > 0
               /\ engine[n].rev = 0 => engine[n] = NoContainer
    <3>1. engine[n].rev <= clock /\ engine[n].id <= clock /\ ~(engine[n].id > 0)
      BY <2>1, <2>2
    <3>2. QED
      BY <2>1, <2>2, <3>1
  <2>4. QED
    BY <2>2, <2>3 DEF EngineInv
<1>3. ListenerInv
  BY Nils DEF Init, EngineInit, ServiceInit, ListenerInv
<1>4. SnapshotsBounded
  BY Nils DEF Init, EngineInit, ServiceInit, SnapshotsBounded, SnapshotOf
<1>5. \A n \in Listened : ~Due(n)
  BY Nils, ListenedAssumption DEF Init, EngineInit, Due, Exists
<1>6. HeldOutdatedIsReported
  BY Nils DEF Init, ServiceInit, HeldOutdatedIsReported
<1>7. HeldIsNoOlder
  BY Nils DEF Init, ServiceInit, HeldIsNoOlder
<1>8. QED
  BY <1>1, <1>2, <1>3, <1>4, <1>5, <1>6, <1>7 DEF IInv

LEMMA InvStep == IInv /\ [Next]_vars => IInv'
<1> SUFFICES ASSUME IInv, [Next]_vars
             PROVE  IInv'
  OBVIOUS
<1>1. TypeOK /\ EngineInv /\ ListenerInv /\ SnapshotsBounded /\ HeldIsNoOlder
  BY DEF IInv
<1>2. TypeOK'
  BY <1>1, TypeStep
<1>3. EngineInv' /\ ListenerInv' /\ SnapshotsBounded'
  BY <1>1, EngineInvStep, ListenerInvStep, SnapshotsStep
<1>4. (\A n \in Listened : Due(n) => UnderWay(n))'
  BY DueStep
<1>5. HeldOutdatedIsReported'
  BY HeldStep
<1>6. HeldIsNoOlder'
  BY <1>1, HeldIsNoOlderStep
<1>7. QED
  BY <1>2, <1>3, <1>4, <1>5, <1>6 DEF IInv

(* The inductive invariant of the cache, and what it was built for: when   *)
(* all is settled the cache agrees with the engine.                        *)
THEOREM CacheInvariant == Spec => []IInv
BY InvInit, InvStep, PTL DEF Spec

THEOREM CacheCorrect == Spec => []CacheAgrees
<1>1. IInv => CacheAgrees
  <2> SUFFICES ASSUME IInv, NEW n \in Listened,
                      Settled(n), Exists(n), Noticeable(n), ~lapsed[n]
               PROVE  container[n] = engine[n]
    BY DEF CacheAgrees
  <2>1. Due(n)
    BY DEF Settled, Noticeable, Due, Listening
  <2>2. ~EventPending(n) /\ onEvent.at = "idle"
    BY Nils DEF Settled, EventPending
  <2>3. UnderWay(n)
    BY <2>1 DEF IInv
  <2>4. QED
    BY <2>2, <2>3 DEF UnderWay, Settled
<1>2. QED
  BY <1>1, CacheInvariant, PTL

-----------------------------------------------------------------------------
(* Every step moves the cache of n as InspectedCache promises, or not at   *)
(* all, unless initContainer interferes.                                   *)
LEMMA CacheStep ==
    ASSUME IInv, [Next]_vars, NEW n \in Names
    PROVE  \/ Interferes(n)
           \/ Cache(n)!Next
           \/ UNCHANGED <<engine[n].rev, container[n].rev>>
<1> USE DEF IInv
<1>1. /\ engine[n] \in Container /\ SnapshotOf(n, engine[n])
      /\ engine[n].rev \in Nat /\ container[n].rev \in Nat
      /\ initSnap[n].rev \in Nat
  BY DEF TypeOK, Container, SnapshotOf
<1>2. engine'[n].rev = engine[n].rev \/ engine'[n].rev > engine[n].rev
  BY <1>1, SnapshotStays DEF TypeOK, EngineInv, Container
<1>3. CASE container'[n] = container[n]
  BY <1>2, <1>3 DEF Cache!Next, Cache!Change
<1>4. ASSUME engine' = engine, container'[n].rev \in Nat,
             container[n].rev <= container'[n].rev,
             container'[n] = engine[n] \/ container'[n].rev < engine[n].rev
      PROVE  Cache(n)!Next
  BY <1>1, <1>4 DEF Cache!Next, Cache!Learn
<1>5. CASE /\ onEvent.at = "set" /\ onEvent.name = n
           /\ container'[n] = onEvent.snap /\ engine' = engine
  <2>1. /\ onEvent.snap.rev \in Nat
        /\ container[n].rev <= onEvent.snap.rev \/ container[n].rev <= initAt[n]
    BY <1>5 DEF HeldIsNoOlder, TypeOK, Container
  <2>2. onEvent.snap = engine[n] \/ onEvent.snap.rev < engine[n].rev
    BY <1>5 DEF SnapshotsBounded, SnapshotOf, Outdated
  <2>3. QED
    BY <1>4, <1>5, <2>1, <2>2 DEF Interferes
<1>6. CASE /\ initPc[n] = "set" /\ container'[n] = initSnap[n]
           /\ container[n].rev > initSnap[n].rev => lapsed'[n]
           /\ engine' = engine
  <2>1. initSnap[n] = engine[n] \/ initSnap[n].rev < engine[n].rev
    BY <1>6 DEF SnapshotsBounded, SnapshotOf, Outdated
  <2>2. QED
    BY <1>1, <1>4, <1>6, <2>1 DEF Interferes
<1>7. QED
  BY <1>3, <1>5, <1>6, CacheMoves

(* The cache of a service never goes back in time, whatever the order the  *)
(* inspections return in, where initContainer does not interfere: the      *)
(* listener alone implements InspectedCache, for every name.               *)
THEOREM CacheGoesForward == Spec => CacheAdvances
<1>1. IInv /\ [Next]_vars =>
        [\A n \in Names : \/ Interferes(n)
                          \/ Cache(n)!Next
                          \/ UNCHANGED <<engine[n].rev, container[n].rev>>]_vars
  BY CacheStep
<1>2. QED
  BY <1>1, CacheInvariant, PTL DEF Spec, CacheAdvances

=============================================================================
