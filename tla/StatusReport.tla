---------------------------- MODULE StatusReport ----------------------------
(***************************************************************************)
(* Manager.GetStatus of service/manager.go, behind GET /api/v1/status: one *)
(* goroutine per service computes its status and sends it on a channel     *)
(* that holds nothing; the request receives as many statuses as there are  *)
(* services and returns.  GET /api/v1/status/:service does the same for    *)
(* one service, in the goroutine of the request.  Containers come and go   *)
(* meanwhile, the launcher enters and leaves its setup, and programs       *)
(* answer late or never.                                                   *)
(***************************************************************************)
EXTENDS ServiceStatus, Sequences, FiniteSets

CONSTANTS
    ServiceLists, \* what t.services may be: sequences of names
    MaxChanges    \* bound on the changes around the request

ASSUME ServicesAssumption ==
    /\ \A list \in ServiceLists :
         /\ list \in Seq(STRING)
         /\ Len(list) > 1
         /\ \A i, j \in DOMAIN list : list[i] = list[j] => i = j
    /\ MaxChanges \in Nat

VARIABLES
    services,        \* t.services, which does not change
    container,       \* container[s]: the cached status of the container of s
    launcherState,   \* the state of the LauncherAgent
    request,         \* the request: [at, next, asked, received]
    task,            \* task[s]: the goroutine of s
    report,          \* the statuses received
    crashed,         \* a goroutine panicked: the process died
    ran,             \* auxiliary: the services whose cache said "running"
                     \* at some moment of the request
    changes          \* counts the changes, up to MaxChanges

vars == <<services, container, launcherState, request, task, report, crashed, ran, changes>>

LauncherStates == {"attached", "setup"}

Names == {services[i] : i \in DOMAIN services}

Init ==
    /\ services \in ServiceLists
    /\ container \in [Names -> ContainerStatuses]
    /\ launcherState \in LauncherStates
    /\ request = [at |-> "idle", next |-> 1, asked |-> {}, received |-> 0]
    /\ task = [s \in Names |-> [at |-> "none", launcher |-> "attached",
                                status |-> NoStatus]]
    /\ report = [s \in Names |-> NoStatus]
    /\ crashed = FALSE
    /\ ran = {}
    /\ changes = 0

-----------------------------------------------------------------------------
(* The request.                                                            *)

Begin ==
    /\ request.at = "idle"
    /\ request' = [request EXCEPT !.at = "spawn", !.asked = Names]
    /\ ran' = {s \in Names : container[s] = "running"}
    /\ UNCHANGED <<services, container, launcherState, task, report, crashed,
                   changes>>

\* GET /api/v1/status/:service, for a service that there is.
BeginOne(s) ==
    /\ request.at = "idle"
    /\ request' = [request EXCEPT !.at = "receive", !.asked = {s}]
    /\ ran' = {n \in Names : container[n] = "running"}
    /\ task' = [task EXCEPT ![s].at = "start"]
    /\ UNCHANGED <<services, container, launcherState, report, crashed, changes>>

InOwnGoroutines == request.asked = Names

\* for _, svc := range t.services: s := svc, go func.
Spawn ==
    /\ request.at = "spawn"
    /\ request.next <= Len(services)
    /\ request' = [request EXCEPT !.next = @ + 1]
    /\ task' = [task EXCEPT ![services[request.next]].at = "start"]
    /\ UNCHANGED <<services, container, launcherState, report, crashed, ran, changes>>

SpawnedAll ==
    /\ request.at = "spawn"
    /\ request.next > Len(services)
    /\ request' = [request EXCEPT !.at = "receive"]
    /\ UNCHANGED <<services, container, launcherState, task, report, crashed, ran, changes>>

\* r := <-ch, where the goroutine of s is sending; or the call of GetStatus
\* returns.
Receive(s) ==
    /\ request.at = "receive"
    /\ request.received < Cardinality(request.asked)
    /\ task[s].at = "send"
    /\ request' = [request EXCEPT !.received = @ + 1]
    /\ report' = [report EXCEPT ![s] = task[s].status]
    /\ task' = [task EXCEPT ![s].at = "sent"]
    /\ UNCHANGED <<services, container, launcherState, crashed, ran, changes>>

\* Mutant of Return: one receive too few.
ReturnEarly ==
    /\ request.at = "receive"
    /\ request.received = Cardinality(request.asked) - 1
    /\ request' = [request EXCEPT !.at = "returned"]
    /\ UNCHANGED <<services, container, launcherState, task, report, crashed, ran, changes>>

\* Mutant of Return: one receive too many.
ReturnLate ==
    /\ request.at = "receive"
    /\ request.received = Cardinality(request.asked) + 1
    /\ request' = [request EXCEPT !.at = "returned"]
    /\ UNCHANGED <<services, container, launcherState, task, report, crashed, ran, changes>>

Return ==
    /\ request.at = "receive"
    /\ request.received = Cardinality(request.asked)
    /\ request' = [request EXCEPT !.at = "returned"]
    /\ UNCHANGED <<services, container, launcherState, task, report, crashed, ran, changes>>

-----------------------------------------------------------------------------
(* The goroutine of a service.                                             *)

Goto(s, at) == task' = [task EXCEPT ![s].at = at]

Done(s, status) ==
    task' = [task EXCEPT ![s].at = "send", ![s].status = status]

Surroundings == <<services, container, launcherState, report, ran, changes>>

TaskUnchanged == UNCHANGED <<Surroundings, request>>

\* The state of the launcher goes into the context; the proxy is ready.
Start(s) ==
    /\ task[s].at = "start"
    /\ IF s = "proxy"
       THEN Done(s, Ready)
       ELSE task' = [task EXCEPT ![s].at = IF s \in {"bitcoind", "litecoind", "geth"}
                                           THEN "mode" ELSE "look",
                                 ![s].launcher = launcherState]
    /\ TaskUnchanged /\ UNCHANGED crashed

\* getMode of bitcoind and litecoind: the backend in the lnd configuration.
BackendMode(s) ==
    /\ task[s].at = "mode"
    /\ s # "geth"
    /\ \/ Goto(s, "look")
       \/ Done(s, Plain("Error"))
       \/ Done(s, Plain("Ready (external or light)"))
    /\ TaskUnchanged /\ UNCHANGED crashed

\* getMode of geth: the provider in the environment of connext's container.
\* Another provider than geth is looked up again and asked.
ProviderMode(s) ==
    /\ task[s].at = "mode"
    /\ s = "geth"
    /\ \/ Done(s, Plain("Error"))
       \/ /\ "connext" \in Names /\ container["connext"] # "none"
          /\ task' = [task EXCEPT ![s].at = "look"]
       \/ /\ "connext" \in Names /\ container["connext"] # "none"
          /\ task' = [task EXCEPT ![s].at = "askProvider"]
    /\ TaskUnchanged /\ UNCHANGED crashed

\* Mutant of Look: a container that exists is taken for running.
LookForContainer(s) ==
    /\ task[s].at = "look"
    /\ IF container[s] # "none"
       THEN Goto(s, "ask")
       ELSE Done(s, NotRunning(s, container[s], task[s].launcher))
    /\ TaskUnchanged /\ UNCHANGED crashed

\* The cached status of the container.
Look(s) ==
    /\ task[s].at = "look"
    /\ IF container[s] = "running"
       THEN Goto(s, "ask")
       ELSE Done(s, NotRunning(s, container[s], task[s].launcher))
    /\ TaskUnchanged /\ UNCHANGED crashed

\* The function panics on an answer: that ends the process, except in the
\* goroutine of a request, where gin.Recovery answers 500.
PanicIn(s) ==
    /\ IF InOwnGoroutines
       THEN crashed' = TRUE /\ UNCHANGED request
       ELSE request' = [request EXCEPT !.at = "recovered"] /\ UNCHANGED crashed
    /\ UNCHANGED task

\* The program answers.
Ask(s) ==
    /\ task[s].at = "ask"
    /\ \E answer \in Answers(s) :
         LET status == StatusOf(s, answer)
         IN IF status = Panic
            THEN PanicIn(s)
            ELSE Done(s, status) /\ UNCHANGED <<crashed, request>>
    /\ UNCHANGED Surroundings

\* getProvider once more, then net_version.
AskProvider(s) ==
    /\ task[s].at = "askProvider"
    /\ IF container["connext"] = "none"
       THEN Done(s, Plain("No provider"))
       ELSE \E answer \in ProviderAnswers : Done(s, ProviderStatus(answer))
    /\ TaskUnchanged /\ UNCHANGED crashed

\* The program does not answer, and nothing limits the wait.
Hang(s) ==
    /\ task[s].at \in {"ask", "askProvider"}
    /\ s \in NoDeadline
    /\ Goto(s, "hung")
    /\ TaskUnchanged /\ UNCHANGED crashed

Task(s) == \/ Start(s) \/ BackendMode(s) \/ ProviderMode(s) \/ Look(s)
           \/ Ask(s) \/ AskProvider(s) \/ Hang(s)

-----------------------------------------------------------------------------
(* The surroundings: OnEvent of the services, and the LauncherAgent.       *)

ContainerChanges(s) ==
    /\ changes < MaxChanges
    /\ \E status \in ContainerStatuses \ {container[s]} :
         /\ container' = [container EXCEPT ![s] = status]
         /\ ran' = IF status = "running" /\ request.at # "idle"
                   THEN ran \cup {s} ELSE ran
    /\ changes' = changes + 1
    /\ UNCHANGED <<services, launcherState, request, task, report, crashed>>

LauncherChanges ==
    /\ changes < MaxChanges
    /\ launcherState' \in LauncherStates \ {launcherState}
    /\ changes' = changes + 1
    /\ UNCHANGED <<services, container, request, task, report, crashed, ran>>

Request == \/ Begin \/ Spawn \/ SpawnedAll \/ Return
           \/ \E s \in Names : BeginOne(s) \/ Receive(s)

Next ==
    /\ ~crashed
    /\ request.at \notin {"returned", "recovered"}
    /\ \/ Request
       \/ LauncherChanges
       \/ \E s \in Names : Task(s) \/ ContainerChanges(s)

Spec == Init /\ [][Next]_vars

(* Goroutines run while they can.  A program answers unless it hangs.      *)
Fairness ==
    /\ WF_vars(~crashed /\ Request)
    /\ \A i \in UNION {DOMAIN list : list \in ServiceLists} :
         WF_vars(~crashed /\ i \in DOMAIN services /\ Task(services[i]))

FairSpec == Spec /\ Fairness

-----------------------------------------------------------------------------
Texts ==
    {"", "Ready", "Disabled", "Container running", "Container missing",
     "Container exited", "Waiting for sync", "Error", "No provider",
     "Ready (external or light)", "Ready (provider)", "Unavailable",
     "Syncing %", "Syncing", "Synced 100%", "Starting...", "locked",
     "no wallet", "starting", "error", "Waiting for channels",
     "Waiting for services", "no channels", "other", "down", "loading",
     "node down"}

Statuses == [text : Texts, current : Heights, total : Heights]

TypeOK ==
    /\ container \in [Names -> ContainerStatuses]
    /\ launcherState \in LauncherStates
    /\ services \in ServiceLists
    /\ request \in [at : {"idle", "spawn", "receive", "returned", "recovered"},
                    next : 1..(Len(services) + 1), asked : SUBSET Names,
                    received : 0..Len(services)]
    /\ task \in [Names -> [at : {"none", "start", "mode", "look", "ask",
                                 "askProvider", "hung", "send", "sent"},
                           launcher : LauncherStates, status : Statuses]]
    /\ report \in [Names -> Statuses]
    /\ crashed \in BOOLEAN
    /\ ran \subseteq Names
    /\ changes \in 0..MaxChanges

(* The report that Manager.GetStatus returns has a status for every        *)
(* service, the one that the goroutine of that service computed: the       *)
(* request counts what it receives and never looks at the names.  A        *)
(* request for one service has the status of that one.                     *)
CompleteReport ==
    request.at = "returned" =>
      \A s \in request.asked :
        report[s] # NoStatus /\ report[s] = task[s].status

\* What a service says without its own program being up.
SaidWithoutProgram ==
    {Plain(text) : text \in {"", "Disabled", "Container missing",
       "Container exited", "Waiting for sync", "Error",
       "Ready (external or light)", "Ready (provider)", "Unavailable",
       "No provider"}}

(* Whatever else a service reports was asked of a running container: the   *)
(* "container is running" of its GetStatus was true in the cache at some   *)
(* moment of the request, not of an earlier one.                           *)
ReportedWasRunning ==
    \A s \in Names \ {"proxy"} :
        report[s] \notin SaidWithoutProgram => s \in ran

(* A progress that syncingText, bitcoind or geth shows is that of a sync   *)
(* with something left to do, or one that has not learned any height yet,  *)
(* whatever order the numbers were read in.                                *)
SyncingIsBehind ==
    \A s \in Names : report[s].text = "Syncing %" =>
        \/ report[s].current < report[s].total
        \/ report[s].current = 0 /\ report[s].total = 0

(* Both requests answer, unless a program that is asked without a deadline *)
(* hangs, or a goroutine panics that is not that of a request: every       *)
(* service that is asked with the deadline of the context has a status.    *)
Returns ==
    request.at # "idle"
      ~> \/ request.at \in {"returned", "recovered"} \/ crashed
         \/ \E s \in Names : task[s].at = "hung"
=============================================================================
