------------------------- MODULE StatusReportProofs -------------------------
(***************************************************************************)
(* Proofs about StatusReport, for every list of services, every height and *)
(* every number of changes around the request.                             *)
(*                                                                         *)
(* The texts of the statuses are told apart only where it matters: no      *)
(* status but NoStatus has the empty text, and the one that shows progress *)
(* is the one that Syncing makes.                                          *)
(***************************************************************************)
EXTENDS StatusReport, FiniteSetTheorems, TLAPS

TaskPlaces == {"none", "start", "mode", "look", "ask", "askProvider", "hung",
               "send", "sent"}

TaskRecord == [at : TaskPlaces, launcher : LauncherStates, status : Statuses]

RequestPlaces == {"idle", "spawn", "receive", "returned", "recovered"}

RequestRecord == [at : RequestPlaces, next : Nat \ {0}, asked : SUBSET Names,
                  received : Nat]

-----------------------------------------------------------------------------
(* The inductive invariant.                                                *)

(* A status whose text shows progress shows one that has some way to go.   *)
Behind(status) ==
    status.text = "Syncing %" =>
        \/ status.current < status.total
        \/ status.current = 0 /\ status.total = 0

(* What GetStatus of a service may return.                                 *)
Good(status) == status \in Statuses /\ status # NoStatus /\ Behind(status)

(* A status that may be reported by service s, given the services that ran *)
(* during the request.                                                     *)
Earned(s, status, up) ==
    s = "proxy" \/ status \in SaidWithoutProgram \/ s \in up

(* What the place of a goroutine says of it: a program is asked only after *)
(* its container was seen running, and a status is sent only when it has   *)
(* been computed.                                                          *)
Founded(s, t, up) ==
    /\ t.at = "ask" => s \in up
    /\ t.at \in {"send", "sent"} => Good(t.status) /\ Earned(s, t.status, up)

AllFounded == \A s \in Names : Founded(s, task[s], ran)

(* The report has the statuses of the goroutines that were received, and   *)
(* of no other one.                                                        *)
Delivered ==
    \A s \in Names :
        report[s] = IF task[s].at = "sent" THEN task[s].status ELSE NoStatus

(* Every goroutine belongs to the request, and has been started once.      *)
Spawned ==
    /\ \A s \in Names : task[s].at # "none" => s \in request.asked
    /\ request.at = "idle" => request.asked = {} /\ request.next = 1
    /\ request.at = "spawn" =>
         /\ request.asked = Names
         /\ \A i \in DOMAIN services :
              i >= request.next => task[services[i]].at = "none"

Sent == {s \in Names : task[s].at = "sent"}

(* The request has received as many statuses as it counts, and returns     *)
(* when that is one for each service it asked.                             *)
Counted ==
    /\ request.received = Cardinality(Sent)
    /\ request.at = "returned" => request.received = Cardinality(request.asked)

(* Whatever runs since the request began is known to have run.             *)
Noticed ==
    request.at # "idle" =>
        \A s \in Names : container[s] = "running" => s \in ran

(* TypeOK without the bounds that the other parts imply.                   *)
Typed ==
    /\ services \in ServiceLists
    /\ container \in [Names -> ContainerStatuses]
    /\ launcherState \in LauncherStates
    /\ request \in RequestRecord
    /\ request.next \in 1..(Len(services) + 1)
    /\ task \in [Names -> TaskRecord]
    /\ report \in [Names -> Statuses]
    /\ crashed \in BOOLEAN
    /\ ran \subseteq Names
    /\ changes \in 0..MaxChanges

IInv ==
    /\ Typed
    /\ AllFounded
    /\ Delivered
    /\ Spawned
    /\ Counted
    /\ Noticed

-----------------------------------------------------------------------------
(* What the GetStatus functions return.                                    *)

LEMMA Zero == 0 \in Heights
BY HeightAssumption DEF Heights

LEMMA NoStatusTyped == NoStatus \in Statuses
<1>1. "" \in Texts
  BY Zenon DEF Texts
<1>2. QED
  BY <1>1, Zero, Zenon DEF NoStatus, Plain, Statuses

LEMMA GoodPlain ==
    ASSUME NEW text \in Texts, text # ""
    PROVE  Good(Plain(text))
<1>1. Plain(text) \in Statuses
  BY Zero, Zenon DEF Plain, Statuses
<1>2. Plain(text) # NoStatus
  <2>1. Plain(text).text = text /\ NoStatus.text = ""
    BY Zenon DEF Plain, NoStatus
  <2>2. QED
    BY <2>1, Zenon
<1>3. Behind(Plain(text))
  BY Zenon DEF Plain, Behind
<1>4. QED
  BY <1>1, <1>2, <1>3, Zenon DEF Good

LEMMA GoodSyncing ==
    ASSUME NEW c \in Heights, NEW t \in Heights,
           c < t \/ (c = 0 /\ t = 0)
    PROVE  Good(Syncing(c, t))
<1>1. Syncing(c, t) \in Statuses
  <2>1. "Syncing %" \in Texts
    BY Zenon DEF Texts
  <2>2. QED
    BY <2>1, Zenon DEF Syncing, Statuses
<1>2. Syncing(c, t) # NoStatus
  <2>1. Syncing(c, t).text = "Syncing %" /\ NoStatus.text = ""
    BY Zenon DEF Syncing, NoStatus, Plain
  <2>2. QED
    BY <2>1, Zenon
<1>3. Behind(Syncing(c, t))
  <2>1. Syncing(c, t).current = c /\ Syncing(c, t).total = t
    BY Zenon DEF Syncing
  <2>2. QED
    BY <2>1, Zenon DEF Behind
<1>4. QED
  BY <1>1, <1>2, <1>3, Zenon DEF Good

LEMMA GoodReady == Good(Ready)
<1>1. "Ready" \in Texts /\ "Ready" # ""
  BY Zenon DEF Texts
<1>2. QED
  BY <1>1, GoodPlain, Zenon DEF Ready

(* The statuses that are said without the program.                         *)
LEMMA GoodSaid == ASSUME NEW status \in SaidWithoutProgram, status # NoStatus
                  PROVE  Good(status)
<1>1. PICK text \in {"", "Disabled", "Container missing", "Container exited",
                     "Waiting for sync", "Error", "Ready (external or light)",
                     "Ready (provider)", "Unavailable", "No provider"} :
        status = Plain(text)
  BY Zenon DEF SaidWithoutProgram
<1>2. text # ""
  BY <1>1, Zenon DEF NoStatus
<1>3. text \in Texts
  BY <1>1, Zenon DEF Texts
<1>4. QED
  BY <1>1, <1>2, <1>3, GoodPlain, Zenon

LEMMA GoodSyncingText ==
    ASSUME NEW c \in Heights, NEW t \in Heights
    PROVE  Good(SyncingText(c, t))
<1>1. "Synced 100%" \in Texts /\ "Synced 100%" # ""
  BY Zenon DEF Texts
<1>2. Good(Plain("Synced 100%"))
  BY <1>1, GoodPlain, Zenon
<1> DEFINE synced == Plain("Synced 100%")
           whole  == IF t < c THEN c ELSE t
<1>3. SyncingText(c, t) = IF whole = c /\ whole > 0 THEN synced
                                                    ELSE Syncing(c, whole)
  BY Zenon DEF SyncingText
<1>4. Good(synced)
  BY <1>2
<1>5. /\ whole \in Heights
      /\ ~(whole = c /\ whole > 0) => c < whole \/ (c = 0 /\ whole = 0)
  BY HeightAssumption DEF Heights
<1> HIDE DEF synced, whole
<1>6. CASE whole = c /\ whole > 0
  BY <1>3, <1>4, <1>6, Zenon
<1>7. CASE ~(whole = c /\ whole > 0)
  BY <1>3, <1>5, <1>7, GoodSyncing, Zenon
<1>8. QED
  BY <1>6, <1>7, Zenon

LEMMA XudGood ==
    ASSUME NEW answer \in XudAnswers, XudStatus(answer) # Panic
    PROVE  Good(XudStatus(answer))
<1>1. CASE answer.is # "info"
  <2>1. answer.is \in {"locked", "no wallet", "starting", "error"}
    BY <1>1, Zenon DEF XudAnswers
  <2>2. answer.is \in Texts /\ answer.is # ""
    BY <2>1, Zenon DEF Texts
  <2>3. XudStatus(answer) = Plain(answer.is)
    BY <1>1, Zenon DEF XudStatus
  <2>4. QED
    BY <2>2, <2>3, GoodPlain, Zenon
<1>2. CASE answer.is = "info"
  <2> DEFINE parts == {answer.lndbtc, answer.lndltc, answer.connext}
  <2>1. XudStatus(answer) =
           CASE "absent" \in parts      -> Panic
             [] parts = {"Ready"}       -> Ready
             [] "no channels" \in parts -> Plain("Waiting for channels")
             [] OTHER                   -> Plain("Waiting for services")
    BY <1>2, Zenon DEF XudStatus
  <2> HIDE DEF parts
  <2>2. /\ "Waiting for channels" \in Texts /\ "Waiting for channels" # ""
        /\ "Waiting for services" \in Texts /\ "Waiting for services" # ""
    BY Zenon DEF Texts
  <2>3. /\ Good(Plain("Waiting for channels"))
        /\ Good(Plain("Waiting for services"))
    BY <2>2, GoodPlain, Zenon
  <2>4. XudStatus(answer) \in {Panic, Ready, Plain("Waiting for channels"),
                               Plain("Waiting for services")}
    BY <2>1, Zenon
  <2>5. QED
    BY <2>3, <2>4, GoodReady, Zenon
<1>3. QED
  BY <1>1, <1>2, Zenon

LEMMA ConnextGood ==
    ASSUME NEW answer \in ConnextAnswers, ConnextStatus(answer) # Panic
    PROVE  Good(ConnextStatus(answer))
<1>1. CASE answer.is = "xud"
  <2>1. answer.connext \in Parts
    BY <1>1, Zenon DEF ConnextAnswers
  <2>2. answer.connext # "absent" /\ ConnextStatus(answer) = Plain(answer.connext)
    BY <1>1, Zenon DEF ConnextStatus
  <2>3. answer.connext \in Texts /\ answer.connext # ""
    BY <2>1, <2>2, Zenon DEF Parts, Texts
  <2>4. QED
    BY <2>2, <2>3, GoodPlain, Zenon
<1>2. CASE answer.is # "xud"
  <2>1. "Starting..." \in Texts /\ "Starting..." # ""
    BY Zenon DEF Texts
  <2>2. Good(Plain("Starting..."))
    BY <2>1, GoodPlain, Zenon
  <2>3. ConnextStatus(answer) \in {Ready, Plain("Starting...")}
    BY <1>2, Zenon DEF ConnextStatus
  <2>4. QED
    BY <2>2, <2>3, GoodReady, Zenon
<1>3. QED
  BY <1>1, <1>2, Zenon

LEMMA LndGood ==
    ASSUME NEW answer \in LndAnswers
    PROVE  Good(LndStatus(answer))
<1>1. CASE answer.is = "not up"
  <2>1. answer.current \in Heights /\ answer.total \in Heights
    BY <1>1, Zenon DEF LndAnswers
  <2>2. LndStatus(answer) = SyncingText(answer.current, answer.total)
    BY <1>1, Zenon DEF LndStatus
  <2>3. QED
    BY <2>1, <2>2, GoodSyncingText, Zenon
<1>2. CASE answer.is = "info"
  <2>1. /\ answer.synced \in BOOLEAN
        /\ answer.height \in Heights /\ answer.logged \in Heights
    BY <1>2, Zenon DEF LndAnswers
  <2>2. "Syncing" \in Texts /\ "Syncing" # ""
    BY Zenon DEF Texts
  <2>3. Good(Plain("Syncing"))
    BY <2>2, GoodPlain, Zenon
  <2>4. Good(SyncingText(answer.logged, answer.height))
    BY <2>1, GoodSyncingText, Zenon
  <2>5. answer.logged > 0 \/ answer.logged = 0
    BY <2>1, HeightAssumption DEF Heights
  <2>6. ~(answer.logged > 0 /\ answer.logged = 0)
    OBVIOUS
  <2>7. LndStatus(answer) \in {SyncingText(answer.logged, answer.height),
                               Ready, Plain("Syncing")}
    <3>1. CASE answer.logged > 0
      <4>1. LndStatus(answer) = IF answer.height <= answer.logged
                                THEN Ready
                                ELSE SyncingText(answer.logged, answer.height)
        BY <1>2, <2>6, <3>1, Zenon DEF LndStatus
      <4>2. QED
        BY <4>1, Zenon
    <3>2. CASE answer.logged = 0
      <4>1. LndStatus(answer) = IF answer.synced THEN Ready ELSE Plain("Syncing")
        BY <1>2, <2>6, <3>2, Zenon DEF LndStatus
      <4>2. QED
        BY <4>1, Zenon
    <3>3. QED
      BY <2>5, <3>1, <3>2, Zenon
  <2>8. QED
    BY <2>3, <2>4, <2>7, GoodReady, Zenon
<1>3. CASE answer.is \notin {"not up", "info"}
  <2>1. answer.is \in {"locked", "error"}
    BY <1>3, Zenon DEF LndAnswers
  <2>2. answer.is \in Texts /\ answer.is # ""
    BY <2>1, Zenon DEF Texts
  <2>3. LndStatus(answer) = Plain(answer.is)
    BY <2>1, Zenon DEF LndStatus
  <2>4. QED
    BY <2>2, <2>3, GoodPlain, Zenon
<1>4. QED
  BY <1>1, <1>2, <1>3, Zenon

LEMMA BitcoindGood ==
    ASSUME NEW answer \in BitcoindAnswers, BitcoindStatus(answer) # Panic
    PROVE  Good(BitcoindStatus(answer))
<1>1. CASE answer.is = "info"
  <2>1. /\ answer.blocks \in Heights /\ answer.headers \in Heights
        /\ answer.blocks <= answer.headers
    BY <1>1, Zenon DEF BitcoindAnswers
  <2>2. BitcoindStatus(answer) =
           IF answer.blocks > 0 /\ answer.blocks = answer.headers
           THEN Ready
           ELSE Syncing(answer.blocks, answer.headers)
    BY <1>1, Zenon DEF BitcoindStatus
  <2>3. ~(answer.blocks > 0 /\ answer.blocks = answer.headers) =>
           \/ answer.blocks < answer.headers
           \/ (answer.blocks = 0 /\ answer.headers = 0)
    BY <2>1, HeightAssumption DEF Heights
  <2>4. CASE answer.blocks > 0 /\ answer.blocks = answer.headers
    BY <2>2, <2>4, GoodReady, Zenon
  <2>5. CASE ~(answer.blocks > 0 /\ answer.blocks = answer.headers)
    BY <2>1, <2>2, <2>3, <2>5, GoodSyncing, Zenon
  <2>6. QED
    BY <2>4, <2>5, Zenon
<1>2. CASE answer.is # "info"
  <2>0. answer.is \in {"down", "loading", "numberless"}
    BY <1>2, Zenon DEF BitcoindAnswers
  <2>1. answer.is \in {"down", "loading"}
    <3>1. answer.is # "numberless"
      BY Zenon DEF BitcoindStatus
    <3>2. QED
      BY <2>0, <3>1, Zenon
  <2>2. answer.is \in Texts /\ answer.is # ""
    BY <2>1, Zenon DEF Texts
  <2>3. BitcoindStatus(answer) = Plain(answer.is)
    BY <1>2, Zenon DEF BitcoindStatus
  <2>4. QED
    BY <2>2, <2>3, GoodPlain, Zenon
<1>3. QED
  BY <1>1, <1>2, Zenon

LEMMA GethGood ==
    ASSUME NEW answer \in GethAnswers
    PROVE  Good(GethStatus(answer))
<1>1. /\ "down" \in Texts /\ "down" # ""
      /\ "Waiting for sync" \in Texts /\ "Waiting for sync" # ""
  BY Zenon DEF Texts
<1>2. Good(Plain("down")) /\ Good(Plain("Waiting for sync"))
  BY <1>1, GoodPlain, Zenon
<1>3. CASE answer.is = "down" \/ (answer.is # "down" /\ ~answer.parses)
  <2>1. GethStatus(answer) = Plain("down")
    <3>1. CASE answer.is = "down"
      BY <3>1, Zenon DEF GethStatus
    <3>2. CASE answer.is # "down" /\ ~answer.parses
      BY <3>2, Zenon DEF GethStatus
    <3>3. QED
      BY <1>3, <3>1, <3>2, Zenon
  <2>2. QED
    BY <1>2, <2>1, Zenon
<1>4. CASE answer.is = "block" /\ answer.parses
  <2>1. GethStatus(answer) \in {Plain("Waiting for sync"), Ready}
    <3>1. GethStatus(answer) = IF answer.number = 0 THEN Plain("Waiting for sync")
                                                    ELSE Ready
      BY <1>4, Zenon DEF GethStatus
    <3>2. QED
      BY <3>1, Zenon
  <2>2. QED
    BY <1>2, <2>1, GoodReady, Zenon
<1>5. CASE answer.is = "syncing" /\ answer.parses
  <2>1. GethStatus(answer) = Syncing(answer.current, answer.highest)
    BY <1>5, Zenon DEF GethStatus
  <2>2. /\ answer.current \in Heights /\ answer.highest \in Heights
        /\ answer.current < answer.highest
    BY <1>5, Zenon DEF GethAnswers
  <2>3. QED
    BY <2>1, <2>2, GoodSyncing, Zenon
<1>6. answer.is \in {"down", "block", "syncing"}
  BY Zenon DEF GethAnswers
<1>7. QED
  BY <1>3, <1>4, <1>5, <1>6, Zenon

LEMMA BoltzGood ==
    ASSUME NEW answer \in BoltzAnswers
    PROVE  Good(BoltzStatus(answer))
<1>1. "node down" \in Texts /\ "node down" # ""
  BY Zenon DEF Texts
<1>2. Good(Plain("node down"))
  BY <1>1, GoodPlain, Zenon
<1>3. BoltzStatus(answer) \in {Ready, Plain("node down")}
  BY Zenon DEF BoltzStatus
<1>4. QED
  BY <1>2, <1>3, GoodReady, Zenon

(* Whatever a program answers, the status that its service makes of it is  *)
(* one, and shows a progress only if there is some way to go.              *)
LEMMA GoodAnswer ==
    ASSUME NEW name, NEW answer \in Answers(name),
           StatusOf(name, answer) # Panic
    PROVE  Good(StatusOf(name, answer))
<1>1. CASE name = "xud"
  BY <1>1, XudGood, Zenon DEF Answers, StatusOf
<1>2. CASE name \in {"lndbtc", "lndltc"}
  <2>1. Answers(name) = LndAnswers /\ StatusOf(name, answer) = LndStatus(answer)
    BY <1>2, Zenon DEF Answers, StatusOf
  <2>2. QED
    BY <2>1, LndGood, Zenon
<1>3. CASE name = "connext"
  BY <1>3, ConnextGood, Zenon DEF Answers, StatusOf
<1>4. CASE name \in {"bitcoind", "litecoind"}
  <2>1. /\ Answers(name) = BitcoindAnswers
        /\ StatusOf(name, answer) = BitcoindStatus(answer)
    BY <1>4, Zenon DEF Answers, StatusOf
  <2>2. QED
    BY <2>1, BitcoindGood, Zenon
<1>5. CASE name = "geth"
  BY <1>5, GethGood, Zenon DEF Answers, StatusOf
<1>6. CASE name = "boltz"
  BY <1>6, BoltzGood, Zenon DEF Answers, StatusOf
<1>7. CASE name \notin {"xud", "lndbtc", "lndltc", "connext", "bitcoind",
                        "litecoind", "geth", "boltz"}
  <2>1. StatusOf(name, answer) = Ready
    BY <1>7, Zenon DEF StatusOf
  <2>2. QED
    BY <2>1, GoodReady, Zenon
<1>8. QED
  BY <1>1, <1>2, <1>3, <1>4, <1>5, <1>6, <1>7, Zenon

-----------------------------------------------------------------------------
(* The list of services.                                                   *)

LEMMA Services ==
    ASSUME Typed
    PROVE  /\ services \in Seq(STRING) /\ Len(services) \in Nat
           /\ DOMAIN services = 1..Len(services) /\ Len(services) > 1
           /\ \A i \in DOMAIN services : services[i] \in Names
           /\ \A i, j \in DOMAIN services : services[i] = services[j] => i = j
<1>1. /\ services \in Seq(STRING) /\ Len(services) > 1
      /\ \A i, j \in DOMAIN services : services[i] = services[j] => i = j
  BY ServicesAssumption DEF Typed
<1>2. Len(services) \in Nat /\ DOMAIN services = 1..Len(services)
  BY <1>1
<1>3. QED
  BY <1>1, <1>2 DEF Names

LEMMA FewNames ==
    ASSUME Typed
    PROVE  IsFiniteSet(Names) /\ Cardinality(Names) <= Len(services)
<1> DEFINE f == [i \in 1..Len(services) |-> services[i]]
<1>1. f \in Surjection(1..Len(services), Names)
  <2>1. \A i \in 1..Len(services) : services[i] \in Names
    BY Services
  <2>2. \A s \in Names : \E i \in 1..Len(services) : f[i] = s
    BY Services DEF Names
  <2>3. QED
    BY <2>1, <2>2 DEF Surjection
<1>2. ExistsSurjection(1..Len(services), Names)
  BY <1>1 DEF ExistsSurjection
<1>3. Len(services) \in Nat
  BY Services
<1>4. QED
  BY <1>2, <1>3, FS_SurjCardinalityBound, FS_NatSurjection

LEMMA FewSent ==
    ASSUME Typed, NEW S \in SUBSET Names
    PROVE  /\ IsFiniteSet(S) /\ Cardinality(S) \in Nat
           /\ Cardinality(S) <= Len(services)
<1>1. IsFiniteSet(Names) /\ Cardinality(Names) <= Len(services)
  BY FewNames
<1>2. IsFiniteSet(S) /\ Cardinality(S) <= Cardinality(Names)
  BY <1>1, FS_Subset
<1>3. Cardinality(S) \in Nat /\ Cardinality(Names) \in Nat
  BY <1>1, <1>2, FS_CardinalityType
<1>4. QED
  BY <1>1, <1>2, <1>3, Services

-----------------------------------------------------------------------------
(* A step of a goroutine.                                                  *)

LEMMA TaskStep ==
    ASSUME IInv, NEW s \in Names, NEW t \in TaskRecord,
           task' = [task EXCEPT ![s] = t],
           task[s].at \notin {"none", "sent"}, t.at \notin {"none", "sent"},
           Founded(s, t, ran),
           UNCHANGED <<services, container, launcherState, report, ran,
                       changes, request, crashed>>
    PROVE  IInv'
<1>1. Names' = Names /\ task \in [Names -> TaskRecord]
  BY DEF Names, IInv, Typed
<1>2. /\ task' \in [Names -> TaskRecord]
      /\ task'[s] = t
      /\ \A n \in Names \ {s} : task'[n] = task[n]
  BY <1>1
<1>3. Typed'
  BY <1>1, <1>2 DEF IInv, Typed, RequestRecord
<1>4. AllFounded'
  BY <1>1, <1>2 DEF IInv, AllFounded
<1>5. Delivered'
  BY <1>1, <1>2 DEF IInv, Delivered
<1>6. Spawned'
  <2>1. \A i \in DOMAIN services : services[i] \in Names
    BY Services DEF IInv
  <2>2. QED
    BY <1>1, <1>2, <2>1 DEF IInv, Spawned
<1>7. Counted'
  <2>1. Sent' = Sent
    BY <1>1, <1>2 DEF Sent
  <2>2. QED
    BY <2>1 DEF IInv, Counted
<1>8. Noticed'
  BY <1>1 DEF IInv, Noticed
<1>9. QED
  BY <1>3, <1>4, <1>5, <1>6, <1>7, <1>8 DEF IInv

LEMMA OfTask ==
    ASSUME IInv, NEW s \in Names
    PROVE  /\ task \in [Names -> TaskRecord]
           /\ task[s] \in TaskRecord
           /\ task[s].at \in TaskPlaces
           /\ task[s].launcher \in LauncherStates
           /\ task[s].status \in Statuses
           /\ Founded(s, task[s], ran)
           /\ container[s] \in ContainerStatuses
           /\ task[s].at # "none" => s \in request.asked
<1>1. task \in [Names -> TaskRecord] /\ container[s] \in ContainerStatuses
  BY DEF IInv, Typed
<1>2. task[s].at \in TaskPlaces /\ task[s].launcher \in LauncherStates
        /\ task[s].status \in Statuses
  BY <1>1 DEF TaskRecord
<1>3. QED
  BY <1>1, <1>2 DEF IInv, AllFounded, Spawned

(* The goroutine goes on to another place.                                 *)
LEMMA GotoInv ==
    ASSUME IInv, NEW s \in Names, task[s].at \notin {"none", "sent"},
           NEW at \in {"mode", "look", "ask", "askProvider", "hung"},
           at = "ask" => s \in ran, Goto(s, at),
           TaskUnchanged, UNCHANGED crashed
    PROVE  IInv'
<1> DEFINE t == [task[s] EXCEPT !.at = at]
<1>1. task[s] \in TaskRecord /\ task \in [Names -> TaskRecord]
  BY OfTask
<1>2. t \in TaskRecord /\ t.at = at /\ task' = [task EXCEPT ![s] = t]
  BY <1>1 DEF TaskRecord, TaskPlaces, Goto
<1> HIDE DEF t
<1>3. Founded(s, t, ran)
  BY <1>2 DEF Founded
<1>4. QED
  BY <1>2, <1>3, TaskStep DEF TaskUnchanged, Surroundings

(* The goroutine has computed its status.                                  *)
LEMMA DoneInv ==
    ASSUME IInv, NEW s \in Names, task[s].at \notin {"none", "sent"},
           NEW status, Good(status), Earned(s, status, ran), Done(s, status),
           TaskUnchanged, UNCHANGED crashed
    PROVE  IInv'
<1> DEFINE t == [task[s] EXCEPT !.at = "send", !.status = status]
<1>1. task[s] \in TaskRecord /\ task \in [Names -> TaskRecord]
  BY OfTask
<1>2. status \in Statuses
  BY DEF Good
<1>3. /\ t \in TaskRecord /\ t.at = "send" /\ t.status = status
      /\ task' = [task EXCEPT ![s] = t]
  BY <1>1, <1>2 DEF TaskRecord, TaskPlaces, Done
<1> HIDE DEF t
<1>4. Founded(s, t, ran)
  BY <1>3 DEF Founded
<1>5. QED
  BY <1>3, <1>4, TaskStep DEF TaskUnchanged, Surroundings

(* A status that is said without the program needs no container.           *)
LEMMA SaidInv ==
    ASSUME IInv, NEW s \in Names, task[s].at \notin {"none", "sent"},
           NEW status \in SaidWithoutProgram, status # NoStatus,
           Done(s, status), TaskUnchanged, UNCHANGED crashed
    PROVE  IInv'
<1>1. Good(status) /\ Earned(s, status, ran)
  BY GoodSaid DEF Earned
<1>2. QED
  BY <1>1, DoneInv

LEMMA ReadyIsOne == Ready \in Statuses /\ Good(Ready)
BY GoodReady, Zenon DEF Good

LEMMA StartInv == ASSUME IInv, NEW s \in Names, Start(s) PROVE IInv'
<1>1. /\ task[s] \in TaskRecord /\ task \in [Names -> TaskRecord]
      /\ launcherState \in LauncherStates
  BY OfTask DEF IInv, Typed
<1>2. task[s].at = "start" /\ TaskUnchanged /\ UNCHANGED crashed
  BY Zenon DEF Start
<1>3. CASE s = "proxy"
  <2>1. Done(s, Ready)
    BY <1>3, Zenon DEF Start
  <2>2. Good(Ready) /\ Earned(s, Ready, ran)
    BY <1>3, ReadyIsOne DEF Earned
  <2>3. task[s].at \notin {"none", "sent"}
    BY <1>2
  <2>4. QED
    BY <1>2, <2>1, <2>2, <2>3, DoneInv
<1>4. CASE s # "proxy"
  <2> DEFINE at == IF s \in {"bitcoind", "litecoind", "geth"}
                   THEN "mode" ELSE "look"
             t  == [task[s] EXCEPT !.at = at, !.launcher = launcherState]
  <2>1. task' = [task EXCEPT ![s].at = at, ![s].launcher = launcherState]
    BY <1>4, Zenon DEF Start
  <2>2. at \in {"mode", "look"}
    OBVIOUS
  <2> HIDE DEF at
  <2>3. t \in TaskRecord /\ t.at = at /\ task' = [task EXCEPT ![s] = t]
    BY <1>1, <2>1, <2>2 DEF TaskRecord, TaskPlaces
  <2> HIDE DEF t
  <2>4. Founded(s, t, ran)
    BY <2>2, <2>3 DEF Founded
  <2>5. QED
    BY <1>2, <2>2, <2>3, <2>4, TaskStep DEF TaskUnchanged, Surroundings
<1>5. QED
  BY <1>3, <1>4

(* The texts that a mode, a provider or a container that is not running    *)
(* gives rise to.                                                          *)
LEMMA SaidTexts ==
    /\ Plain("Error") \in SaidWithoutProgram /\ Plain("Error") # NoStatus
    /\ Plain("Ready (external or light)") \in SaidWithoutProgram
    /\ Plain("Ready (external or light)") # NoStatus
    /\ Plain("No provider") \in SaidWithoutProgram
    /\ Plain("No provider") # NoStatus
<1>1. /\ Plain("Error") \in SaidWithoutProgram
      /\ Plain("Ready (external or light)") \in SaidWithoutProgram
      /\ Plain("No provider") \in SaidWithoutProgram
  BY Zenon DEF SaidWithoutProgram
<1>2. /\ Plain("Error").text = "Error"
      /\ Plain("Ready (external or light)").text = "Ready (external or light)"
      /\ Plain("No provider").text = "No provider"
      /\ NoStatus.text = ""
  BY Zenon DEF Plain, NoStatus
<1>3. QED
  BY <1>1, <1>2, Zenon

LEMMA ProviderSaid ==
    ASSUME NEW answer \in ProviderAnswers
    PROVE  /\ ProviderStatus(answer) \in SaidWithoutProgram
           /\ ProviderStatus(answer) # NoStatus
<1>1. \/ ProviderStatus(answer) = Plain("Ready (provider)")
      \/ ProviderStatus(answer) = Plain("Unavailable")
  BY Zenon DEF ProviderStatus
<1>2. /\ Plain("Ready (provider)") \in SaidWithoutProgram
      /\ Plain("Unavailable") \in SaidWithoutProgram
  BY Zenon DEF SaidWithoutProgram
<1>3. /\ Plain("Ready (provider)").text = "Ready (provider)"
      /\ Plain("Unavailable").text = "Unavailable"
      /\ NoStatus.text = ""
  BY Zenon DEF Plain, NoStatus
<1>4. QED
  BY <1>1, <1>2, <1>3, Zenon

LEMMA NotRunningSaid ==
    ASSUME NEW name, NEW status \in ContainerStatuses, status # "running",
           NEW launcher
    PROVE  /\ NotRunning(name, status, launcher) \in SaidWithoutProgram
           /\ NotRunning(name, status, launcher) # NoStatus
<1>1. \/ NotRunning(name, status, launcher) = Plain("Container exited")
      \/ NotRunning(name, status, launcher) = Plain("Disabled")
      \/ NotRunning(name, status, launcher) = Plain("Container missing")
      \/ NotRunning(name, status, launcher) = Plain("Waiting for sync")
  <2>1. \/ ContainerStatus(name, status) = Plain("Container exited")
        \/ ContainerStatus(name, status) = Plain("Disabled")
        \/ ContainerStatus(name, status) = Plain("Container missing")
    <3>1. CASE status = "exited"
      BY <3>1, Zenon DEF ContainerStatus
    <3>2. CASE status = "none" /\ name \in Disabled
      BY <3>2, Zenon DEF ContainerStatus
    <3>3. CASE status = "none" /\ name \notin Disabled
      BY <3>3, Zenon DEF ContainerStatus
    <3>4. QED
      BY <3>1, <3>2, <3>3, Zenon DEF ContainerStatuses
  <2>2. \/ NotRunning(name, status, launcher) = ContainerStatus(name, status)
        \/ NotRunning(name, status, launcher) = Plain("Waiting for sync")
    BY Zenon DEF NotRunning
  <2>3. QED
    BY <2>1, <2>2, Zenon
<1>2. /\ Plain("Container exited") \in SaidWithoutProgram
      /\ Plain("Disabled") \in SaidWithoutProgram
      /\ Plain("Container missing") \in SaidWithoutProgram
      /\ Plain("Waiting for sync") \in SaidWithoutProgram
  BY Zenon DEF SaidWithoutProgram
<1>3. /\ Plain("Container exited").text = "Container exited"
      /\ Plain("Disabled").text = "Disabled"
      /\ Plain("Container missing").text = "Container missing"
      /\ Plain("Waiting for sync").text = "Waiting for sync"
      /\ NoStatus.text = ""
  BY Zenon DEF Plain, NoStatus
<1>4. QED
  BY <1>1, <1>2, <1>3, Zenon

LEMMA BackendModeInv ==
    ASSUME IInv, NEW s \in Names, BackendMode(s)
    PROVE  IInv'
<1>1. task[s].at = "mode" /\ TaskUnchanged /\ UNCHANGED crashed
  BY Zenon DEF BackendMode
<1>2. \/ Goto(s, "look")
      \/ Done(s, Plain("Error"))
      \/ Done(s, Plain("Ready (external or light)"))
  BY Zenon DEF BackendMode
<1>3. task[s].at \notin {"none", "sent"}
  BY <1>1
<1>4. CASE Goto(s, "look")
  BY <1>1, <1>3, <1>4, GotoInv
<1>5. CASE Done(s, Plain("Error"))
  BY <1>1, <1>3, <1>5, SaidTexts, SaidInv, Zenon
<1>6. CASE Done(s, Plain("Ready (external or light)"))
  BY <1>1, <1>3, <1>6, SaidTexts, SaidInv, Zenon
<1>7. QED
  BY <1>2, <1>4, <1>5, <1>6, Zenon

LEMMA ProviderModeInv ==
    ASSUME IInv, NEW s \in Names, ProviderMode(s)
    PROVE  IInv'
<1>1. task[s].at = "mode" /\ TaskUnchanged /\ UNCHANGED crashed
  BY Zenon DEF ProviderMode
<1>2. \/ Done(s, Plain("Error"))
      \/ Goto(s, "look")
      \/ Goto(s, "askProvider")
  BY Zenon DEF ProviderMode, Goto
<1>3. task[s].at \notin {"none", "sent"}
  BY <1>1
<1>4. CASE Goto(s, "look")
  BY <1>1, <1>3, <1>4, GotoInv
<1>5. CASE Goto(s, "askProvider")
  BY <1>1, <1>3, <1>5, GotoInv
<1>6. CASE Done(s, Plain("Error"))
  BY <1>1, <1>3, <1>6, SaidTexts, SaidInv, Zenon
<1>7. QED
  BY <1>2, <1>4, <1>5, <1>6, Zenon

LEMMA LookInv == ASSUME IInv, NEW s \in Names, Look(s) PROVE IInv'
<1>1. task[s].at = "look" /\ TaskUnchanged /\ UNCHANGED crashed
  BY DEF Look
<1>2. task[s].at \notin {"none", "sent"} /\ container[s] \in ContainerStatuses
  BY <1>1, OfTask
<1>3. CASE container[s] = "running"
  <2>1. Goto(s, "ask")
    BY <1>3 DEF Look
  <2>2. request.at # "idle"
    BY <1>1, OfTask DEF IInv, Spawned
  <2>3. s \in ran
    BY <1>3, <2>2 DEF IInv, Noticed
  <2>4. QED
    BY <1>1, <1>2, <2>1, <2>3, GotoInv
<1>4. CASE container[s] # "running"
  <2> DEFINE status == NotRunning(s, container[s], task[s].launcher)
  <2>1. Done(s, status)
    BY <1>4 DEF Look
  <2>2. status \in SaidWithoutProgram /\ status # NoStatus
    BY <1>2, <1>4, NotRunningSaid
  <2>3. QED
    BY <1>1, <1>2, <2>1, <2>2, SaidInv
<1>5. QED
  BY <1>3, <1>4

(* A panic ends the process or the request; the goroutine stays behind.    *)
LEMMA PanicInv ==
    ASSUME IInv, NEW s \in Names, task[s].at = "ask", PanicIn(s),
           UNCHANGED Surroundings
    PROVE  IInv'
<1>1. /\ task' = task
      /\ UNCHANGED <<services, container, launcherState, report, ran, changes>>
  BY DEF PanicIn, Surroundings
<1>2. request \in RequestRecord /\ crashed \in BOOLEAN /\ request.at # "idle"
  BY OfTask DEF IInv, Typed, Spawned
<1>3. \/ crashed' = TRUE /\ request' = request
      \/ crashed' = crashed /\ request' = [request EXCEPT !.at = "recovered"]
  BY DEF PanicIn
<1>4. /\ crashed' \in BOOLEAN
      /\ request' \in RequestRecord
      /\ request'.next = request.next /\ request'.asked = request.asked
      /\ request'.received = request.received
      /\ request'.at \in {request.at, "recovered"}
  BY <1>2, <1>3 DEF RequestRecord, RequestPlaces
<1>5. Names' = Names
  BY <1>1 DEF Names
<1>6. Typed'
  <2>1. RequestRecord' = RequestRecord
    BY <1>5 DEF RequestRecord
  <2>2. QED
    BY <1>1, <1>4, <1>5, <2>1 DEF IInv, Typed
<1>7. AllFounded' /\ Delivered' /\ Noticed'
  BY <1>1, <1>2, <1>4, <1>5 DEF IInv, AllFounded, Delivered, Noticed
<1>8. Spawned'
  BY <1>1, <1>2, <1>4, <1>5 DEF IInv, Spawned
<1>9. Counted'
  <2>1. Sent' = Sent
    BY <1>1, <1>5 DEF Sent
  <2>2. QED
    BY <1>4, <2>1 DEF IInv, Counted
<1>10. QED
  BY <1>6, <1>7, <1>8, <1>9 DEF IInv

LEMMA AskInv == ASSUME IInv, NEW s \in Names, Ask(s) PROVE IInv'
<1>1. task[s].at = "ask" /\ UNCHANGED Surroundings
  BY DEF Ask
<1>2. PICK answer \in Answers(s) :
        LET status == StatusOf(s, answer)
        IN IF status = Panic
           THEN PanicIn(s)
           ELSE Done(s, status) /\ UNCHANGED <<crashed, request>>
  BY DEF Ask
<1>3. CASE StatusOf(s, answer) = Panic
  BY <1>1, <1>2, <1>3, PanicInv
<1>4. CASE StatusOf(s, answer) # Panic
  <2> DEFINE status == StatusOf(s, answer)
  <2>1. Done(s, status) /\ UNCHANGED <<crashed, request>>
    BY <1>2, <1>4
  <2>2. Good(status)
    BY <1>4, GoodAnswer
  <2>3. Earned(s, status, ran)
    BY <1>1, OfTask DEF Founded, Earned
  <2>4. TaskUnchanged /\ task[s].at \notin {"none", "sent"}
    BY <1>1, <2>1 DEF TaskUnchanged
  <2> HIDE DEF status
  <2>5. QED
    BY <2>1, <2>2, <2>3, <2>4, DoneInv
<1>5. QED
  BY <1>3, <1>4

LEMMA AskProviderInv ==
    ASSUME IInv, NEW s \in Names, AskProvider(s)
    PROVE  IInv'
<1>1. task[s].at = "askProvider" /\ TaskUnchanged /\ UNCHANGED crashed
  BY Zenon DEF AskProvider
<1>2. \/ Done(s, Plain("No provider"))
      \/ \E answer \in ProviderAnswers : Done(s, ProviderStatus(answer))
  BY Zenon DEF AskProvider
<1>3. PICK status \in SaidWithoutProgram : status # NoStatus /\ Done(s, status)
  BY <1>2, SaidTexts, ProviderSaid, Zenon
<1>4. task[s].at \notin {"none", "sent"}
  BY <1>1
<1>5. QED
  BY <1>1, <1>3, <1>4, SaidInv

LEMMA HangInv == ASSUME IInv, NEW s \in Names, Hang(s) PROVE IInv'
<1>1. task[s].at \notin {"none", "sent"} /\ Goto(s, "hung")
        /\ TaskUnchanged /\ UNCHANGED crashed
  BY DEF Hang
<1>2. QED
  BY <1>1, GotoInv

LEMMA TaskInv == ASSUME IInv, NEW s \in Names, Task(s) PROVE IInv'
BY StartInv, BackendModeInv, ProviderModeInv, LookInv, AskInv, AskProviderInv,
   HangInv DEF Task

-----------------------------------------------------------------------------
(* The request.                                                            *)

LEMMA InitInv == Init => IInv
<1> SUFFICES ASSUME Init PROVE IInv
  OBVIOUS
<1>1. /\ services \in ServiceLists
      /\ container \in [Names -> ContainerStatuses]
      /\ launcherState \in LauncherStates
      /\ request = [at |-> "idle", next |-> 1, asked |-> {}, received |-> 0]
      /\ task = [s \in Names |-> [at |-> "none", launcher |-> "attached",
                                  status |-> NoStatus]]
      /\ report = [s \in Names |-> NoStatus]
      /\ crashed = FALSE /\ ran = {} /\ changes = 0
  BY DEF Init
<1>2. /\ request.at = "idle" /\ request.next = 1 /\ request.asked = {}
      /\ request.received = 0 /\ request \in RequestRecord
  BY <1>1 DEF RequestRecord, RequestPlaces
<1>3. /\ task \in [Names -> TaskRecord]
      /\ \A s \in Names : task[s].at = "none"
  BY <1>1, NoStatusTyped DEF TaskRecord, TaskPlaces, LauncherStates
<1>4. Typed
  <2>1. Len(services) \in Nat /\ Len(services) > 1
    BY <1>1, ServicesAssumption
  <2>2. 0 \in 0..MaxChanges
    BY ServicesAssumption
  <2>3. request.next \in 1..(Len(services) + 1)
    BY <1>2, <2>1
  <2>4. QED
    BY <1>1, <1>2, <1>3, <2>2, <2>3, NoStatusTyped DEF Typed
<1>5. AllFounded /\ Delivered /\ Spawned /\ Noticed
  BY <1>1, <1>2, <1>3
     DEF AllFounded, Founded, Delivered, Spawned, Noticed
<1>6. Counted
  <2>1. Sent = {}
    BY <1>3 DEF Sent
  <2>2. QED
    BY <1>2, <2>1, FS_EmptySet DEF Counted
<1>7. QED
  BY <1>4, <1>5, <1>6 DEF IInv

LEMMA OfRequest ==
    ASSUME IInv
    PROVE  /\ request \in RequestRecord
           /\ request.at \in RequestPlaces /\ request.next \in Nat \ {0}
           /\ request.asked \in SUBSET Names /\ request.received \in Nat
           /\ task \in [Names -> TaskRecord]
           /\ Typed
<1>1. request \in RequestRecord /\ Typed /\ task \in [Names -> TaskRecord]
  BY DEF IInv, Typed
<1>2. QED
  BY <1>1 DEF RequestRecord

LEMMA BeginInv == ASSUME IInv, Begin PROVE IInv'
<1>1. /\ request.at = "idle"
      /\ request' = [request EXCEPT !.at = "spawn", !.asked = Names]
      /\ ran' = {s \in Names : container[s] = "running"}
      /\ UNCHANGED <<services, container, launcherState, task, report, crashed,
                     changes>>
  BY DEF Begin
<1>2. request \in RequestRecord /\ Names' = Names
  BY <1>1, OfRequest DEF Names
<1>3. /\ request'.at = "spawn" /\ request'.asked = Names
      /\ request'.next = request.next /\ request'.received = request.received
      /\ request' \in RequestRecord
  BY <1>1, <1>2 DEF RequestRecord, RequestPlaces
<1>4. \A s \in Names : task[s].at = "none"
  BY <1>1 DEF IInv, Spawned
<1>5. Typed'
  <2>1. RequestRecord' = RequestRecord
    BY <1>2 DEF RequestRecord
  <2>2. QED
    BY <1>1, <1>2, <1>3, <2>1 DEF IInv, Typed
<1>6. AllFounded'
  BY <1>1, <1>2, <1>4 DEF AllFounded, Founded
<1>7. Delivered' /\ Noticed'
  BY <1>1, <1>2, <1>3 DEF IInv, Delivered, Noticed
<1>8. Spawned'
  <2>1. \A i \in DOMAIN services : services[i] \in Names
    BY OfRequest, Services
  <2>2. QED
    BY <1>1, <1>2, <1>3, <1>4, <2>1 DEF Spawned
<1>9. Counted'
  <2>1. Sent' = Sent
    BY <1>1, <1>2 DEF Sent
  <2>2. QED
    BY <1>1, <1>3, <2>1 DEF IInv, Counted
<1>10. QED
  BY <1>5, <1>6, <1>7, <1>8, <1>9 DEF IInv

LEMMA BeginOneInv == ASSUME IInv, NEW s \in Names, BeginOne(s) PROVE IInv'
<1>1. /\ request.at = "idle"
      /\ request' = [request EXCEPT !.at = "receive", !.asked = {s}]
      /\ ran' = {n \in Names : container[n] = "running"}
      /\ task' = [task EXCEPT ![s].at = "start"]
      /\ UNCHANGED <<services, container, launcherState, report, crashed,
                     changes>>
  BY DEF BeginOne
<1>2. /\ request \in RequestRecord /\ Names' = Names
      /\ task \in [Names -> TaskRecord]
  BY <1>1, OfRequest DEF Names
<1>3. /\ request'.at = "receive" /\ request'.asked = {s}
      /\ request'.next = request.next /\ request'.received = request.received
      /\ request' \in RequestRecord
  BY <1>1, <1>2 DEF RequestRecord, RequestPlaces
<1>4. \A n \in Names : task[n].at = "none"
  BY <1>1 DEF IInv, Spawned
<1>5. /\ task' \in [Names -> TaskRecord]
      /\ task'[s].at = "start"
      /\ \A n \in Names \ {s} : task'[n] = task[n]
  BY <1>1, <1>2 DEF TaskRecord, TaskPlaces
<1>6. Typed'
  <2>1. RequestRecord' = RequestRecord
    BY <1>2 DEF RequestRecord
  <2>2. QED
    BY <1>1, <1>2, <1>3, <1>5, <2>1 DEF IInv, Typed
<1>7. AllFounded'
  BY <1>1, <1>2, <1>4, <1>5 DEF AllFounded, Founded
<1>8. Delivered' /\ Noticed'
  BY <1>1, <1>2, <1>4, <1>5 DEF IInv, Delivered, Noticed
<1>9. Spawned'
  BY <1>2, <1>3, <1>4, <1>5 DEF Spawned
<1>10. Counted'
  <2>1. Sent' = Sent
    BY <1>2, <1>4, <1>5 DEF Sent
  <2>2. QED
    BY <1>1, <1>3, <2>1 DEF IInv, Counted
<1>11. QED
  BY <1>6, <1>7, <1>8, <1>9, <1>10 DEF IInv

(* One goroutine per service: the names of the list are distinct, so none  *)
(* of those that run already is started again.                             *)
LEMMA SpawnInv == ASSUME IInv, Spawn PROVE IInv'
<1> DEFINE s == services[request.next]
<1>1. /\ request.at = "spawn"
      /\ request.next <= Len(services)
      /\ request' = [request EXCEPT !.next = @ + 1]
      /\ task' = [task EXCEPT ![s].at = "start"]
      /\ UNCHANGED <<services, container, launcherState, report, crashed, ran,
                     changes>>
  BY DEF Spawn
<1>2. /\ request \in RequestRecord /\ Names' = Names
      /\ request.next \in Nat \ {0}
      /\ task \in [Names -> TaskRecord]
  BY <1>1, OfRequest DEF Names
<1>3. /\ request'.at = "spawn" /\ request'.asked = request.asked
      /\ request'.next = request.next + 1
      /\ request'.received = request.received
      /\ request' \in RequestRecord
  BY <1>1, <1>2 DEF RequestRecord, RequestPlaces
<1>4. /\ request.next \in DOMAIN services
      /\ DOMAIN services = 1..Len(services) /\ Len(services) \in Nat
      /\ \A i \in DOMAIN services : services[i] \in Names
      /\ \A i \in DOMAIN services : services[i] = s => i = request.next
  BY <1>1, <1>2, OfRequest, Services
<1>5. s \in Names /\ task[s].at = "none" /\ request.asked = Names
  BY <1>1, <1>2, <1>4 DEF IInv, Spawned
<1> HIDE DEF s
<1>6. /\ task' \in [Names -> TaskRecord]
      /\ task'[s].at = "start"
      /\ \A n \in Names \ {s} : task'[n] = task[n]
  BY <1>1, <1>2, <1>5 DEF TaskRecord, TaskPlaces
<1>7. Typed'
  <2>1. RequestRecord' = RequestRecord
    BY <1>2 DEF RequestRecord
  <2>2. request'.next \in 1..(Len(services) + 1)
    BY <1>1, <1>2, <1>3, <1>4
  <2>3. QED
    BY <1>1, <1>2, <1>3, <1>6, <2>1, <2>2 DEF IInv, Typed
<1>8. AllFounded'
  BY <1>1, <1>2, <1>6 DEF IInv, AllFounded, Founded
<1>9. Delivered' /\ Noticed'
  BY <1>1, <1>2, <1>3, <1>5, <1>6 DEF IInv, Delivered, Noticed
<1>10. Spawned'
  <2>1. \A i \in DOMAIN services : i >= request.next + 1 =>
           task'[services[i]].at = "none"
    <3>1. SUFFICES ASSUME NEW i \in DOMAIN services, i >= request.next + 1
                   PROVE  task'[services[i]].at = "none"
      OBVIOUS
    <3>2. i >= request.next /\ i # request.next
      BY <1>2, <1>4, <3>1
    <3>3. services[i] # s /\ services[i] \in Names
      BY <1>4, <3>2
    <3>4. task[services[i]].at = "none"
      BY <1>1, <3>2 DEF IInv, Spawned
    <3>5. QED
      BY <1>6, <3>3, <3>4
  <2>2. QED
    BY <1>1, <1>2, <1>3, <1>5, <2>1 DEF Spawned
<1>11. Counted'
  <2>1. Sent' = Sent
    BY <1>2, <1>5, <1>6 DEF Sent
  <2>2. QED
    BY <1>1, <1>3, <2>1 DEF IInv, Counted
<1>12. QED
  BY <1>7, <1>8, <1>9, <1>10, <1>11 DEF IInv

(* A step of the request that only moves it on.                            *)
LEMMA MoveInv ==
    ASSUME IInv, request.at # "idle", NEW at \in {"receive", "returned"},
           request' = [request EXCEPT !.at = at],
           at = "returned" => request.received = Cardinality(request.asked),
           UNCHANGED <<services, container, launcherState, task, report,
                       crashed, ran, changes>>
    PROVE  IInv'
<1>1. request \in RequestRecord /\ Names' = Names
  BY OfRequest DEF Names
<1>2. /\ request'.at = at /\ request'.asked = request.asked
      /\ request'.next = request.next /\ request'.received = request.received
      /\ request' \in RequestRecord
  BY <1>1 DEF RequestRecord, RequestPlaces
<1>3. Typed'
  <2>1. RequestRecord' = RequestRecord
    BY <1>1 DEF RequestRecord
  <2>2. QED
    BY <1>1, <1>2, <2>1 DEF IInv, Typed
<1>4. AllFounded' /\ Delivered' /\ Noticed'
  BY <1>1, <1>2 DEF IInv, AllFounded, Delivered, Noticed
<1>5. Spawned'
  BY <1>1, <1>2 DEF IInv, Spawned
<1>6. Counted'
  <2>1. Sent' = Sent
    BY <1>1 DEF Sent
  <2>2. QED
    BY <1>2, <2>1 DEF IInv, Counted
<1>7. QED
  BY <1>3, <1>4, <1>5, <1>6 DEF IInv

LEMMA SpawnedAllInv == ASSUME IInv, SpawnedAll PROVE IInv'
BY MoveInv DEF SpawnedAll

LEMMA ReturnInv == ASSUME IInv, Return PROVE IInv'
BY MoveInv DEF Return

(* A status is received: one more goroutine has sent.                      *)
LEMMA ReceiveInv == ASSUME IInv, NEW s \in Names, Receive(s) PROVE IInv'
<1>1. /\ request.at = "receive"
      /\ task[s].at = "send"
      /\ request' = [request EXCEPT !.received = @ + 1]
      /\ report' = [report EXCEPT ![s] = task[s].status]
      /\ task' = [task EXCEPT ![s].at = "sent"]
      /\ UNCHANGED <<services, container, launcherState, crashed, ran, changes>>
  BY DEF Receive
<1>2. /\ request \in RequestRecord /\ Names' = Names
      /\ request.received \in Nat
      /\ task \in [Names -> TaskRecord]
      /\ report \in [Names -> Statuses]
      /\ task[s].status \in Statuses
  BY <1>1, OfRequest, OfTask DEF Names, Typed
<1>3. /\ request'.at = "receive" /\ request'.asked = request.asked
      /\ request'.next = request.next
      /\ request'.received = request.received + 1
      /\ request' \in RequestRecord
  BY <1>1, <1>2 DEF RequestRecord, RequestPlaces
<1>4. /\ task' \in [Names -> TaskRecord]
      /\ task'[s].at = "sent" /\ task'[s].status = task[s].status
      /\ \A n \in Names \ {s} : task'[n] = task[n]
  BY <1>1, <1>2 DEF TaskRecord, TaskPlaces
<1>5. /\ report' \in [Names -> Statuses]
      /\ report'[s] = task[s].status
      /\ \A n \in Names \ {s} : report'[n] = report[n]
  BY <1>1, <1>2
<1>6. Typed'
  <2>1. RequestRecord' = RequestRecord
    BY <1>2 DEF RequestRecord
  <2>2. QED
    BY <1>1, <1>2, <1>3, <1>4, <1>5, <2>1 DEF IInv, Typed
<1>7. AllFounded'
  <2>1. \A n \in Names : Founded(n, task'[n], ran)
    BY <1>1, <1>4 DEF IInv, AllFounded, Founded
  <2>2. QED
    BY <1>1, <1>2, <2>1 DEF AllFounded
<1>8. Delivered' /\ Noticed'
  BY <1>1, <1>2, <1>3, <1>4, <1>5 DEF IInv, Delivered, Noticed
<1>9. Spawned'
  BY <1>1, <1>2, <1>3, <1>4 DEF IInv, Spawned
<1>10. Counted'
  <2>1. Sent' = Sent \cup {s} /\ s \notin Sent
    BY <1>1, <1>2, <1>4 DEF Sent
  <2>2. IsFiniteSet(Sent)
    BY OfRequest, FewSent DEF Sent
  <2>3. Cardinality(Sent') = Cardinality(Sent) + 1
    BY <2>1, <2>2, FS_AddElement
  <2>4. QED
    BY <1>3, <2>3 DEF IInv, Counted
<1>11. QED
  BY <1>6, <1>7, <1>8, <1>9, <1>10 DEF IInv

-----------------------------------------------------------------------------
(* The surroundings.                                                       *)

LEMMA EarnedStays ==
    ASSUME NEW s, NEW t, NEW up, NEW more, up \subseteq more, Founded(s, t, up)
    PROVE  Founded(s, t, more)
BY DEF Founded, Earned

LEMMA ContainerChangesInv ==
    ASSUME IInv, NEW s \in Names, ContainerChanges(s)
    PROVE  IInv'
<1>1. PICK status \in ContainerStatuses \ {container[s]} :
        /\ container' = [container EXCEPT ![s] = status]
        /\ ran' = IF status = "running" /\ request.at # "idle"
                  THEN ran \cup {s} ELSE ran
  BY DEF ContainerChanges
<1>2. /\ changes < MaxChanges /\ changes' = changes + 1
      /\ UNCHANGED <<services, launcherState, request, task, report, crashed>>
      /\ Names' = Names
  BY DEF ContainerChanges, Names
<1>3. /\ container \in [Names -> ContainerStatuses]
      /\ ran \subseteq ran' /\ ran' \subseteq Names
      /\ MaxChanges \in Nat /\ changes \in 0..MaxChanges
  BY <1>1, ServicesAssumption DEF IInv, Typed
<1>4. /\ container' \in [Names -> ContainerStatuses]
      /\ container'[s] = status
      /\ \A n \in Names \ {s} : container'[n] = container[n]
  BY <1>1, <1>3
<1>5. Typed'
  <2>1. RequestRecord' = RequestRecord
    BY <1>2 DEF RequestRecord
  <2>2. changes' \in 0..MaxChanges
    BY <1>2, <1>3
  <2>3. QED
    BY <1>2, <1>3, <1>4, <2>1, <2>2 DEF IInv, Typed
<1>6. AllFounded'
  <2>1. \A n \in Names : Founded(n, task[n], ran')
    BY <1>3, EarnedStays DEF IInv, AllFounded
  <2>2. QED
    BY <1>2, <2>1 DEF AllFounded
<1>7. Delivered' /\ Spawned'
  BY <1>2 DEF IInv, Delivered, Spawned
<1>8. Counted'
  <2>1. Sent' = Sent
    BY <1>2 DEF Sent
  <2>2. QED
    BY <1>2, <2>1 DEF IInv, Counted
<1>9. Noticed'
  BY <1>1, <1>2, <1>3, <1>4 DEF IInv, Noticed
<1>10. QED
  BY <1>5, <1>6, <1>7, <1>8, <1>9 DEF IInv

(* The launcher changes its state, or nothing happens.                     *)
LEMMA LauncherChangesInv ==
    ASSUME IInv, launcherState' \in LauncherStates,
           changes' \in 0..MaxChanges,
           UNCHANGED <<services, container, request, task, report, crashed,
                       ran>>
    PROVE  IInv'
<1>1. Names' = Names
  BY DEF Names
<1>2. RequestRecord' = RequestRecord /\ Sent' = Sent
  BY <1>1 DEF RequestRecord, Sent
<1>3. Typed'
  BY <1>1, <1>2 DEF IInv, Typed
<1>4. AllFounded' /\ Delivered' /\ Spawned' /\ Noticed'
  BY <1>1 DEF IInv, AllFounded, Delivered, Spawned, Noticed
<1>5. Counted'
  BY <1>2 DEF IInv, Counted
<1>6. QED
  BY <1>3, <1>4, <1>5 DEF IInv

-----------------------------------------------------------------------------
LEMMA NextInv == IInv /\ [Next]_vars => IInv'
<1> SUFFICES ASSUME IInv, [Next]_vars PROVE IInv'
  OBVIOUS
<1>1. CASE Request
  BY <1>1, BeginInv, SpawnInv, SpawnedAllInv, ReturnInv, BeginOneInv,
     ReceiveInv DEF Request
<1>2. CASE LauncherChanges
  <2>1. changes' \in 0..MaxChanges
    BY <1>2, ServicesAssumption DEF LauncherChanges, IInv, Typed
  <2>2. QED
    BY <1>2, <2>1, LauncherChangesInv DEF LauncherChanges
<1>3. ASSUME NEW s \in Names, Task(s) \/ ContainerChanges(s) PROVE IInv'
  BY <1>3, TaskInv, ContainerChangesInv
<1>4. CASE UNCHANGED vars
  BY <1>4, LauncherChangesInv DEF vars, IInv, Typed
<1>5. QED
  BY <1>1, <1>2, <1>3, <1>4 DEF Next

(* The goroutines, what they have computed and seen, and what the request  *)
(* has counted and received, for every list of services.                   *)
THEOREM Invariance == Spec => []IInv
<1>1. Init => IInv
  BY InitInv
<1>2. IInv /\ [Next]_vars => IInv'
  BY NextInv
<1>3. QED
  BY <1>1, <1>2, PTL DEF Spec

(* A request receives no more statuses than there are services, and every  *)
(* status is one of the known texts with heights that are in range.        *)
THEOREM TypeCorrect == Spec => []TypeOK
<1>1. IInv => TypeOK
  <2> SUFFICES ASSUME IInv PROVE TypeOK
    OBVIOUS
  <2>1. Typed /\ request.received = Cardinality(Sent) /\ Sent \in SUBSET Names
    BY DEF IInv, Counted, Sent
  <2>2. Cardinality(Sent) \in Nat /\ Cardinality(Sent) <= Len(services)
    BY <2>1, FewSent
  <2>3. Len(services) \in Nat
    BY <2>1, Services
  <2>4. request.received \in 0..Len(services)
    BY <2>1, <2>2, <2>3
  <2>5. request \in [at : RequestPlaces, next : 1..(Len(services) + 1),
                     asked : SUBSET Names, received : 0..Len(services)]
    <3>1. request.next \in 1..(Len(services) + 1) /\ request \in RequestRecord
      BY <2>1 DEF Typed
    <3>2. QED
      BY <2>4, <3>1 DEF RequestRecord
  <2>6. QED
    BY <2>1, <2>5 DEF Typed, TypeOK, RequestPlaces, TaskRecord, TaskPlaces
<1>2. QED
  BY <1>1, Invariance, PTL

(* Manager.GetStatus counts what it receives and never looks at the names, *)
(* and yet its report has exactly the status that each goroutine computed. *)
THEOREM ReportIsComplete == Spec => []CompleteReport
<1>1. IInv => CompleteReport
  <2> SUFFICES ASSUME IInv, request.at = "returned",
                      NEW s \in request.asked
               PROVE  report[s] # NoStatus /\ report[s] = task[s].status
    BY DEF CompleteReport
  <2>1. Typed /\ request.asked \in SUBSET Names
    BY OfRequest
  <2>2. Cardinality(Sent) = Cardinality(request.asked)
    BY DEF IInv, Counted
  <2>3. Sent \in SUBSET request.asked
    BY DEF IInv, Spawned, Sent
  <2>4. IsFiniteSet(request.asked)
    BY <2>1, FewSent
  <2>5. Sent = request.asked
    BY <2>2, <2>3, <2>4, FS_Subset
  <2>6. s \in Names /\ task[s].at = "sent"
    BY <2>5 DEF Sent
  <2>7. report[s] = task[s].status
    BY <2>6 DEF IInv, Delivered
  <2>8. Good(task[s].status)
    BY <2>6 DEF IInv, AllFounded, Founded
  <2>9. QED
    BY <2>7, <2>8 DEF Good
<1>2. QED
  BY <1>1, Invariance, PTL

(* Every status but a few that need no program was asked of a program      *)
(* whose container the cache showed running during this very request.      *)
THEOREM ReportsAreFounded == Spec => []ReportedWasRunning
<1>1. IInv => ReportedWasRunning
  <2> SUFFICES ASSUME IInv, NEW s \in Names, s # "proxy",
                      report[s] \notin SaidWithoutProgram
               PROVE  s \in ran
    BY DEF ReportedWasRunning
  <2>1. NoStatus \in SaidWithoutProgram
    BY Zenon DEF NoStatus, SaidWithoutProgram
  <2>2. task[s].at = "sent" /\ report[s] = task[s].status
    BY <2>1 DEF IInv, Delivered
  <2>3. Earned(s, task[s].status, ran)
    BY <2>2 DEF IInv, AllFounded, Founded
  <2>4. QED
    BY <2>2, <2>3 DEF Earned
<1>2. QED
  BY <1>1, Invariance, PTL

(* A sync that is over is never shown as one in progress, and no sync is   *)
(* shown beyond its end, whatever heights a program or its log tells.      *)
THEOREM ProgressIsBehind == Spec => []SyncingIsBehind
<1>1. IInv => SyncingIsBehind
  <2> SUFFICES ASSUME IInv, NEW s \in Names PROVE Behind(report[s])
    BY Zenon DEF SyncingIsBehind, Behind
  <2>1. Behind(NoStatus)
    BY Zenon DEF Behind, NoStatus, Plain
  <2>2. CASE task[s].at = "sent"
    <3>1. Good(task[s].status)
      BY <2>2 DEF IInv, AllFounded, Founded
    <3>2. report[s] = task[s].status
      BY <2>2 DEF IInv, Delivered
    <3>3. QED
      BY <3>1, <3>2 DEF Good
  <2>3. CASE task[s].at # "sent"
    BY <2>1, <2>3 DEF IInv, Delivered
  <2>4. QED
    BY <2>2, <2>3
<1>2. QED
  BY <1>1, Invariance, PTL

=============================================================================
