--------------------------- MODULE ServiceStatus ---------------------------
(***************************************************************************)
(* The GetStatus functions of the services: what each makes of the cached  *)
(* status of its container and of the answer of the program inside.  A     *)
(* status is a text and, where the text shows progress, its two numbers.   *)
(* An answer is a record whose field `is' tells the cases apart.           *)
(***************************************************************************)
EXTENDS Naturals

CONSTANTS
    MaxHeight,    \* block heights are 0..MaxHeight
    Disabled      \* the services that config.json disables, in native mode

ASSUME HeightAssumption == MaxHeight \in Nat

Heights == 0..MaxHeight

Plain(text) == [text |-> text, current |-> 0, total |-> 0]
Syncing(current, total) ==
    [text |-> "Syncing %", current |-> current, total |-> total]

Ready    == Plain("Ready")
NoStatus == Plain("")
Panic    == Plain("panic")

-----------------------------------------------------------------------------
(* The container: SingleContainerService.GetStatus.                        *)

\* "none": the engine knows no such container; "exited": any status but running.
ContainerStatuses == {"none", "running", "exited"}

ContainerStatus(name, container) ==
    CASE container = "running" -> Plain("Container running")
      [] container = "exited"  -> Plain("Container exited")
      [] container = "none" /\ name \in Disabled    -> Plain("Disabled")
      [] container = "none" /\ name \notin Disabled -> Plain("Container missing")

\* xud, arby and boltz wait for the chains to be synced during the setup.
WaitsForSync == {"xud", "arby", "boltz"}

\* The status of a service whose container is not running.
NotRunning(name, container, launcherState) ==
    LET status == ContainerStatus(name, container)
    IN IF /\ status # Plain("Disabled")
          /\ name \in WaitsForSync
          /\ launcherState = "setup"
       THEN Plain("Waiting for sync")
       ELSE status

-----------------------------------------------------------------------------
(* The program in the container, once it is running.                       *)

\* What xud says of lndbtc, lndltc and connext; a part may be absent.
Parts == {"Ready", "no channels", "other", "absent"}

XudAnswers ==
    [is : {"locked", "no wallet", "starting", "error"}]
      \cup [is : {"info"}, lndbtc : Parts, lndltc : Parts, connext : Parts]

XudStatus(answer) ==
    IF answer.is # "info" THEN Plain(answer.is)
    ELSE LET parts == {answer.lndbtc, answer.lndltc, answer.connext}
         IN CASE "absent" \in parts      -> Panic
              [] parts = {"Ready"}       -> Ready
              [] "no channels" \in parts -> Plain("Waiting for channels")
              [] OTHER                   -> Plain("Waiting for services")

\* connext asks xud first, and its own health endpoint if xud does not answer.
ConnextAnswers == [is : {"xud"}, connext : Parts]
                    \cup [is : {"health"}, healthy : BOOLEAN]

ConnextStatus(answer) ==
    IF answer.is = "xud"
    THEN IF answer.connext = "absent" THEN Panic ELSE Plain(answer.connext)
    ELSE IF answer.healthy THEN Ready ELSE Plain("Starting...")

\* Mutant of SyncingText: the total as it was logged.
SyncingTextAsLogged(current, total) ==
    IF total = current /\ total > 0
    THEN Plain("Synced 100%")
    ELSE Syncing(current, total)

SyncingText(current, total) ==
    LET whole == IF total < current THEN current ELSE total
    IN IF whole = current /\ whole > 0
       THEN Plain("Synced 100%")
       ELSE Syncing(current, whole)

\* lnd: GetInfo fails, with one of the errors that stand for "not up yet" or
\* another, or it tells the height of the chain; logged is the height of the
\* last block in the log, 0 if there is none.
LndAnswers ==
    [is : {"locked", "error"}]
      \cup [is : {"not up"}, current : Heights, total : Heights]
      \cup [is : {"info"}, synced : BOOLEAN, height : Heights, logged : Heights]

LndStatus(answer) ==
    CASE answer.is = "not up" -> SyncingText(answer.current, answer.total)
      [] answer.is = "info" /\ answer.logged > 0 ->
           IF answer.height <= answer.logged
           THEN Ready
           ELSE SyncingText(answer.logged, answer.height)
      [] answer.is = "info" /\ answer.logged = 0 ->
           IF answer.synced THEN Ready ELSE Plain("Syncing")
      [] OTHER -> Plain(answer.is)

\* A node never has more blocks than headers; an answer that is no error may
\* lack the two numbers, and the assertions of their types then panic.
BitcoindAnswers ==
    [is : {"down", "loading", "numberless"}]
      \cup {a \in [is : {"info"}, blocks : Heights, headers : Heights] :
              a.blocks <= a.headers}

BitcoindStatus(answer) ==
    CASE answer.is = "numberless" -> Panic
      [] answer.is = "info" ->
           IF answer.blocks > 0 /\ answer.blocks = answer.headers
           THEN Ready
           ELSE Syncing(answer.blocks, answer.headers)
      [] OTHER -> Plain(answer.is)

\* geth answers eth_syncing with its progress, while there is any, or else
\* eth_blockNumber.  A number beyond 31 bits does not parse.
GethAnswers ==
    [is : {"down"}]
      \cup [is : {"block"}, number : Heights, parses : BOOLEAN]
      \cup {a \in [is : {"syncing"}, current : Heights, highest : Heights,
                   parses : BOOLEAN] : a.current < a.highest}

\* Mutant of GethStatus: the block under way counted in.
GethStatusCountingOneMore(answer) ==
    CASE answer.is = "down" -> Plain("down")
      [] answer.is = "syncing" -> Syncing(answer.current + 1, answer.highest + 1)
      [] answer.is = "block" -> Ready

GethStatus(answer) ==
    CASE answer.is = "down"                      -> Plain("down")
      [] answer.is # "down" /\ ~answer.parses    -> Plain("down")
      [] answer.is = "syncing" /\ answer.parses  ->
           Syncing(answer.current, answer.highest)
      [] answer.is = "block" /\ answer.parses    ->
           IF answer.number = 0 THEN Plain("Waiting for sync") ELSE Ready

\* The Ethereum provider of connext, when it is not geth.
ProviderAnswers == [is : {"provider"}, up : BOOLEAN]

ProviderStatus(answer) == Plain(IF answer.up THEN "Ready (provider)" ELSE "Unavailable")

BoltzAnswers == [is : {"nodes"}, btc : BOOLEAN, ltc : BOOLEAN]

BoltzStatus(answer) ==
    IF answer.btc /\ answer.ltc THEN Ready ELSE Plain("node down")

\* arby and webui are ready when their container runs: nothing is asked.
SilentAnswers == [is : {"nothing"}]

-----------------------------------------------------------------------------
Answers(name) ==
    CASE name = "xud"                       -> XudAnswers
      [] name \in {"lndbtc", "lndltc"}      -> LndAnswers
      [] name = "connext"                   -> ConnextAnswers
      [] name \in {"bitcoind", "litecoind"} -> BitcoindAnswers
      [] name = "geth"                      -> GethAnswers
      [] name = "boltz"                     -> BoltzAnswers
      [] OTHER                              -> SilentAnswers

StatusOf(name, answer) ==
    CASE name = "xud"                       -> XudStatus(answer)
      [] name \in {"lndbtc", "lndltc"}      -> LndStatus(answer)
      [] name = "connext"                   -> ConnextStatus(answer)
      [] name \in {"bitcoind", "litecoind"} -> BitcoindStatus(answer)
      [] name = "geth"                      -> GethStatus(answer)
      [] name = "boltz"                     -> BoltzStatus(answer)
      [] OTHER                              -> Ready

\* These wait for an answer without a deadline.
NoDeadline == {"lndbtc", "lndltc", "geth", "boltz"}
=============================================================================
