-------------------------- MODULE LauncherRegistry --------------------------
(***************************************************************************)
(* launcher/ws.go: launchers attach to the proxy through a websocket, and  *)
(* API requests (GetInfo, UpdateBackup) are passed to the first of them.   *)
(*                                                                         *)
(* A call gives its message the next number of the launcher's counter,     *)
(* sends it, registers a channel under the number and waits, without a     *)
(* limit, for what the goroutine Listen of the launcher passes to the      *)
(* channel of the number it reads in a message.  The slice of launchers,   *)
(* the counter and the map of channels are shared by all goroutines and    *)
(* not locked: a step reads or writes each of them, not both.  An append   *)
(* to the slice reads the header, and then writes the cell and the header; *)
(* a removal looks for its launcher, then reads the header and moves       *)
(* cells, and then writes the header.                                      *)
(***************************************************************************)
EXTENDS Naturals, Sequences, GoSlice

CONSTANTS
    Launchers,     \* websocket connections; each attaches once
    Callers,       \* API requests; each makes one call
    NoCaller,      \* no channel: the nil channel of a missing map entry
    W,             \* the counter counts modulo W (65536 in the code)
    MaxOwn         \* bound on the requests a launcher sends on its own

ASSUME RegistryAssumption == W \in Nat \ {0} /\ MaxOwn \in Nat
                             /\ NoCaller \notin Callers

VARIABLES
    mem, launchers,  \* the slice `launchers' and its arrays
    attach,          \* attach[l]: the request that upgrades to l: [at, base]
    open,            \* open[l]: the connection l is up
    counter,         \* counter[l]
    requests,        \* requests[l][id]: the caller whose channel is registered
    outbox,          \* outbox[l]: messages sent to l and not yet answered
    inbox,           \* inbox[l]: messages sent by l and not yet read
    own,             \* own[l]: how many requests l sent on its own
    listen,          \* listen[l]: the goroutine Listen of l
    caller,          \* caller[c]: the call c
    crashed,         \* the process died of a panic
    torn,            \* auxiliary: whether updates of the slice overlapped
    collided         \* auxiliary: a call was given a number in use

vars == <<mem, launchers, attach, open, counter, requests, outbox, inbox,
          own, listen, caller, crashed, torn, collided>>

Ids == 0..(W - 1)

\* A message of a launcher.  A response carries the call it answers; to is
\* NoCaller in a request of the launcher.
Message == [id : Ids, to : Callers \cup {NoCaller}]

NoMessage == [id |-> 0, to |-> NoCaller]

Init ==
    /\ mem = <<>>
    /\ launchers = EmptySlice
    /\ attach = [l \in Launchers |-> [at |-> "idle", base |-> EmptySlice]]
    /\ open = [l \in Launchers |-> FALSE]
    /\ counter = [l \in Launchers |-> 0]
    /\ requests = [l \in Launchers |-> [id \in Ids |-> NoCaller]]
    /\ outbox = [l \in Launchers |-> {}]
    /\ inbox = [l \in Launchers |-> <<>>]
    /\ own = [l \in Launchers |-> 0]
    /\ listen = [l \in Launchers |->
                   [at |-> "none", base |-> EmptySlice, found |-> 0,
                    read |-> EmptySlice, msg |-> NoMessage,
                    target |-> NoCaller]]
    /\ caller = [c \in Callers |->
                   [at |-> "idle", launcher |-> Nil, base |-> 0, id |-> 0,
                    answer |-> NoMessage]]
    /\ crashed = FALSE
    /\ torn = FALSE
    /\ collided = FALSE

\* The messages between l and the calls: sent, answered, or in Listen's hand.
InFlight(l) == outbox[l] \cup {inbox[l][i] : i \in 1..Len(inbox[l])}
                 \cup {m \in {listen[l].msg} : listen[l].at = "deliver"}

\* The calls that use the number id of l: from SendMessage until they return,
\* and as long as their message or its answer is under way.
Users(l, id) ==
    {d \in Callers :
       /\ caller[d].launcher = l
       /\ caller[d].id = id
       /\ \/ caller[d].at \in {"register", "wait", "close", "delete"}
          \/ \E m \in InFlight(l) : m.to = d}

-----------------------------------------------------------------------------
(* WsHandler: launchers = append(launchers, &launcher), read and write.    *)

Attach(l) ==
    /\ attach[l].at = "idle"
    /\ attach' = [attach EXCEPT ![l] = [at |-> "append", base |-> launchers]]
    /\ open' = [open EXCEPT ![l] = TRUE]
    /\ UNCHANGED <<mem, launchers, counter, requests, outbox, inbox, own,
                   listen, caller, crashed, torn, collided>>

\* Another removal has moved cells and has not yet written its header.
Overlaps(l) == \E k \in Launchers \ {l} : listen[k].at = "store"

AppendLauncher(l) ==
    /\ attach[l].at = "append"
    /\ attach' = [attach EXCEPT ![l].at = "done"]
    /\ mem' = MemAppended(mem, attach[l].base, l)
    /\ launchers' = Appended(mem, attach[l].base, l)
    /\ torn' = (torn \/ launchers # attach[l].base \/ Overlaps(l))
    /\ listen' = [listen EXCEPT ![l].at = "read"]
    /\ UNCHANGED <<open, counter, requests, outbox, inbox, own, caller,
                   crashed, collided>>

-----------------------------------------------------------------------------
(* The launcher at the other end of the connection.                        *)

\* It answers every message once, in any order.
Answer(l) ==
    /\ open[l]
    /\ \E m \in outbox[l] :
         /\ outbox' = [outbox EXCEPT ![l] = @ \ {m}]
         /\ inbox' = [inbox EXCEPT ![l] = Append(@, m)]
    /\ UNCHANGED <<mem, launchers, attach, open, counter, requests, own,
                   listen, caller, crashed, torn, collided>>

\* It sends a request of its own, numbered as it likes.
OwnRequest(l) ==
    /\ open[l]
    /\ own[l] < MaxOwn
    /\ own' = [own EXCEPT ![l] = @ + 1]
    /\ \E id \in Ids :
         inbox' = [inbox EXCEPT ![l] = Append(@, [id |-> id, to |-> NoCaller])]
    /\ UNCHANGED <<mem, launchers, attach, open, counter, requests, outbox,
                   listen, caller, crashed, torn, collided>>

\* The connection breaks; what was in flight to the proxy may be lost.
Disconnect(l) ==
    /\ open[l]
    /\ open' = [open EXCEPT ![l] = FALSE]
    /\ \E k \in 0..Len(inbox[l]) :
         inbox' = [inbox EXCEPT ![l] = SubSeq(@, 1, k)]
    /\ UNCHANGED <<mem, launchers, attach, counter, requests, outbox, own,
                   listen, caller, crashed, torn, collided>>

-----------------------------------------------------------------------------
(* The package-level GetInfo or UpdateBackup, then the launcher's.         *)

CallerAt(c, at) == caller' = [caller EXCEPT ![c].at = at]

\* if len(launchers) == 0
CheckLaunchers(c) ==
    /\ caller[c].at = "idle"
    /\ CallerAt(c, IF launchers.len = 0 THEN "failed" ELSE "pick")
    /\ UNCHANGED <<mem, launchers, attach, open, counter, requests, outbox,
                   inbox, own, listen, crashed, torn, collided>>

\* launchers[0]; the slice may have become empty, and the HTTP server
\* recovers from the panic.
PickLauncher(c) ==
    /\ caller[c].at = "pick"
    /\ IF launchers.len = 0
       THEN CallerAt(c, "failed")
       ELSE caller' = [caller EXCEPT ![c].at = "count",
                                     ![c].launcher = Elem(mem, launchers, 1)]
    /\ UNCHANGED <<mem, launchers, attach, open, counter, requests, outbox,
                   inbox, own, listen, crashed, torn, collided>>

\* t.counter += 1: read ...
ReadCounter(c) ==
    /\ caller[c].at = "count"
    /\ caller' = [caller EXCEPT ![c].at = "add",
                                ![c].base = counter[caller[c].launcher]]
    /\ UNCHANGED <<mem, launchers, attach, open, counter, requests, outbox,
                   inbox, own, listen, crashed, torn, collided>>

\* Mutant of WriteCounter: the counter is wider than the ids.
WriteCounterWide(c) ==
    LET l == caller[c].launcher
    IN /\ caller[c].at = "add"
       /\ counter' = [counter EXCEPT ![l] = caller[c].base + 1]
       /\ CallerAt(c, "send")
       /\ UNCHANGED <<mem, launchers, attach, open, requests, outbox, inbox,
                      own, listen, crashed, torn, collided>>

\* ... and write.
WriteCounter(c) ==
    LET l == caller[c].launcher
    IN /\ caller[c].at = "add"
       /\ counter' = [counter EXCEPT ![l] = (caller[c].base + 1) % W]
       /\ CallerAt(c, "send")
       /\ UNCHANGED <<mem, launchers, attach, open, requests, outbox, inbox,
                      own, listen, crashed, torn, collided>>

\* Id: t.counter, read again; the message is written to the connection.  The
\* error of a broken connection is ignored.
SendMessage(c) ==
    LET l  == caller[c].launcher
        id == counter[l]
    IN /\ caller[c].at = "send"
       /\ caller' = [caller EXCEPT ![c].at = "register", ![c].id = id]
       /\ outbox' = IF open[l]
                    THEN [outbox EXCEPT ![l] = @ \cup {[id |-> id, to |-> c]}]
                    ELSE outbox
       /\ collided' = (collided \/ Users(l, id) # {})
       /\ UNCHANGED <<mem, launchers, attach, open, counter, requests, inbox,
                      own, listen, crashed, torn>>

\* Mutant of Register: t.requests[t.counter] = respChan.
RegisterAtCounter(c) ==
    LET l == caller[c].launcher
    IN /\ caller[c].at = "register"
       /\ requests' = [requests EXCEPT ![l][counter[l]] = c]
       /\ CallerAt(c, "wait")
       /\ UNCHANGED <<mem, launchers, attach, open, counter, outbox, inbox,
                      own, listen, crashed, torn, collided>>

\* t.requests[req.Id] = respChan
Register(c) ==
    /\ caller[c].at = "register"
    /\ requests' = [requests EXCEPT ![caller[c].launcher][caller[c].id] = c]
    /\ CallerAt(c, "wait")
    /\ UNCHANGED <<mem, launchers, attach, open, counter, outbox, inbox, own,
                   listen, crashed, torn, collided>>

\* close(respChan)
CloseChan(c) ==
    /\ caller[c].at = "close"
    /\ CallerAt(c, "delete")
    /\ UNCHANGED <<mem, launchers, attach, open, counter, requests, outbox,
                   inbox, own, listen, crashed, torn, collided>>

\* delete(t.requests, req.Id), and return
DeleteRequest(c) ==
    /\ caller[c].at = "delete"
    /\ requests' = [requests EXCEPT
                      ![caller[c].launcher][caller[c].id] = NoCaller]
    /\ CallerAt(c, "done")
    /\ UNCHANGED <<mem, launchers, attach, open, counter, outbox, inbox, own,
                   listen, crashed, torn, collided>>

Call(c) ==
    \/ CheckLaunchers(c) \/ PickLauncher(c) \/ ReadCounter(c)
    \/ WriteCounter(c) \/ SendMessage(c) \/ Register(c)
    \/ CloseChan(c) \/ DeleteRequest(c)

-----------------------------------------------------------------------------
(* Listen.                                                                 *)

\* Mutant of ReadMessage: a response without a channel is ignored.
ReadMessageKnown(l) ==
    /\ listen[l].at = "read"
    /\ inbox[l] # <<>>
    /\ inbox' = [inbox EXCEPT ![l] = Tail(@)]
    /\ LET msg == Head(inbox[l])
           c   == requests[l][msg.id]
       IN listen' = IF c = NoCaller
                    THEN listen
                    ELSE [listen EXCEPT ![l].at = "deliver", ![l].msg = msg,
                                        ![l].target = c]
    /\ UNCHANGED <<mem, launchers, attach, open, counter, requests, outbox,
                   own, caller, crashed, torn, collided>>

\* Mutant of ReadMessage: the answer is taken for that of the last call.
ReadMessageLast(l) ==
    /\ listen[l].at = "read"
    /\ inbox[l] # <<>>
    /\ inbox' = [inbox EXCEPT ![l] = Tail(@)]
    /\ listen' = [listen EXCEPT ![l].at = "deliver", ![l].msg = Head(inbox[l]),
                                ![l].target = requests[l][counter[l]]]
    /\ UNCHANGED <<mem, launchers, attach, open, counter, requests, outbox,
                   own, caller, crashed, torn, collided>>

\* ReadMessage, json.Unmarshal and the lookup t.requests[resp.Id].  The
\* fields of a request that a Response lacks are ignored by Unmarshal, so a
\* request of the launcher is taken for a response.
ReadMessage(l) ==
    /\ listen[l].at = "read"
    /\ inbox[l] # <<>>
    /\ inbox' = [inbox EXCEPT ![l] = Tail(@)]
    /\ LET msg == Head(inbox[l])
       IN listen' = [listen EXCEPT ![l].at = "deliver", ![l].msg = msg,
                                   ![l].target = requests[l][msg.id]]
    /\ UNCHANGED <<mem, launchers, attach, open, counter, requests, outbox,
                   own, caller, crashed, torn, collided>>

\* t.requests[resp.Id] <- resp: a rendezvous with the owner of the channel, a
\* panic when the owner has closed it, and no end when there is no channel.
Deliver(l) ==
    LET c == listen[l].target
    IN /\ listen[l].at = "deliver"
       /\ c # NoCaller
       /\ \/ /\ caller[c].at = "wait"
             /\ caller' = [caller EXCEPT ![c].at = "close",
                                         ![c].answer = listen[l].msg]
             /\ listen' = [listen EXCEPT ![l].at = "read"]
             /\ UNCHANGED crashed
          \/ /\ caller[c].at \in {"delete", "done"}
             /\ crashed' = TRUE
             /\ UNCHANGED <<caller, listen>>
       /\ UNCHANGED <<mem, launchers, attach, open, counter, requests, outbox,
                      inbox, own, torn, collided>>

\* for i, launcher := range launchers: the next position after i of l in the
\* slice s, which the loop has evaluated once, while the array is m.
SearchAfter(l, m, s, i) ==
    LET found == {j \in (i + 1)..s.len : Elem(m, s, j) = l}
    IN IF found = {}
       THEN listen' = [listen EXCEPT ![l].at = "ended"]
       ELSE \E j \in found :
              /\ \A k \in found : j <= k
              /\ listen' = [listen EXCEPT ![l].at = "remove", ![l].base = s,
                                          ![l].found = j]

\* A read error: look for the launcher in the slice ...
FindLauncher(l) ==
    /\ listen[l].at = "read"
    /\ inbox[l] = <<>>
    /\ ~open[l]
    /\ SearchAfter(l, mem, launchers, 0)
    /\ UNCHANGED <<mem, launchers, attach, open, counter, requests, outbox,
                   inbox, own, caller, crashed, torn, collided>>

\* ... append(launchers[:i], launchers[i+1:]...), a panic if the slice has
\* become shorter than that ...
MoveLaunchers(l) ==
    LET i == listen[l].found
    IN /\ listen[l].at = "remove"
       /\ IF i > launchers.len
          THEN /\ crashed' = TRUE
               /\ UNCHANGED <<mem, listen>>
          ELSE /\ mem' = MemRemoved(mem, launchers, i)
               /\ listen' = [listen EXCEPT ![l].at = "store",
                                           ![l].read = launchers]
               /\ UNCHANGED crashed
       /\ torn' = \/ torn
                  \/ launchers # listen[l].base
                  \/ l # Elem(mem, launchers, i)
                  \/ Overlaps(l)
       /\ UNCHANGED <<launchers, attach, open, counter, requests, outbox,
                      inbox, own, caller, collided>>

\* Mutant of StoreLaunchers: launchers = launchers[:i].
StoreLaunchersBefore(l) ==
    /\ listen[l].at = "store"
    /\ launchers' = [listen[l].read EXCEPT !.len = listen[l].found - 1]
    /\ SearchAfter(l, mem, listen[l].base, listen[l].found)
    /\ torn' = (torn \/ launchers # listen[l].read \/ Overlaps(l))
    /\ UNCHANGED <<mem, attach, open, counter, requests, outbox, inbox, own,
                   caller, crashed, collided>>

\* ... launchers = the result, one shorter than what was read; the loop goes
\* on over the slice it began with.
StoreLaunchers(l) ==
    /\ listen[l].at = "store"
    /\ launchers' = [listen[l].read EXCEPT !.len = @ - 1]
    /\ SearchAfter(l, mem, listen[l].base, listen[l].found)
    /\ torn' = (torn \/ launchers # listen[l].read \/ Overlaps(l))
    /\ UNCHANGED <<mem, attach, open, counter, requests, outbox, inbox, own,
                   caller, crashed, collided>>

Listen(l) ==
    \/ ReadMessage(l) \/ Deliver(l) \/ FindLauncher(l)
    \/ MoveLaunchers(l) \/ StoreLaunchers(l)

-----------------------------------------------------------------------------
Next ==
    /\ ~crashed
    /\ \/ \E l \in Launchers : \/ Attach(l) \/ AppendLauncher(l)
                               \/ Answer(l) \/ OwnRequest(l) \/ Disconnect(l)
                               \/ Listen(l)
       \/ \E c \in Callers : Call(c)

Spec == Init /\ [][Next]_vars

(* The goroutines of the proxy run while they can and a launcher that      *)
(* stays connected answers.  Launchers need not attach, nor requests come. *)
Fairness ==
    /\ \A l \in Launchers : /\ WF_vars(~crashed /\ AppendLauncher(l))
                            /\ WF_vars(~crashed /\ Answer(l))
                            /\ WF_vars(~crashed /\ Listen(l))
    /\ \A c \in Callers :
         WF_vars(~crashed /\ caller[c].at # "idle" /\ Call(c))

FairSpec == Spec /\ Fairness

-----------------------------------------------------------------------------
Slices == {s \in [array : 0..Len(mem), len : Nat] : s.len <= Capacity(mem, s)}

TypeOK ==
    /\ mem \in Seq(Seq(Launchers \cup {Nil}))
    /\ launchers \in Slices
    /\ attach \in [Launchers -> [at : {"idle", "append", "done"},
                                 base : Slices]]
    /\ open \in [Launchers -> BOOLEAN]
    /\ counter \in [Launchers -> Ids]
    /\ requests \in [Launchers -> [Ids -> Callers \cup {NoCaller}]]
    /\ outbox \in [Launchers -> SUBSET Message]
    /\ inbox \in [Launchers -> Seq(Message)]
    /\ own \in [Launchers -> 0..MaxOwn]
    /\ listen \in [Launchers ->
                     [at : {"none", "read", "deliver", "remove", "store",
                            "ended"},
                      base : Slices, found : Nat, read : Slices,
                      msg : Message, target : Callers \cup {NoCaller}]]
    /\ caller \in [Callers ->
                     [at : {"idle", "pick", "count", "add", "send", "register",
                            "wait", "close", "delete", "done", "failed"},
                      launcher : Launchers \cup {Nil}, base : Ids, id : Ids,
                      answer : Message]]
    /\ {crashed, torn, collided} \subseteq BOOLEAN

Answered == {c \in Callers : caller[c].at \in {"close", "delete", "done"}}

(* A call returns with the answer to its own message, although answers     *)
(* come in any order, many calls wait and the counter comes round - as     *)
(* long as no call was given a number that another was using.  Only a      *)
(* request of the launcher can take the place of the answer                *)
(* (RequestIsNoAnswer below).                                              *)
OwnAnswer ==
    ~collided => \A c \in Answered :
                   caller[c].answer.to \in {c, NoCaller}

(* As long as no two updates of the slice overlapped, it lists exactly the *)
(* launchers that have a goroutine Listen: the first is one that can       *)
(* answer.  One that is being removed may be listed until its removal has  *)
(* written the header.                                                     *)
ListedIsListening ==
    LET listed == Elems(mem, launchers)
        Of(places) == {l \in Launchers : listen[l].at \in places}
    IN ~torn => /\ Of({"read", "deliver", "remove"}) \subseteq listed
                /\ listed \subseteq Of({"read", "deliver", "remove", "store"})

\* Listen sends to the nil channel and never returns.
Stuck(l) == listen[l].at = "deliver" /\ listen[l].target = NoCaller

\* Another call of the launcher was given the number of c.
SharesNumber(c) ==
    \E d \in Callers \ {c} : /\ caller[d].at \in {"register", "wait",
                                                 "close", "delete", "done"}
                             /\ caller[d].launcher = caller[c].launcher
                             /\ caller[d].id = caller[c].id

(* The goroutine Listen of a launcher that sends no requests gets stuck    *)
(* on the response to a call that is not answered and now waits for ever:  *)
(* the response overtook the registration.  Only when a call was given a   *)
(* number in use can it get stuck on one that was answered, and then on    *)
(* one that shares its number: of two such calls the first to return       *)
(* deletes the channel that the response to the other looks for.           *)
StuckBeforeRegistered ==
    \A l \in Launchers :
      Stuck(l) /\ own[l] = 0
        => LET c == listen[l].msg.to
           IN \/ caller[c].at \in {"register", "wait"}
              \/ collided /\ SharesNumber(c)

(* The process panics only after racing updates of the slice, after a call *)
(* was given a number in use, or on a request that a launcher sent.        *)
CrashNeedsRace ==
    crashed => torn \/ collided \/ \E l \in Launchers : own[l] > 0

(* A call that is waiting returns, unless its launcher disconnects, or the *)
(* goroutine Listen is stuck, or numbers collided, or the process died.    *)
WaitingReturns ==
    \A c \in Callers :
      caller[c].at = "wait"
        ~> \/ caller[c].at = "done"
           \/ \E l \in Launchers : l = caller[c].launcher /\ (~open[l] \/ Stuck(l))
           \/ collided \/ crashed

(* A launcher whose connection has ended is not in the slice any more      *)
(* ("remove launcher from launchers"), so no call is passed to it.         *)
EndedIsRemoved ==
    \A l \in Launchers :
      listen[l].at = "ended" => l \notin Elems(mem, launchers)

(* A message that is a request of the launcher is treated as a request     *)
(* ("The message is a request"), not as the answer of a call.              *)
RequestIsNoAnswer ==
    \A c \in Answered : caller[c].answer.to # NoCaller
=============================================================================
