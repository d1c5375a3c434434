--------------------------- MODULE LauncherAgent ---------------------------
(***************************************************************************)
(* service/launcher.go, and its consumer, the setup-status stream of       *)
(* service/api.go.  One goroutine reads the log of the launcher and emits  *)
(* a setup status for some of its lines: it appends the status to          *)
(* statusHistory and then sends it to every channel in `listeners'.  A     *)
(* request for the stream adds a channel, copies the history, writes the   *)
(* history to its client and then what arrives on the channel, until a     *)
(* status "Done", when it removes its channel again.                       *)
(*                                                                         *)
(* Nothing is locked.  listeners is a Go slice that requests replace while *)
(* the emitter is ranging over it: the slice and its backing arrays are    *)
(* modelled as such.  An append reads the header, and then writes the cell *)
(* and the header; a removal looks for its channel, then reads the header  *)
(* and moves cells, and then writes the header.  The header that one of    *)
(* these steps reads more than once is taken to be the same each time, and *)
(* the cells move at once.                                                 *)
(***************************************************************************)
EXTENDS Naturals, Sequences, GoSlice

CONSTANTS
    Clients,       \* requests for the stream
    ChanCap,       \* capacity of a listener channel (100 in the code)
    MaxStatuses    \* bound on the number of statuses emitted

ASSUME LauncherAssumption == ChanCap \in Nat \ {0} /\ MaxStatuses \in Nat

VARIABLES
    mem,           \* the backing arrays
    listeners,     \* the slice t.listeners
    statusHistory, \* the statuses emitted; a status is known by its position
    state,         \* t.state
    emitter,       \* the goroutine of followLog: [at, view, next]
    client,        \* client[c]: the request c: [at, base, found, copied],
                   \* base the header that c read and has yet to replace
    chan,          \* chan[c]: what the channel of c holds
    written,       \* written[c]: what request c wrote to its client
    raced,         \* auxiliary: whether updates of the slice overlapped
    skipped,       \* auxiliary: see Lost below
    doubled        \* auxiliary: see Twice below

aux == <<raced, skipped, doubled>>

vars == <<mem, listeners, statusHistory, state, emitter, client, chan,
          written, raced, skipped, doubled>>

\* Statuses differ only in whether they end a stream.
Statuses == {"Waiting", "Done"}

Init ==
    /\ mem = <<>>
    /\ listeners = EmptySlice
    /\ statusHistory = <<>>
    /\ state = ""
    /\ emitter = [at |-> "start", view |-> EmptySlice, next |-> 1]
    /\ client = [c \in Clients |->
                   [at |-> "idle", base |-> EmptySlice, found |-> 0, copied |-> 0]]
    /\ chan = [c \in Clients |-> <<>>]
    /\ written = [c \in Clients |-> <<>>]
    /\ raced = FALSE
    /\ skipped = {}
    /\ doubled = {}

-----------------------------------------------------------------------------
(* The emitter.                                                            *)

Attach ==
    /\ emitter.at = "start"
    /\ emitter' = [emitter EXCEPT !.at = "scan"]
    /\ state' = "attached"
    /\ UNCHANGED <<mem, listeners, statusHistory, client, chan, written, aux>>

\* Mutant of HandleLine: a state of its own for the end of the setup.
HandleLineToDone(status) ==
    /\ emitter.at = "scan"
    /\ Len(statusHistory) < MaxStatuses
    /\ state' = IF status = "Done" THEN "done" ELSE "setup"
    /\ statusHistory' = Append(statusHistory, status)
    /\ emitter' = [emitter EXCEPT !.at = "range"]
    /\ UNCHANGED <<mem, listeners, client, chan, written, aux>>

\* handleLine for a line that stands for a status; emitStatus appends it.
HandleLine(status) ==
    /\ emitter.at = "scan"
    /\ Len(statusHistory) < MaxStatuses
    /\ state' = IF status = "Done" THEN "attached" ELSE "setup"
    /\ statusHistory' = Append(statusHistory, status)
    /\ emitter' = [emitter EXCEPT !.at = "range"]
    /\ UNCHANGED <<mem, listeners, client, chan, written, aux>>

Receiver == Elem(mem, emitter.view, emitter.next)

\* The cells that the emission in progress has yet to visit.
Left == IF emitter.at = "send" THEN emitter.next..emitter.view.len ELSE {}

\* The requests it will send to if the arrays hold m.
Due(m) == {Elem(m, emitter.view, i) : i \in Left} \cap Clients

(* The status in emission gets lost for x when a request that appends or   *)
(* removes its own channel changes the array under the emission: x moves   *)
(* down to a cell that has been visited, or its last cell is overwritten.  *)
Lost(c) == {<<x, Len(statusHistory)>> : x \in (Due(mem) \ Due(mem')) \ {c}}

(* x gets the status in emission twice: cells moved down and the last one  *)
(* kept its content, so that x is in two of those yet to be visited.       *)
Twice ==
    {<<x, Len(statusHistory)>> :
        x \in {y \in Clients : \E i, j \in Left : /\ i < j
                                               /\ Elem(mem, emitter.view, i) = y
                                               /\ Elem(mem, emitter.view, j) = y}}

\* Mutant of StartRange: the first listener is left out.
RangeFromSecond ==
    /\ emitter.at = "range"
    /\ emitter' = [at |-> "send", view |-> listeners, next |-> 2]
    /\ doubled' = doubled \cup Twice'
    /\ UNCHANGED <<mem, listeners, statusHistory, state, client, chan,
                   written, raced, skipped>>

\* for _, listener := range t.listeners: the header is read once, here.
StartRange ==
    /\ emitter.at = "range"
    /\ UNCHANGED <<mem, listeners, statusHistory, state, client, chan,
                   written, raced, skipped>>
    /\ emitter' = [at |-> "send", view |-> listeners, next |-> 1]
    /\ doubled' = doubled \cup Twice'

\* Mutant of Send: a listener is sent to again before the next one.
SendAgain ==
    /\ emitter.at = "send"
    /\ emitter.next <= emitter.view.len
    /\ Receiver \in Clients
    /\ Len(chan[Receiver]) < ChanCap
    /\ chan' = [chan EXCEPT ![Receiver] = Append(@, Len(statusHistory))]
    /\ \E next \in {emitter.next, emitter.next + 1} :
         emitter' = [emitter EXCEPT !.next = next]
    /\ UNCHANGED <<mem, listeners, statusHistory, state, client, written, aux>>

\* listener <- status; the element is read now and the send may block, for
\* ever when a race has left a nil channel in the slice.
Send ==
    /\ emitter.at = "send"
    /\ emitter.next <= emitter.view.len
    /\ Receiver \in Clients
    /\ Len(chan[Receiver]) < ChanCap
    /\ chan' = [chan EXCEPT ![Receiver] = Append(@, Len(statusHistory))]
    /\ emitter' = [emitter EXCEPT !.next = @ + 1]
    /\ UNCHANGED <<mem, listeners, statusHistory, state, client, written, aux>>

EndRange ==
    /\ emitter.at = "send"
    /\ emitter.next > emitter.view.len
    /\ emitter' = [emitter EXCEPT !.at = "scan"]
    /\ UNCHANGED <<mem, listeners, statusHistory, state, client, chan,
                   written, aux>>

Emitter ==
    \/ Attach \/ StartRange \/ Send \/ EndRange
    \/ \E status \in Statuses : HandleLine(status)

-----------------------------------------------------------------------------
(* A request.                                                              *)

Goto(c, at) == client' = [client EXCEPT ![c].at = at]

\* What c read for its update of the slice is of no more use.
Updated(c, at) ==
    client' = [client EXCEPT ![c].at = at, ![c].base = EmptySlice, ![c].found = 0]

\* t.listeners = append(t.listeners, ch): the slice is read ...
Subscribe(c) ==
    /\ client[c].at = "idle"
    /\ client' = [client EXCEPT ![c].at = "append", ![c].base = listeners]
    /\ UNCHANGED <<mem, listeners, statusHistory, state, emitter, chan,
                   written, aux>>

\* Another removal has moved cells and has not yet written its header.
Overlaps(c) == \E d \in Clients \ {c} : client[d].at = "store"

(* What c read before is not what it is about to overwrite, or another     *)
(* request is about to overwrite what c writes: one update is undone.      *)
Disturbs(c) == listeners # client[c].base \/ Overlaps(c)

\* ... and written.
AppendListener(c) ==
    /\ client[c].at = "append"
    /\ mem' = MemAppended(mem, client[c].base, c)
    /\ listeners' = Appended(mem, client[c].base, c)
    /\ raced' = (raced \/ Disturbs(c))
    /\ skipped' = skipped \cup Lost(c)
    /\ Updated(c, "copy")
    /\ UNCHANGED <<statusHistory, state, emitter, chan, written, doubled>>

\* Mutant of CopyHistory: the newest status is left out.
CopyHistoryShort(c) ==
    /\ client[c].at = "copy"
    /\ statusHistory # <<>>
    /\ client' = [client EXCEPT ![c].at = "replay",
                                ![c].copied = Len(statusHistory) - 1]
    /\ UNCHANGED <<mem, listeners, statusHistory, state, emitter, chan,
                   written, aux>>

\* The handler asks for the whole history.
CopyHistory(c) ==
    /\ client[c].at = "copy"
    /\ client' = [client EXCEPT ![c].at = "replay",
                                ![c].copied = Len(statusHistory)]
    /\ UNCHANGED <<mem, listeners, statusHistory, state, emitter, chan,
                   written, aux>>

\* Mutant of Replay: the history is written only when it is complete.
ReplayComplete(c) ==
    /\ client[c].at = "replay"
    /\ \E k \in 1..client[c].copied : statusHistory[k] = "Done"
    /\ Goto(c, "cancel")
    /\ UNCHANGED <<mem, listeners, statusHistory, state, emitter, chan,
                   written, aux>>

\* The copy is written up to its first Done.
Replay(c) ==
    /\ client[c].at = "replay"
    /\ LET copy == 1..client[c].copied
           done == {k \in copy : statusHistory[k] = "Done"}
       IN IF done = {}
          THEN /\ written' = [written EXCEPT ![c] = [k \in copy |-> k]]
               /\ Goto(c, "stream")
          ELSE LET last == CHOOSE k \in done : \A j \in done : k <= j
               IN /\ written' = [written EXCEPT ![c] = [k \in 1..last |-> k]]
                  /\ Goto(c, "cancel")
    /\ UNCHANGED <<mem, listeners, statusHistory, state, emitter, chan, aux>>

\* Mutant of Receive: a Done does not end the loop.
ReceiveThroughDone(c) ==
    /\ client[c].at = "stream"
    /\ chan[c] # <<>>
    /\ chan' = [chan EXCEPT ![c] = Tail(@)]
    /\ written' = [written EXCEPT ![c] = Append(@, Head(chan[c]))]
    /\ UNCHANGED <<mem, listeners, statusHistory, state, emitter, client, aux>>

\* for status := range statusChan
Receive(c) ==
    /\ client[c].at = "stream"
    /\ chan[c] # <<>>
    /\ chan' = [chan EXCEPT ![c] = Tail(@)]
    /\ written' = [written EXCEPT ![c] = Append(@, Head(chan[c]))]
    /\ IF statusHistory[Head(chan[c])] = "Done"
       THEN Goto(c, "cancel")
       ELSE UNCHANGED client
    /\ UNCHANGED <<mem, listeners, statusHistory, state, emitter, aux>>

\* A write blocks while the client does not read, and nothing is received;
\* a client that has left makes the writes fail, which the handler ignores.
Stall(c) ==
    /\ client[c].at \in {"replay", "stream"}
    /\ Goto(c, "stalled")
    /\ UNCHANGED <<mem, listeners, statusHistory, state, emitter, chan,
                   written, aux>>

\* cancel: look for the channel ...
FindListener(c) ==
    LET found == {i \in 1..listeners.len : Elem(mem, listeners, i) = c}
    IN /\ client[c].at = "cancel"
       /\ client' = IF found = {}
                    THEN [client EXCEPT ![c].at = "gone"]
                    ELSE [client EXCEPT
                            ![c].at = "remove",
                            ![c].found = CHOOSE i \in found :
                                           \A j \in found : i <= j]
       /\ UNCHANGED <<mem, listeners, statusHistory, state, emitter, chan,
                      written, aux>>

\* The channel of c is no longer where c found it.
Misplaced(c) ==
    ~ /\ client[c].found <= listeners.len
      /\ Elem(mem, listeners, client[c].found) = c

\* Mutant of MoveListeners: the cells are cleared instead of moved.
MoveListenersClearing(c) ==
    LET i == client[c].found
    IN /\ client[c].at = "remove"
       /\ i <= listeners.len
       /\ client' = [client EXCEPT ![c].at = "store", ![c].base = listeners]
       /\ mem' = [mem EXCEPT ![listeners.array] =
                    [j \in DOMAIN @ |-> IF j \in i..listeners.len THEN Nil ELSE @[j]]]
       /\ raced' = (raced \/ Misplaced(c) \/ Overlaps(c))
       /\ skipped' = skipped \cup Lost(c)
       /\ UNCHANGED <<listeners, statusHistory, state, emitter, chan, written,
                      doubled>>

(* ... and cut the slice there.  If the channel is not the last, the rest  *)
(* moves down in the array, which the emitter may be reading; if it is,    *)
(* nothing moves.  When races have put a shorter array in the place of the *)
(* slice, [:i] is out of range: the panic ends the request.                *)
MoveListeners(c) ==
    LET i == client[c].found
    IN /\ client[c].at = "remove"
       /\ \/ /\ i >= listeners.len
             /\ client' = IF i - 1 <= Capacity(mem, listeners)
                          THEN [client EXCEPT ![c].at = "store",
                                              ![c].base = listeners]
                          ELSE [client EXCEPT ![c].at = "gone"]
             /\ UNCHANGED mem
          \/ /\ i < listeners.len
             /\ client' = [client EXCEPT ![c].at = "store",
                                         ![c].base = listeners]
             /\ mem' = MemRemoved(mem, listeners, i)
       /\ raced' = (raced \/ Misplaced(c) \/ Overlaps(c))
       /\ skipped' = skipped \cup Lost(c)
       /\ UNCHANGED <<listeners, statusHistory, state, emitter, chan, written>>
       /\ doubled' = doubled \cup Twice'

\* The slice without what c found in it: [:i], or one less.
Shortened(c) ==
    LET i == client[c].found
        s == client[c].base
    IN [s EXCEPT !.len = IF i >= s.len THEN i - 1 ELSE s.len - 1]

\* t.listeners = what is left.
StoreListeners(c) ==
    /\ client[c].at = "store"
    /\ listeners' = Shortened(c)
    /\ raced' = (raced \/ Disturbs(c))
    /\ Updated(c, "gone")
    /\ UNCHANGED <<mem, statusHistory, state, emitter, chan, written, skipped,
                   doubled>>

Request(c) ==
    \/ AppendListener(c) \/ CopyHistory(c) \/ Replay(c) \/ Receive(c)
    \/ FindListener(c) \/ MoveListeners(c) \/ StoreListeners(c)

Next == Emitter \/ \E c \in Clients : Subscribe(c) \/ Stall(c) \/ Request(c)

Spec == Init /\ [][Next]_vars

(* The goroutines run while they can.  A request reads its channel as long *)
(* as its client has not stalled; new lines and new requests need not come.*)
Fairness ==
    /\ WF_vars(Attach \/ StartRange \/ Send \/ EndRange)
    /\ \A c \in Clients : WF_vars(Request(c))

FairSpec == Spec /\ Fairness

-----------------------------------------------------------------------------
\* The slices there can be: a prefix of an array of the memory.
Slices == {s \in [array : 0..Len(mem), len : Nat] : s.len <= Capacity(mem, s)}

TypeOK ==
    /\ mem \in Seq(Seq(Clients \cup {Nil}))
    /\ listeners \in Slices
    /\ statusHistory \in Seq(Statuses)
    /\ state \in {"", "attached", "setup"}
    /\ emitter \in [at : {"start", "scan", "range", "send"},
                    view : Slices, next : Nat \ {0}]
    /\ client \in [Clients ->
                     [at : {"idle", "append", "copy", "replay", "stream",
                            "stalled", "cancel", "remove", "store", "gone"},
                      base : Slices, found : Nat,
                      copied : 0..Len(statusHistory)]]
    /\ chan \in [Clients -> Seq(1..Len(statusHistory))]
    /\ written \in [Clients -> Seq(1..Len(statusHistory))]
    /\ raced \in BOOLEAN
    /\ skipped \subseteq Clients \X (1..Len(statusHistory))
    /\ doubled \subseteq Clients \X (1..Len(statusHistory))

\* What has been sent to the channel of c: what c received after the history
\* it replayed, and what the channel still holds.
Sent(c) == SubSeq(written[c], client[c].copied + 1, Len(written[c])) \o chan[c]

(* A channel gets consecutive statuses, each once, as long as no two       *)
(* updates of the slice overlapped.  A single removal can still interfere  *)
(* with the emission in progress: a status is left out only for a request  *)
(* that lost it so, and sent again only to one that the removal doubled.   *)
InOrder ==
    ~raced => \A c \in Clients : \A i \in 1..(Len(Sent(c)) - 1) :
                 LET k == Sent(c)[i]
                     n == Sent(c)[i + 1]
                 IN \/ n = k /\ <<c, k>> \in doubled
                    \/ n > k /\ \A m \in (k + 1)..(n - 1) : <<c, m>> \in skipped

\* Status k is yet to be sent to c by the emission in progress.
Coming(c, k) ==
    /\ k = Len(statusHistory)
    /\ \/ emitter.at = "range" /\ c \in Elems(mem, listeners)
       \/ /\ emitter.at = "send"
          /\ \E i \in emitter.next..emitter.view.len :
               Elem(mem, emitter.view, i) = c

\* Every status is before c, behind it or with it.
Reaches(c, k) ==
    \/ k <= client[c].copied
    \/ \E i \in 1..Len(chan[c]) : chan[c][i] = k
    \/ \E i \in 1..Len(written[c]) : written[c][i] = k
    \/ Coming(c, k)

(* A request that streams gets every status, although the history is       *)
(* copied and the statuses are emitted without a lock: the listener is     *)
(* added before the history is copied, and the history is extended before  *)
(* the listeners are visited, so that a status falls between the two for   *)
(* no request.  Only updates of the slice can break it: two that overlap,  *)
(* and one in the middle of an emission for the status in emission.        *)
NothingMissed ==
    ~raced => \A c \in Clients : client[c].at \in {"replay", "stream"}
                 => \A k \in 1..Len(statusHistory) :
                      Reaches(c, k) \/ <<c, k>> \in skipped

(* What a client is sent has no gap: a status may come twice, from the     *)
(* history and from the channel, but not without the one before it, unless *)
(* that one was lost to an update of the slice in the middle of its        *)
(* emission, or two updates overlapped.                                    *)
NoGap ==
    ~raced => \A c \in Clients : \A i \in 1..Len(written[c]) :
                 \/ written[c][i] = 1
                 \/ <<c, written[c][i] - 1>> \in skipped
                 \/ \E j \in 1..(i - 1) : written[c][j] = written[c][i] - 1

(* What an update costs the others, when it does not overlap with another  *)
(* one: at most one listener loses the status in emission, although all    *)
(* the cells behind the removed one may move under the emitter.            *)
OneLost == [][raced' \/ \A x, y \in skipped' \ skipped : x = y]_vars

\* The emitter waits for room in the channel of a request that has left, or
\* whose client has stalled.
Deserted ==
    /\ emitter.at = "send"
    /\ emitter.next <= emitter.view.len
    /\ Receiver \in Clients
    /\ client[Receiver].at \in {"stalled", "cancel", "remove", "store", "gone"}
    /\ Len(chan[Receiver]) = ChanCap

\* The emitter has come to a cell that races have left without a channel.
NoChannel ==
    /\ emitter.at = "send"
    /\ emitter.next <= emitter.view.len
    /\ Receiver = Nil

(* The emitter never waits for ever, so the log of the launcher is read to *)
(* its end, however the updates of the slice overlap with the emission and *)
(* with each other, except for two cases.  One is a request that left at a *)
(* Done with a full channel, or whose client no longer reads: nobody makes *)
(* room there, and no other client, nor the history, gets another status.  *)
(* The other is a nil channel that overlapping updates of a larger array   *)
(* left in the slice.                                                      *)
EmitterReturns == []<>(emitter.at # "send" \/ Deserted \/ NoChannel)

\* A Done was lost to c by an update of the slice.
MissedDone(c) ==
    \E k \in 1..Len(statusHistory) : /\ <<c, k>> \in skipped
                                    /\ statusHistory[k] = "Done"

(* Once a Done has been emitted every stream ends whose own client reads.  *)
(* It may not when the emitter waits as above, when c lost a Done to an    *)
(* update of the slice in the middle of the emission, or when two updates  *)
(* overlapped, which can leave c out of the slice; other than through      *)
(* these, the clients do not wait for each other.                          *)
StreamsEnd ==
    \A c \in Clients :
      (/\ client[c].at \notin {"idle", "gone"}
       /\ \E k \in 1..Len(statusHistory) : statusHistory[k] = "Done")
        ~> \/ client[c].at \in {"stalled", "gone"}
           \/ Deserted \/ NoChannel \/ MissedDone(c) \/ raced

-----------------------------------------------------------------------------
(* What the requests are promised: each is a reader of the log of statuses *)
(* that advances over it without gaps and goes no further than a Done.     *)
(* Every step until two updates overlap is a step of StatusStream, but for *)
(* those of a request that lost a Done to an update of the slice: it goes  *)
(* on behind that Done.                                                    *)
Position(c) ==
    LET seen == {written[c][i] : i \in 1..Len(written[c])}
    IN IF seen = {} THEN 0 ELSE CHOOSE k \in seen : \A j \in seen : j <= k

Positions == [c \in Clients |-> Position(c)]

Stream == INSTANCE StatusStream WITH log <- statusHistory, pos <- Positions

\* A request goes on behind a Done that it missed.
Overrun ==
    \E c \in Clients :
      /\ MissedDone(c)
      /\ statusHistory' = statusHistory
      /\ \A d \in Clients \ {c} : Positions'[d] = Positions[d]

Implements ==
    /\ Stream!Init
    /\ [][raced' \/ Overrun \/ Stream!Next]_<<statusHistory, Positions>>
=============================================================================
