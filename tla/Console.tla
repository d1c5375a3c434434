------------------------------ MODULE Console ------------------------------
(***************************************************************************)
(* cmd/proxy/console.go, and the disconnect handler of                     *)
(* cmd/proxy/socketio.go: the consoles of the web UI.  A connection        *)
(* creates a console (an entry of consoleMap), starts a shell in it, and   *)
(* talks to the shell by events that carry the ID of the console.  A       *)
(* disconnect removes the entries of the connection.                       *)
(*                                                                         *)
(* The socket.io server handles the events of one connection one after the *)
(* other, those of different connections at the same time, and it may call *)
(* the disconnect handler, from the goroutine that writes, while an event  *)
(* of that connection is being handled.  Nothing is locked: the mutex of   *)
(* console.go has no user.  A write of the map is two steps, and an access *)
(* that begins in between may end the process (the Go runtime detects some *)
(* concurrent accesses), or happen before or after the write.              *)
(*                                                                         *)
(* All shells read one file, init.bash, which every start writes anew.     *)
(* Any connection may name any console: no handler looks at the owner.     *)
(***************************************************************************)
EXTENDS Naturals, Sequences

CONSTANTS
    Conns,         \* socket.io connections
    Ids,           \* the IDs that uuid.New will return, none of them twice
    Nobody,        \* the ConnectionId of an ID that has no entry
    MaxStarts      \* bound on the start events

ASSUME ConsoleAssumption == Nobody \notin Conns /\ MaxStarts \in Nat

VARIABLES
    consoleMap,    \* consoleMap[id]: the ConnectionId of the entry, or Nobody
    created,       \* the IDs that were given out
    handler,       \* handler[c]: the event of connection c that is handled
    conn,          \* conn[c]: connection c, or its disconnect handler
    toRemove,      \* toRemove[c]: the consolesToRemove that are left
    initFile,      \* init.bash
    shells,        \* the shells ever started, the youngest last
    input,         \* input[id]: the shell of the event console.<id>.input
    crashed,       \* the runtime has found a concurrent access of the map
    starts,        \* counts the start events, up to MaxStarts
    strays,        \* auxiliary: entries made after the disconnect handler
                   \* had looked for the entries of their connection
    crossed        \* auxiliary: consoles for which two starts overlapped

vars == <<consoleMap, created, handler, conn, toRemove, initFile, shells,
          input, crashed, starts, strays, crossed>>

mapVars   == <<consoleMap, created, conn, toRemove, strays>>
shellVars == <<initFile, shells, input, starts, crossed>>

NoId == [at |-> "idle", id |-> Nobody, shell |-> 0, disturbed |-> FALSE]

Init ==
    /\ consoleMap = [id \in Ids |-> Nobody]
    /\ created = {}
    /\ handler = [c \in Conns |-> NoId]
    /\ conn = [c \in Conns |-> "up"]
    /\ toRemove = [c \in Conns |-> {}]
    /\ initFile = "absent"
    /\ shells = <<>>
    /\ input = [id \in Ids |-> 0]
    /\ crashed = FALSE
    /\ starts = 0
    /\ strays = {}
    /\ crossed = {}

-----------------------------------------------------------------------------
(* The map.                                                                *)

\* The goroutines that are inside a write of the map.
Writers ==
    {c \in Conns : handler[c].at \in {"insert", "delete"}} \X {"event"}
      \cup {c \in Conns : toRemove[c] # {}} \X {"disconnect"}

(* An access by another goroutine begins: an event, a disconnect, resize,  *)
(* GET /api/v1/consoles or GET /api/v1/consoles/:id.  The last three only  *)
(* read the map, which matters only here; resize gets no further, for its  *)
(* copy of the entry has no pty.                                           *)
DetectRace ==
    /\ Writers # {}
    /\ crashed' = TRUE
    /\ UNCHANGED <<handler, mapVars, shellVars>>

\* The next event of c is handled once the previous one is.
Takes(c) == handler[c].at = "idle" /\ conn[c] # "gone"

Idle(c) == handler' = [handler EXCEPT ![c] = NoId]

Handling(c, at, id) ==
    handler' = [handler EXCEPT ![c] =
                  [at |-> at, id |-> id, shell |-> 0, disturbed |-> FALSE]]

-----------------------------------------------------------------------------
(* create and stop.                                                        *)

BeginCreate(c, id) ==
    /\ Takes(c)
    /\ id \notin created
    /\ created' = created \cup {id}
    /\ Handling(c, "insert", id)
    /\ UNCHANGED <<consoleMap, conn, toRemove, strays, shellVars, crashed>>

Insert(c) ==
    LET id == handler[c].id
    IN /\ handler[c].at = "insert"
       /\ consoleMap' = [consoleMap EXCEPT ![id] = c]
       /\ strays' = IF conn[c] \in {"removing", "gone"}
                    THEN strays \cup {id} ELSE strays
       /\ Idle(c)
       /\ UNCHANGED <<created, conn, toRemove, shellVars, crashed>>

BeginStop(c, id) ==
    /\ Takes(c)
    /\ id \in created
    /\ Handling(c, "delete", id)
    /\ UNCHANGED <<mapVars, shellVars, crashed>>

\* The entry goes.  The shell and the goroutine that reads it stay.
Delete(c) ==
    /\ handler[c].at = "delete"
    /\ consoleMap' = [consoleMap EXCEPT ![handler[c].id] = Nobody]
    /\ Idle(c)
    /\ UNCHANGED <<created, conn, toRemove, strays, shellVars, crashed>>

-----------------------------------------------------------------------------
(* start.                                                                  *)

Starting == {"create", "write", "spawn", "bind"}

\* findById: the handler goes on with a copy of the entry.
BeginStart(c, id) ==
    /\ Takes(c)
    /\ starts < MaxStarts
    /\ id \in created
    /\ consoleMap[id] # Nobody
    /\ starts' = starts + 1
    /\ Handling(c, "create", id)
    /\ crossed' = IF \E d \in Conns \ {c} : handler[d].at \in Starting
                                            /\ handler[d].id = id
                  THEN crossed \cup {id} ELSE crossed
    /\ UNCHANGED <<mapVars, initFile, shells, input, crashed>>

(* The shell of this start may find a file that is not its own, or none:   *)
(* another start has truncated it since, or a file operation failed.       *)
Disturbed(d, c) ==
    d # c /\ handler[d].at \in Starting \ {"create"}

DisturbOthers(c, h) ==
    [d \in Conns |-> IF Disturbed(d, c) THEN [h[d] EXCEPT !.disturbed = TRUE]
                                        ELSE h[d]]

DisturbBooting ==
    [k \in DOMAIN shells |-> IF shells[k].at = "booting"
                             THEN [shells[k] EXCEPT !.disturbed = TRUE]
                             ELSE shells[k]]

\* Mutant of CreateFile: the script is written by a goroutine of its own.
CreateFileAndGo(c) ==
    /\ handler[c].at = "create"
    /\ initFile' = "empty"
    /\ handler' = DisturbOthers(c, [handler EXCEPT ![c].at = "spawn"])
    /\ shells' = DisturbBooting
    /\ UNCHANGED <<mapVars, input, crashed, starts, crossed>>

\* os.Create truncates the file.  An error is logged and the start goes on.
CreateFile(c) ==
    /\ handler[c].at = "create"
    /\ \/ /\ initFile' = "empty"
          /\ handler' = DisturbOthers(c, [handler EXCEPT ![c].at = "write"])
          /\ shells' = DisturbBooting
       \/ /\ handler' = [handler EXCEPT ![c].at = "spawn",
                                        ![c].disturbed = TRUE]
          /\ UNCHANGED <<initFile, shells>>
    /\ UNCHANGED <<mapVars, input, crashed, starts, crossed>>

\* f.WriteString, whose error nobody looks at.
WriteFile(c) ==
    /\ handler[c].at = "write"
    /\ \/ /\ initFile' = "complete"
          /\ handler' = [handler EXCEPT ![c].at = "spawn"]
       \/ /\ handler' = [handler EXCEPT ![c].at = "spawn",
                                        ![c].disturbed = TRUE]
          /\ UNCHANGED initFile
    /\ UNCHANGED <<mapVars, shells, input, crashed, starts, crossed>>

\* Mutant of Spawn: the error of startShell is not looked at.
SpawnUnchecked(c) ==
    /\ handler[c].at = "spawn"
    /\ \/ shells' = Append(shells, [id |-> handler[c].id, at |-> "booting",
                                     script |-> "unread",
                                     disturbed |-> handler[c].disturbed])
       \/ UNCHANGED shells
    /\ handler' = [handler EXCEPT ![c].at = "bind", ![c].shell = Len(shells) + 1]
    /\ UNCHANGED <<mapVars, initFile, input, crashed, starts, crossed>>

\* pty.StartWithSize.  The pty goes into the copy of the entry.
Spawn(c) ==
    /\ handler[c].at = "spawn"
    /\ \/ /\ shells' = Append(shells, [id |-> handler[c].id, at |-> "booting",
                                       script |-> "unread",
                                       disturbed |-> handler[c].disturbed])
          /\ handler' = [handler EXCEPT ![c].at = "bind",
                                        ![c].shell = Len(shells) + 1]
       \/ Idle(c) /\ UNCHANGED shells
    /\ UNCHANGED <<mapVars, initFile, input, crashed, starts, crossed>>

\* Mutant of Bind: the event is registered once per console.
BindFirst(c) ==
    LET h == handler[c]
    IN /\ h.at = "bind"
       /\ input' = IF input[h.id] = 0 THEN [input EXCEPT ![h.id] = h.shell]
                                      ELSE input
       /\ Idle(c)
       /\ UNCHANGED <<mapVars, initFile, shells, crashed, starts, crossed>>

\* sioServer.OnEvent replaces the handler of the event, and `go func' reads.
Bind(c) ==
    LET h == handler[c]
    IN /\ h.at = "bind"
       /\ input' = [input EXCEPT ![h.id] = h.shell]
       /\ Idle(c)
       /\ UNCHANGED <<mapVars, initFile, shells, crashed, starts, crossed>>

-----------------------------------------------------------------------------
(* The disconnect handler: removeConsoles.                                 *)

Disconnect(c) ==
    /\ conn[c] = "up"
    /\ conn' = [conn EXCEPT ![c] = "disconnected"]
    /\ UNCHANGED <<consoleMap, created, toRemove, strays, handler, shellVars,
                   crashed>>

FindIds(c) ==
    /\ conn[c] = "disconnected"
    /\ toRemove' = [toRemove EXCEPT ![c] = {id \in Ids : consoleMap[id] = c}]
    /\ conn' = [conn EXCEPT ![c] = "removing"]
    /\ UNCHANGED <<consoleMap, created, strays, handler, shellVars, crashed>>

RemoveId(c, id) ==
    /\ conn[c] = "removing"
    /\ id \in toRemove[c]
    /\ consoleMap' = [consoleMap EXCEPT ![id] = Nobody]
    /\ toRemove' = [toRemove EXCEPT ![c] = @ \ {id}]
    /\ UNCHANGED <<created, conn, strays, handler, shellVars, crashed>>

\* Mutant of Gone: at most one console per connection is expected.
GoneAfterFirst(c) ==
    /\ conn[c] = "removing"
    /\ \A id \in toRemove[c] : \E i \in Ids \ {id} : consoleMap[i] = Nobody
    /\ conn' = [conn EXCEPT ![c] = "gone"]
    /\ toRemove' = [toRemove EXCEPT ![c] = {}]
    /\ UNCHANGED <<consoleMap, created, strays, handler, shellVars, crashed>>

\* The library closes the connection: no further event is read from it.
Gone(c) ==
    /\ conn[c] = "removing"
    /\ toRemove[c] = {}
    /\ conn' = [conn EXCEPT ![c] = "gone"]
    /\ UNCHANGED <<consoleMap, created, toRemove, strays, handler, shellVars,
                   crashed>>

-----------------------------------------------------------------------------
(* The shells.                                                             *)

\* bash reads its --init-file, or goes without if there is none.
Boot(k) ==
    /\ shells[k].at = "booting"
    /\ shells' = [shells EXCEPT ![k].at = "running", ![k].script = initFile]
    /\ UNCHANGED <<mapVars, handler, initFile, input, crashed, starts, crossed>>

\* Nothing in the proxy ends a shell.  Its user may; then the Read of the
\* goroutine that Bind spawned, or will spawn, fails, and its loop ends.
Exit(k) ==
    /\ shells[k].at = "running"
    /\ shells' = [shells EXCEPT ![k].at = "exited"]
    /\ UNCHANGED <<mapVars, handler, initFile, input, crashed, starts, crossed>>

-----------------------------------------------------------------------------
Event(c) ==
    \/ Insert(c) \/ Delete(c)
    \/ CreateFile(c) \/ WriteFile(c) \/ Spawn(c) \/ Bind(c)
    \/ \E id \in Ids : BeginCreate(c, id) \/ BeginStop(c, id) \/ BeginStart(c, id)

Leave(c) == \/ Disconnect(c) \/ FindIds(c) \/ Gone(c)
            \/ \E id \in Ids : RemoveId(c, id)

Next ==
    /\ ~crashed
    /\ \/ DetectRace
       \/ \E c \in Conns : Event(c) \/ Leave(c)
       \/ \E k \in DOMAIN shells : Boot(k) \/ Exit(k)

Spec == Init /\ [][Next]_vars

-----------------------------------------------------------------------------
TypeOK ==
    /\ consoleMap \in [Ids -> Conns \cup {Nobody}]
    /\ created \subseteq Ids
    /\ handler \in [Conns -> [at : {"idle", "insert", "delete"} \cup Starting,
                              id : Ids \cup {Nobody}, shell : Nat,
                              disturbed : BOOLEAN]]
    /\ conn \in [Conns -> {"up", "disconnected", "removing", "gone"}]
    /\ toRemove \in [Conns -> SUBSET Ids]
    /\ initFile \in {"absent", "empty", "complete"}
    /\ shells \in Seq([id : Ids, at : {"booting", "running", "exited"},
                       script : {"unread", "absent", "empty", "complete"},
                       disturbed : BOOLEAN])
    /\ input \in [Ids -> 0..Len(shells)]
    /\ crashed \in BOOLEAN
    /\ starts \in 0..MaxStarts
    /\ strays \subseteq Ids
    /\ crossed \subseteq Ids

(* A console in the map belongs to a connection that is there, or whose    *)
(* disconnect handler will remove it.  The exceptions are the entries that *)
(* a create in progress adds after that handler has looked: nobody removes *)
(* them any more.                                                          *)
EntryIsOwned ==
    \A id \in Ids \ strays :
        /\ consoleMap[id] # Nobody
        => /\ conn[consoleMap[id]] # "gone"
           /\ conn[consoleMap[id]] = "removing" => id \in toRemove[consoleMap[id]]

(* A shell runs the whole init script, although all shells share the file  *)
(* and every start truncates it: unless another start did so before the    *)
(* shell had read it, or the file could not be written.                    *)
ScriptIsComplete ==
    \A k \in DOMAIN shells :
        shells[k].at # "booting" /\ shells[k].script # "complete"
            => shells[k].disturbed

\* The shells of a console whose start is over.
Bound(id) ==
    {k \in DOMAIN shells : /\ shells[k].id = id
                           /\ \A c \in Conns : handler[c].at = "bind"
                                               => handler[c].shell # k}

(* What is typed into a console goes to the shell that was started last in *)
(* it, whoever started it and whoever types, unless two starts of the      *)
(* console overlapped, for then the last to register wins.                 *)
InputToLatest ==
    \A id \in Ids \ crossed :
        /\ \A k \in Bound(id) : k <= input[id]
        /\ input[id] # 0 => shells[input[id]].id = id
=============================================================================
