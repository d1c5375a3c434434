------------------------------ MODULE GrpcConn ------------------------------
(***************************************************************************)
(* rpc/grpc.go and its users in service/lnd, service/xud and               *)
(* service/boltz.  Every service that speaks gRPC owns one connection (two *)
(* in boltz).  A goroutine opens it, retrying for ever; Update closes it   *)
(* and opens it again; requests take the client of the connection.         *)
(*                                                                         *)
(* cmd/proxy/main.go defers manager.Close() in the function that creates   *)
(* the manager, so the connections are closed, one after the other, while  *)
(* the goroutines that open them are still at it.  A critical section of   *)
(* the mutex is one step.                                                  *)
(***************************************************************************)
EXTENDS Naturals, Sequences

CONSTANTS
    Conns,         \* the connections
    CloseOrder,    \* the connections by service, in the order of Close
    Updates,       \* calls of Update; each is made at most once per connection
    Start,         \* the goroutine `go conn.Open()' of a new connection
    NoConn         \* nil

Opens == {Start} \cup Updates

ASSUME GrpcAssumption ==
    /\ CloseOrder \in Seq(Seq(Conns) \ {<<>>})
    /\ \A k \in Conns : \E i \in DOMAIN CloseOrder :
         \E j \in DOMAIN CloseOrder[i] : CloseOrder[i][j] = k
    /\ Start \notin Updates
    /\ NoConn \notin Opens

VARIABLES
    reachable,     \* reachable[k]: the server answers and its files exist
    opener,        \* opener[k][u]: the Open of k in Start or in the Update u
    conn,          \* conn[k]: t.conn, known by the Open that dialed it
    client,        \* client[k]: t.client, known in the same way
    up,            \* up[k]: the connections that were dialed and not closed
    closer,        \* manager.Close: where it is in CloseOrder
    before,        \* auxiliary: conn when manager.Close began
    withdrawn,     \* auxiliary: where manager.Close closed a connection
    overlapped     \* auxiliary: where an Update began during another Open

vars == <<reachable, opener, conn, client, up, closer, before, withdrawn,
          overlapped>>

Init ==
    /\ reachable \in [Conns -> BOOLEAN]
    /\ opener = [k \in Conns |->
                   [u \in Opens |-> IF u = Start THEN "dial" ELSE "idle"]]
    /\ conn = [k \in Conns |-> NoConn]
    /\ client = [k \in Conns |-> NoConn]
    /\ up = [k \in Conns |-> {}]
    /\ closer = [service |-> 0, next |-> 1]
    /\ before = conn
    /\ withdrawn = {}
    /\ overlapped = {}

OpenerAt(k, u, at) == opener' = [opener EXCEPT ![k][u] = at]

-----------------------------------------------------------------------------
(* Open.                                                                   *)

\* Mutant of Dial: a failed attempt is the last.
DialOnce(k, u) ==
    /\ opener[k][u] = "dial"
    /\ IF reachable[k]
       THEN /\ up' = [up EXCEPT ![k] = @ \cup {u}]
            /\ OpenerAt(k, u, "store")
       ELSE /\ OpenerAt(k, u, "done")
            /\ UNCHANGED up
    /\ UNCHANGED <<reachable, conn, client, closer, before, withdrawn,
                   overlapped>>

\* connect up to DialContext: blocks until connected, fails after a timeout.
Dial(k, u) ==
    /\ opener[k][u] = "dial"
    /\ IF reachable[k]
       THEN /\ up' = [up EXCEPT ![k] = @ \cup {u}]
            /\ OpenerAt(k, u, "store")
       ELSE /\ OpenerAt(k, u, "sleep")
            /\ UNCHANGED up
    /\ UNCHANGED <<reachable, conn, client, closer, before, withdrawn,
                   overlapped>>

\* Mutant of Store: t.conn is not assigned.
StoreClientOnly(k, u) ==
    /\ opener[k][u] = "store"
    /\ client' = [client EXCEPT ![k] = u]
    /\ OpenerAt(k, u, "done")
    /\ UNCHANGED <<reachable, conn, up, closer, before, withdrawn, overlapped>>

\* connect from t.mutex.Lock() on.  What was stored before is dropped.
Store(k, u) ==
    /\ opener[k][u] = "store"
    /\ conn' = [conn EXCEPT ![k] = u]
    /\ client' = [client EXCEPT ![k] = u]
    /\ OpenerAt(k, u, "done")
    /\ UNCHANGED <<reachable, up, closer, before, withdrawn, overlapped>>

\* The end of time.Sleep.
Retry(k, u) ==
    /\ opener[k][u] = "sleep"
    /\ OpenerAt(k, u, "dial")
    /\ UNCHANGED <<reachable, conn, client, up, closer, before, withdrawn,
                   overlapped>>

-----------------------------------------------------------------------------
(* Close.                                                                  *)

\* grpc closes a connection once; a second time is an error.
Fails(k) == conn[k] # NoConn /\ conn[k] \notin up[k]

\* Mutant of Close: t.client is not reset.
CloseKeepingClient(k) ==
    IF conn[k] = NoConn \/ Fails(k)
    THEN UNCHANGED <<conn, client, up>>
    ELSE /\ up' = [up EXCEPT ![k] = @ \ {conn[k]}]
         /\ conn' = [conn EXCEPT ![k] = NoConn]
         /\ UNCHANGED client

Close(k) ==
    IF conn[k] = NoConn \/ Fails(k)
    THEN UNCHANGED <<conn, client, up>>
    ELSE /\ up' = [up EXCEPT ![k] = @ \ {conn[k]}]
         /\ conn' = [conn EXCEPT ![k] = NoConn]
         /\ client' = [client EXCEPT ![k] = NoConn]

\* Where an Open or an Update is when it is not over.
Active == {"close", "dial", "store", "sleep"}

\* Update, up to its reopen.
Update(k, u) ==
    /\ opener[k][u] = "idle"
    /\ u # Start
    /\ overlapped' = IF \E v \in Opens : opener[k][v] \in Active
                     THEN overlapped \cup {k}
                     ELSE overlapped
    /\ OpenerAt(k, u, "close")
    /\ UNCHANGED <<reachable, conn, client, up, closer, before, withdrawn>>

\* Mutant of Reopen: t.Open() without t.Close().
ReopenOnly(k, u) ==
    /\ opener[k][u] = "close"
    /\ OpenerAt(k, u, "dial")
    /\ UNCHANGED <<reachable, conn, client, up, closer, before, withdrawn,
                   overlapped>>

Reopen(k, u) ==
    /\ opener[k][u] = "close"
    /\ Close(k)
    /\ OpenerAt(k, u, IF Fails(k) THEN "failed" ELSE "dial")
    /\ UNCHANGED <<reachable, closer, before, withdrawn, overlapped>>

-----------------------------------------------------------------------------
(* manager.Close.  The service logs an error and reports none.             *)

BeginClose ==
    /\ closer.service = 0
    /\ closer' = [service |-> 1, next |-> 1]
    /\ before' = conn
    /\ UNCHANGED <<reachable, opener, conn, client, up, withdrawn, overlapped>>

\* Mutant of CloseNext: only the first connection of a service is closed.
CloseFirst ==
    /\ closer.service \in 1..Len(CloseOrder)
    /\ LET k == CloseOrder[closer.service][1]
       IN /\ Close(k)
          /\ withdrawn' = IF conn[k] = NoConn THEN withdrawn
                                              ELSE withdrawn \cup {k}
          /\ closer' = [service |-> closer.service + 1, next |-> 1]
    /\ UNCHANGED <<reachable, opener, before, overlapped>>

\* The Close of a service returns at the first error.
CloseNext ==
    /\ closer.service \in 1..Len(CloseOrder)
    /\ LET service == CloseOrder[closer.service]
           k       == service[closer.next]
       IN /\ Close(k)
          /\ withdrawn' = IF conn[k] = NoConn THEN withdrawn
                                              ELSE withdrawn \cup {k}
          /\ closer' = IF closer.next = Len(service) \/ Fails(k)
                       THEN [service |-> closer.service + 1, next |-> 1]
                       ELSE [closer EXCEPT !.next = @ + 1]
    /\ UNCHANGED <<reachable, opener, before, overlapped>>

Closed == closer.service > Len(CloseOrder)

-----------------------------------------------------------------------------
\* A server starts or stops.
Server(k) ==
    /\ reachable' = [reachable EXCEPT ![k] = ~@]
    /\ UNCHANGED <<opener, conn, client, up, closer, before, withdrawn,
                   overlapped>>

Open(k, u) == Dial(k, u) \/ Store(k, u) \/ Retry(k, u) \/ Reopen(k, u)

Closing == BeginClose \/ CloseNext

Next ==
    \/ Closing
    \/ \E k \in Conns : \/ Server(k)
                        \/ \E u \in Opens : Open(k, u) \/ Update(k, u)

Spec == Init /\ [][Next]_vars

(* Goroutines run while they can.  Nothing is assumed of the servers.      *)
Fairness ==
    /\ WF_vars(Closing)
    /\ \A k \in Conns, u \in Opens : WF_vars(Open(k, u))

FairSpec == Spec /\ Fairness

-----------------------------------------------------------------------------
TypeOK ==
    /\ reachable \in [Conns -> BOOLEAN]
    /\ opener \in [Conns -> [Opens -> {"idle", "close", "dial", "store",
                                       "sleep", "done", "failed"}]]
    /\ conn \in [Conns -> Opens \cup {NoConn}]
    /\ client \in [Conns -> Opens \cup {NoConn}]
    /\ up \in [Conns -> SUBSET Opens]
    /\ closer \in [service : Nat, next : Nat \ {0}]
    /\ before \in [Conns -> Opens \cup {NoConn}]
    /\ withdrawn \subseteq Conns
    /\ overlapped \subseteq Conns

(* GetClient returns nil or a client of a connection that is open at that  *)
(* moment and that a later Close will find, however Open, Update and Close *)
(* interleave.  It is also why Close never fails and boltz never leaves    *)
(* its second connection open.                                             *)
ClientIsUp ==
    \A k \in Conns : /\ client[k] = conn[k]
                     /\ client[k] # NoConn => client[k] \in up[k]

(* No connection leaks: one that is open is stored, or about to be, unless *)
(* an Update began before an earlier Open had ended.                       *)
NoLeak ==
    \A k \in Conns \ overlapped : \A u \in up[k] :
        conn[k] = u \/ opener[k][u] = "store"

(* When manager.Close returns, all the connections there were when it      *)
(* began are closed, under the same exception.                             *)
CloseCloses ==
    Closed => \A k \in Conns \ overlapped : before[k] \notin up[k]

(* A server that is there to stay gets a client that is there to stay,     *)
(* unless manager.Close found the connection already established: nothing  *)
(* opens it again after that.                                              *)
ConnectedUnlessWithdrawn ==
    \A k \in Conns :
        <>[]reachable[k] => <>[](client[k] # NoConn \/ k \in withdrawn)

-----------------------------------------------------------------------------
(* The inductive invariant behind the three.                               *)

\* A connection is open only between its dialing and a Close, and an Open
\* that holds one stores it as its last step.
OpenersInv ==
    \A k \in Conns, u \in Opens :
        /\ u \in up[k] => opener[k][u] \in {"store", "done"}
        /\ opener[k][u] = "store" => u \in up[k]
        /\ conn[k] = u => opener[k][u] = "done"

\* Without overlap one Open runs at a time, and it begins with no connection.
OneAtATime ==
    \A k \in Conns \ overlapped : \A u \in Opens :
        /\ opener[k][u] \in Active =>
             \A v \in Opens : opener[k][v] \in Active => u = v
        /\ opener[k][u] \in Active \ {"close"} => conn[k] = NoConn

\* manager.Close has yet to come to k.
ToClose(k) ==
    \E i \in DOMAIN CloseOrder : \E j \in DOMAIN CloseOrder[i] :
        /\ CloseOrder[i][j] = k
        /\ \/ i > closer.service
           \/ i = closer.service /\ j >= closer.next

\* What was connected when manager.Close began is still to be closed.
CloserInv ==
    /\ closer.service \in DOMAIN CloseOrder =>
         closer.next \in DOMAIN CloseOrder[closer.service]
    /\ closer.service > 0 => \A k \in Conns :
         /\ before[k] # NoConn => opener[k][before[k]] = "done"
         /\ k \notin overlapped /\ before[k] \in up[k] => ToClose(k)

IInv ==
    /\ TypeOK
    /\ ClientIsUp
    /\ NoLeak
    /\ OpenersInv
    /\ OneAtATime
    /\ CloserInv
=============================================================================
