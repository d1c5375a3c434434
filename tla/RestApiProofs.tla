--------------------------- MODULE RestApiProofs ---------------------------
(***************************************************************************)
(* Proofs about RestApi, for every set of requests and for everything that *)
(* GrpcConn leaves open about the connections.  The theorems of            *)
(* GrpcConnProofs are used through an instance: a request changes nothing  *)
(* of a connection, so whatever holds of the connections alone holds here. *)
(***************************************************************************)
EXTENDS RestApi, TLAPS

GrpcProofs == INSTANCE GrpcConnProofs

(* The values of req[r].                                                   *)
Places == {"idle", "client", "call", "remove", "answer", "done"}

Request ==
    [at : Places, kind : Kinds, conn : Conns \cup {NoConn}, bad : BOOLEAN,
     client : Grpc!Opens \cup {NoConn}, served : BOOLEAN, ok : BOOLEAN,
     removed : BOOLEAN, status : {0, 200, 400, 500}, bodies : 0..3]

-----------------------------------------------------------------------------
(* The inductive invariant.  Most of it is about one request at a time.    *)

(* A handler goes on after a parameter or a body that is not understood    *)
(* only if it is one of those that do, and none of boltz is.               *)
Handled(q) ==
    /\ q.at # "idle" => q.conn \in Conns
    /\ q.at = "remove" => q.kind = "changepass"
    /\ q.kind = "plain" => ~q.bad
    /\ q.kind = "checked" /\ q.bad =>
         q.at = "done" /\ q.client = NoConn /\ ~q.served
    /\ q.conn \in Boltz => q.kind \in {"plain", "checked"}

(* What the server did, it did for the client that was taken; and what the *)
(* handler knows of it is what happened.                                   *)
Called(q) ==
    /\ q.at \in {"idle", "client"} => q.client = NoConn
    /\ q.ok => q.served

(* What has been written, by the place where the handler is.               *)
Written(q) ==
    /\ q.at \in {"client", "call", "remove"} =>
         /\ q.status = IF q.bad THEN 400 ELSE 0
         /\ q.bodies = IF q.bad THEN 1 ELSE 0
    /\ q.at = "answer" =>
         /\ q.status \in IF q.bad THEN {400} ELSE {0, 500}
         /\ q.bodies \in 0..2
         /\ q.bodies > 0 => q.bad \/ q.kind = "changepass"

(* What the client is told in the end: OutcomeTold of one request.         *)
Told(q) ==
    q.at = "done" =>
        /\ q.status = 200 => q.served /\ ~q.bad
        /\ q.status = 400 <=> q.bad
        /\ q.bodies > 1 => q.bad \/ q.kind = "changepass"
        /\ q.bodies = 0 => q.conn \in Boltz

Sound(q) == Handled(q) /\ Called(q) /\ Written(q) /\ Told(q)

RequestsSound == \A r \in Requests : Sound(req[r])

(* A changepass that is past its os.Remove has removed the file, found it  *)
(* gone, or failed; and nothing brings the file back.                      *)
FileSettled ==
    \A r \in Requests :
        req[r].kind = "changepass" /\ req[r].at \in {"answer", "done"} =>
            ~defaultFile \/ removeFailed

IInv ==
    /\ GrpcProofs!IInv
    /\ TypeOK
    /\ RequestsSound
    /\ FileSettled
    /\ DefaultFileIsTrue

-----------------------------------------------------------------------------
(* The connections.                                                        *)

LEMMA Assumed ==
    /\ Boltz \subseteq Conns
    /\ NoConn \notin Grpc!Opens
    /\ GrpcProofs!GrpcAssumption
BY RestAssumption DEF Grpc!GrpcAssumption, GrpcProofs!GrpcAssumption,
                      Grpc!Opens, GrpcProofs!Opens

LEMMA ConnectionsInit == Grpc!Init => GrpcProofs!IInv
<1>1. Grpc!Init => GrpcProofs!Init
  BY DEF Grpc!Init, GrpcProofs!Init, Grpc!Opens, GrpcProofs!Opens
<1>2. QED
  BY <1>1, Assumed, GrpcProofs!InitInv

LEMMA ConnectionsNext ==
    GrpcProofs!IInv /\ [Grpc!Next]_grpcVars => GrpcProofs!IInv'
<1>1. Grpc!Next => GrpcProofs!Next
  BY DEF Grpc!Next, GrpcProofs!Next, Grpc!Closing, GrpcProofs!Closing,
         Grpc!BeginClose, GrpcProofs!BeginClose,
         Grpc!CloseNext, GrpcProofs!CloseNext, Grpc!Close, GrpcProofs!Close,
         Grpc!Fails, GrpcProofs!Fails, Grpc!Server, GrpcProofs!Server,
         Grpc!Open, GrpcProofs!Open, Grpc!Update, GrpcProofs!Update,
         Grpc!Dial, GrpcProofs!Dial, Grpc!Store, GrpcProofs!Store,
         Grpc!Retry, GrpcProofs!Retry, Grpc!Reopen, GrpcProofs!Reopen,
         Grpc!OpenerAt, GrpcProofs!OpenerAt, Grpc!Active, GrpcProofs!Active,
         Grpc!Opens, GrpcProofs!Opens
<1>2. UNCHANGED grpcVars => UNCHANGED GrpcProofs!vars
  BY DEF grpcVars, GrpcProofs!vars
<1>3. QED
  BY <1>1, <1>2, Assumed, GrpcProofs!NextInv

LEMMA ConnectionsTyped == GrpcProofs!IInv => Grpc!TypeOK
BY DEF GrpcProofs!IInv, GrpcProofs!TypeOK, Grpc!TypeOK,
       Grpc!Opens, GrpcProofs!Opens

(* A client that a request can take.                                       *)
LEMMA TakenClient ==
    ASSUME Grpc!TypeOK, NEW k \in Conns, client[k] # NoConn
    PROVE  client[k] \in Grpc!Opens
BY DEF Grpc!TypeOK

-----------------------------------------------------------------------------
(* A record is a request when it has the fields of one and each has one of *)
(* its values.                                                             *)
WellFormed(q) ==
    /\ q = [at |-> q.at, kind |-> q.kind, conn |-> q.conn, bad |-> q.bad,
            client |-> q.client, served |-> q.served, ok |-> q.ok,
            removed |-> q.removed, status |-> q.status, bodies |-> q.bodies]
    /\ q.at \in Places /\ q.kind \in Kinds /\ q.conn \in Conns \cup {NoConn}
    /\ q.bad \in BOOLEAN /\ q.client \in Grpc!Opens \cup {NoConn}
    /\ q.served \in BOOLEAN /\ q.ok \in BOOLEAN /\ q.removed \in BOOLEAN
    /\ q.status \in {0, 200, 400, 500} /\ q.bodies \in 0..3

LEMMA RequestFields == ASSUME NEW q \in Request PROVE WellFormed(q)
BY DEF Request, WellFormed

LEMMA IsRequest == ASSUME NEW q, WellFormed(q) PROVE q \in Request
BY DEF Request, WellFormed

(* What one step of a handler does to the record of its request.           *)

Received(kind, k, bad) ==
    [NoRequest EXCEPT
       !.kind = kind, !.conn = k, !.bad = bad,
       !.at = IF bad /\ kind = "checked" THEN "done" ELSE "client",
       !.status = IF bad THEN 400 ELSE 0,
       !.bodies = IF bad THEN 1 ELSE 0]

LEMMA AfterReceive ==
    ASSUME NEW kind \in Kinds, NEW k \in Conns, kind \in KindsOf(k),
           NEW bad \in BOOLEAN, bad => kind # "plain", NEW q,
           q = Received(kind, k, bad)
    PROVE  /\ q \in Request /\ Sound(q) /\ q.at \in {"client", "done"}
           /\ q.at = "done" => q.kind # "changepass"
<1>1. q = [at |-> IF bad /\ kind = "checked" THEN "done" ELSE "client",
           kind |-> kind, conn |-> k, bad |-> bad, client |-> NoConn,
           served |-> FALSE, ok |-> FALSE, removed |-> FALSE,
           status |-> IF bad THEN 400 ELSE 0, bodies |-> IF bad THEN 1 ELSE 0]
  BY DEF NoRequest, Received
<1>2. /\ q.at = IF bad /\ kind = "checked" THEN "done" ELSE "client"
      /\ q.kind = kind /\ q.conn = k /\ q.bad = bad /\ q.client = NoConn
      /\ ~q.served /\ ~q.ok
      /\ q.status = IF bad THEN 400 ELSE 0
      /\ q.bodies = IF bad THEN 1 ELSE 0
  BY <1>1
<1>3. q \in Request
  <2>1. (IF bad /\ kind = "checked" THEN "done" ELSE "client") \in Places
    BY DEF Places
  <2>2. /\ (IF bad THEN 400 ELSE 0) \in {0, 200, 400, 500}
        /\ (IF bad THEN 1 ELSE 0) \in 0..3
    OBVIOUS
  <2>3. QED
    BY <1>1, <2>1, <2>2 DEF Request
<1>4. Handled(q)
  BY <1>2 DEF Handled, KindsOf
<1>5. Called(q) /\ Written(q) /\ Told(q)
  BY <1>2 DEF Called, Written, Told
<1>6. QED
  BY <1>2, <1>3, <1>4, <1>5 DEF Sound

(* TakeClient: the client is there, or an error is made of it.             *)
Taken(q, c) == [q EXCEPT !.at = "call", !.client = c]

LEMMA AfterTake ==
    ASSUME NEW q \in Request, Sound(q), q.at = "client",
           NEW c \in Grpc!Opens, NEW p, p = Taken(q, c)
    PROVE  p \in Request /\ Sound(p) /\ p.at = "call" /\ p.kind = q.kind
<1>1. /\ p.at = "call" /\ p.client = c
      /\ p.kind = q.kind /\ p.conn = q.conn /\ p.bad = q.bad
      /\ p.served = q.served /\ p.ok = q.ok /\ p.removed = q.removed
      /\ p.status = q.status /\ p.bodies = q.bodies
  BY DEF Request, Taken
<1>2. p \in Request
  <2>1. p = [at |-> p.at, kind |-> p.kind, conn |-> p.conn, bad |-> p.bad,
             client |-> p.client, served |-> p.served, ok |-> p.ok,
             removed |-> p.removed, status |-> p.status, bodies |-> p.bodies]
    BY DEF Request, Taken
  <2>2. WellFormed(p)
    BY <1>1, <2>1, RequestFields DEF WellFormed, Places
  <2>3. QED
    BY <2>2, IsRequest
<1>3. Handled(p) /\ Called(p) /\ Written(p) /\ Told(p)
  BY <1>1 DEF Sound, Handled, Called, Written, Told
<1>4. QED
  BY <1>1, <1>2, <1>3 DEF Sound

Recovered(q) == [q EXCEPT !.at = "done", !.status = 500]

LEMMA AfterPanic ==
    ASSUME NEW q \in Request, Sound(q), q.at = "client", q.conn \in Boltz,
           NEW p, p = Recovered(q)
    PROVE  p \in Request /\ Sound(p) /\ p.at = "done"
             /\ p.kind # "changepass"
<1>1. /\ p.at = "done" /\ p.status = 500
      /\ p.kind = q.kind /\ p.conn = q.conn /\ p.bad = q.bad
      /\ p.client = q.client
      /\ p.served = q.served /\ p.ok = q.ok /\ p.removed = q.removed
      /\ p.bodies = q.bodies
  BY DEF Request, Recovered
<1>2. p \in Request
  <2>1. p = [at |-> p.at, kind |-> p.kind, conn |-> p.conn, bad |-> p.bad,
             client |-> p.client, served |-> p.served, ok |-> p.ok,
             removed |-> p.removed, status |-> p.status, bodies |-> p.bodies]
    BY DEF Request, Recovered
  <2>2. WellFormed(p)
    BY <1>1, <2>1, RequestFields DEF WellFormed, Places
  <2>3. QED
    BY <2>2, IsRequest
<1>3. q.kind \in {"plain", "checked"} /\ ~q.bad
  BY DEF Sound, Handled, Request
<1>4. q.bodies = 0
  BY <1>3 DEF Sound, Written
<1>5. Handled(p) /\ Called(p) /\ Written(p) /\ Told(p)
  BY <1>1, <1>3, <1>4 DEF Sound, Handled, Called, Written, Told
<1>6. QED
  BY <1>1, <1>2, <1>3, <1>5 DEF Sound

(* The handler goes on from a client it did not get, from a call that      *)
(* failed, or from one that went well (ok).                                *)
Onwards(q) == IF q.kind = "changepass" THEN "remove" ELSE "answer"

Returned(q, ok) == [q EXCEPT !.at = Onwards(q), !.ok = ok]

LEMMA AfterCalling ==
    ASSUME NEW q \in Request, Sound(q), q.at \in {"client", "call"},
           NEW ok \in BOOLEAN, ok => q.served
    PROVE  /\ Returned(q, ok) \in Request /\ Sound(Returned(q, ok))
           /\ Returned(q, ok).kind = q.kind
           /\ Returned(q, ok).at = Onwards(q)
<1> DEFINE at == Onwards(q)
           p  == Returned(q, ok)
<1>0. at \in Places /\ p = [q EXCEPT !.at = at, !.ok = ok]
  BY DEF Onwards, Returned, Places
<1>9. at = IF q.kind = "changepass" THEN "remove" ELSE "answer"
  BY DEF Onwards
<1> HIDE DEF at, p
<1>1. /\ p.at = at /\ p.ok = ok
      /\ p.kind = q.kind /\ p.conn = q.conn /\ p.bad = q.bad
      /\ p.client = q.client
      /\ p.served = q.served /\ p.removed = q.removed
      /\ p.status = q.status /\ p.bodies = q.bodies
  BY <1>0 DEF Request
<1>2. p \in Request
  <2>1. p = [at |-> p.at, kind |-> p.kind, conn |-> p.conn, bad |-> p.bad,
             client |-> p.client, served |-> p.served, ok |-> p.ok,
             removed |-> p.removed, status |-> p.status, bodies |-> p.bodies]
    BY <1>0 DEF Request
  <2>2. WellFormed(p)
    BY <1>0, <1>1, <2>1, RequestFields DEF WellFormed
  <2>3. QED
    BY <2>2, IsRequest
<1>3. Handled(p) /\ Called(p) /\ Told(p)
  BY <1>1, <1>9 DEF Sound, Handled, Called, Told
<1>4. Written(p)
  BY <1>1, <1>9 DEF Sound, Written
<1>5. QED
  BY <1>1, <1>2, <1>3, <1>4 DEF Sound, at, p

(* The error of a client that was not there, or of a call that failed.     *)
LEMMA AfterError ==
    ASSUME NEW q \in Request, Sound(q), q.at \in {"client", "call"}
    PROVE  [q EXCEPT !.at = Onwards(q)] = Returned(q, q.ok)
             /\ q.ok \in BOOLEAN /\ (q.ok => q.served)
BY DEF Request, Sound, Called, Returned

(* Serve: by then the client has been taken, so the request is neither     *)
(* waiting for one nor refused for a parameter.                            *)
Carried(q) == [q EXCEPT !.served = TRUE]

LEMMA AfterServe ==
    ASSUME NEW q \in Request, Sound(q), q.client # NoConn,
           NEW p, p = Carried(q)
    PROVE  /\ p \in Request /\ Sound(p) /\ p.kind = q.kind /\ p.at = q.at
           /\ p.at \notin {"idle", "client"}
<1>1. /\ p.served = TRUE /\ p.at = q.at
      /\ p.kind = q.kind /\ p.conn = q.conn /\ p.bad = q.bad
      /\ p.client = q.client
      /\ p.ok = q.ok /\ p.removed = q.removed
      /\ p.status = q.status /\ p.bodies = q.bodies
  BY DEF Request, Carried
<1>2. p \in Request
  <2>1. p = [at |-> p.at, kind |-> p.kind, conn |-> p.conn, bad |-> p.bad,
             client |-> p.client, served |-> p.served, ok |-> p.ok,
             removed |-> p.removed, status |-> p.status, bodies |-> p.bodies]
    BY DEF Request, Carried
  <2>2. p.served \in BOOLEAN
    BY <1>1
  <2>3. WellFormed(p)
    BY <1>1, <2>1, <2>2, RequestFields DEF WellFormed
  <2>4. QED
    BY <2>3, IsRequest
<1>3. q.at \notin {"idle", "client"}
  BY DEF Sound, Called
<1>4. Handled(p) /\ Called(p) /\ Written(p) /\ Told(p)
  BY <1>1, <1>3 DEF Sound, Handled, Called, Written, Told
<1>5. QED
  BY <1>1, <1>2, <1>3, <1>4 DEF Sound

(* RemoveFile, when the file was there.                                    *)
Unlinked(q) == [q EXCEPT !.at = "answer", !.removed = TRUE]

LEMMA AfterRemoval ==
    ASSUME NEW q \in Request, Sound(q), q.at = "remove",
           NEW p, p = Unlinked(q)
    PROVE  p \in Request /\ Sound(p) /\ p.kind = q.kind /\ p.at = "answer"
<1>1. /\ p.removed = TRUE /\ p.at = "answer"
      /\ p.kind = q.kind /\ p.conn = q.conn /\ p.bad = q.bad
      /\ p.client = q.client /\ p.served = q.served /\ p.ok = q.ok
      /\ p.status = q.status /\ p.bodies = q.bodies
  BY DEF Request, Unlinked
<1>2. p \in Request
  <2>1. p = [at |-> p.at, kind |-> p.kind, conn |-> p.conn, bad |-> p.bad,
             client |-> p.client, served |-> p.served, ok |-> p.ok,
             removed |-> p.removed, status |-> p.status, bodies |-> p.bodies]
    BY DEF Request, Unlinked
  <2>2. p.removed \in BOOLEAN
    BY <1>1
  <2>3. WellFormed(p)
    BY <1>1, <2>1, <2>2, RequestFields DEF WellFormed, Places
  <2>4. QED
    BY <2>3, IsRequest
<1>3. Handled(p) /\ Called(p) /\ Told(p)
  BY <1>1 DEF Sound, Handled, Called, Told
<1>4. Written(p)
  BY <1>1 DEF Sound, Written
<1>5. QED
  BY <1>1, <1>2, <1>3, <1>4 DEF Sound

(* A body is written: the code of the first one stays.                     *)
WithBody(q, code, at) ==
    [q EXCEPT !.status = IF q.status = 0 THEN code ELSE q.status,
              !.bodies = q.bodies + 1, !.at = at]

\* What is left of q in p, a body later.
BodyAdded(q, code, at, p) ==
    /\ p \in Request
    /\ p.at = at
    /\ p.kind = q.kind /\ p.conn = q.conn /\ p.bad = q.bad
    /\ p.client = q.client /\ p.served = q.served /\ p.ok = q.ok
    /\ p.status = IF q.status = 0 THEN code ELSE q.status
    /\ p.bodies = q.bodies + 1

LEMMA AfterWriting ==
    ASSUME NEW q \in Request, q.bodies \in 0..2,
           NEW code \in {200, 500}, NEW at \in Places
    PROVE  BodyAdded(q, code, at, WithBody(q, code, at))
<1> DEFINE p == WithBody(q, code, at)
<1>0. p = [q EXCEPT !.status = IF q.status = 0 THEN code ELSE q.status,
                    !.bodies = q.bodies + 1, !.at = at]
  BY DEF WithBody
<1> HIDE DEF p
<1>1. /\ p.at = at /\ p.removed = q.removed
      /\ p.kind = q.kind /\ p.conn = q.conn /\ p.bad = q.bad
      /\ p.client = q.client /\ p.served = q.served /\ p.ok = q.ok
      /\ p.status = IF q.status = 0 THEN code ELSE q.status
      /\ p.bodies = q.bodies + 1
  BY <1>0 DEF Request
<1>2. p = [at |-> p.at, kind |-> p.kind, conn |-> p.conn, bad |-> p.bad,
           client |-> p.client, served |-> p.served, ok |-> p.ok,
           removed |-> p.removed, status |-> p.status, bodies |-> p.bodies]
  BY <1>0 DEF Request
<1>3. p.status \in {0, 200, 400, 500} /\ p.bodies \in 0..3
  <2>1. q.status \in {0, 200, 400, 500}
    BY DEF Request
  <2>2. QED
    BY <1>1, <2>1
<1>4. WellFormed(p)
  BY <1>1, <1>2, <1>3, RequestFields DEF WellFormed
<1>5. QED
  BY <1>1, <1>4, IsRequest DEF BodyAdded, p

(* RemoveFile, when it failed.                                             *)
LEMMA AfterFailedRemoval ==
    ASSUME NEW q \in Request, Sound(q), q.at = "remove",
           q.kind = "changepass", NEW p, p = WithBody(q, 500, "answer")
    PROVE  p \in Request /\ Sound(p) /\ p.kind = q.kind /\ p.at = "answer"
<1>1. /\ q.status = IF q.bad THEN 400 ELSE 0
      /\ q.bodies = IF q.bad THEN 1 ELSE 0
  BY DEF Sound, Written
<1>2. q.bodies \in 0..2 /\ "answer" \in Places
  BY <1>1 DEF Places
<1>3. BodyAdded(q, 500, "answer", p)
  BY <1>2, AfterWriting
<1>4. Handled(p) /\ Called(p) /\ Told(p)
  BY <1>3 DEF BodyAdded, Sound, Handled, Called, Told
<1>5. Written(p)
  BY <1>1, <1>3 DEF BodyAdded, Written
<1>6. QED
  BY <1>3, <1>4, <1>5 DEF BodyAdded, Sound

(* Answer: a 200 is written only when the call went well.                  *)
LEMMA AfterAnswer ==
    ASSUME NEW q \in Request, Sound(q), q.at = "answer",
           NEW code \in {200, 500}, code = 200 => q.ok, NEW p,
           p = WithBody(q, code, "done")
    PROVE  p \in Request /\ Sound(p) /\ p.kind = q.kind /\ p.at = "done"
<1>1. /\ q.status \in IF q.bad THEN {400} ELSE {0, 500}
      /\ q.bodies \in 0..2
      /\ q.bodies > 0 => q.bad \/ q.kind = "changepass"
  BY DEF Sound, Written
<1>2. "done" \in Places
  BY DEF Places
<1>3. BodyAdded(q, code, "done", p)
  BY <1>1, <1>2, AfterWriting
<1>4. Handled(p) /\ Called(p) /\ Written(p)
  BY <1>3 DEF BodyAdded, Sound, Handled, Called, Written
<1>5. Told(p)
  <2>1. q.ok => q.served
    BY DEF Sound, Called
  <2>2. p.bodies > 1 => q.bodies > 0
    BY <1>1, <1>3 DEF BodyAdded
  <2>3. p.bodies # 0
    BY <1>1, <1>3 DEF BodyAdded
  <2>4. p.status = 400 <=> p.bad
    BY <1>1, <1>3 DEF BodyAdded
  <2>5. p.status = 200 => p.served /\ ~p.bad
    BY <1>1, <1>3, <2>1 DEF BodyAdded
  <2>6. QED
    BY <1>1, <1>3, <2>2, <2>3, <2>4, <2>5 DEF BodyAdded, Told
<1>6. QED
  BY <1>3, <1>4, <1>5 DEF BodyAdded, Sound

-----------------------------------------------------------------------------
(* One request moves on.                                                   *)

LEMMA OneRequest ==
    ASSUME TypeOK, RequestsSound, NEW r \in Requests,
           NEW p \in Request, Sound(p), req' = [req EXCEPT ![r] = p]
    PROVE  /\ req' \in [Requests -> Request]
           /\ req'[r] = p
           /\ \A s \in Requests \ {r} : req'[s] = req[s]
           /\ RequestsSound'
<1>1. req \in [Requests -> Request]
  BY DEF TypeOK, Request, Places
<1>2. /\ req' \in [Requests -> Request]
      /\ req'[r] = p
      /\ \A s \in Requests \ {r} : req'[s] = req[s]
  BY <1>1
<1>3. \A s \in Requests : Sound(req'[s])
  BY <1>2 DEF RequestsSound
<1>4. QED
  BY <1>2, <1>3 DEF RequestsSound

(* A changepass request that is in its call, or about to remove the file.  *)
Removing(q) == q.kind = "changepass" /\ q.at \in {"call", "remove"}

(* A changepass request that is past os.Remove.                            *)
PastRemoval(q) == q.kind = "changepass" /\ q.at \in {"answer", "done"}

(* The two facts about the file survive a step that neither takes a        *)
(* request out of its removal nor touches the file.                        *)
LEMMA FileKept ==
    ASSUME FileSettled, DefaultFileIsTrue,
           UNCHANGED <<defaultFile, removeFailed>>,
           \A s \in Requests : PastRemoval(req'[s]) => PastRemoval(req[s]),
           \A s \in Requests : Removing(req[s]) => Removing(req'[s]),
           \/ UNCHANGED password
           \/ \E s \in Requests : Removing(req'[s]) \/ PastRemoval(req[s])
    PROVE  FileSettled' /\ DefaultFileIsTrue'
<1>1. FileSettled'
  BY DEF FileSettled, PastRemoval
<1>2. ASSUME defaultFile', ~removeFailed', password' = "chosen"
      PROVE  \E s \in Requests : Removing(req'[s])
  <2>1. \A s \in Requests : ~PastRemoval(req[s])
    BY <1>2 DEF FileSettled, PastRemoval
  <2>2. CASE UNCHANGED password
    <3>1. \E s \in Requests : Removing(req[s])
      BY <1>2, <2>2 DEF DefaultFileIsTrue, Removing
    <3>2. QED
      BY <3>1
  <2>3. QED
    BY <2>1, <2>2
<1>3. DefaultFileIsTrue'
  BY <1>2 DEF DefaultFileIsTrue, Removing
<1>4. QED
  BY <1>1, <1>3

LEMMA TypedAgain ==
    ASSUME GrpcProofs!IInv', req' \in [Requests -> Request],
           defaultFile' \in BOOLEAN, removeFailed' \in BOOLEAN,
           password' \in {"default", "chosen"}
    PROVE  TypeOK'
<1>1. GrpcProofs!IInv' => Grpc!TypeOK'
  BY ConnectionsTyped, PTL
<1>2. QED
  BY <1>1 DEF TypeOK, Request, Places

(* A step of one request that leaves the connections and the file alone.   *)
LEMMA HandlerStep ==
    ASSUME IInv, NEW r \in Requests, NEW p \in Request, Sound(p),
           req' = [req EXCEPT ![r] = p],
           UNCHANGED <<grpcVars, fileVars>>,
           PastRemoval(p) => PastRemoval(req[r]),
           Removing(req[r]) => Removing(p)
    PROVE  IInv'
<1>1. TypeOK /\ RequestsSound /\ FileSettled /\ DefaultFileIsTrue
  BY DEF IInv
<1>2. /\ req' \in [Requests -> Request]
      /\ req'[r] = p
      /\ \A s \in Requests \ {r} : req'[s] = req[s]
      /\ RequestsSound'
  BY <1>1, OneRequest
<1>3. GrpcProofs!IInv'
  BY ConnectionsNext DEF IInv
<1>4. TypeOK'
  BY <1>1, <1>2, <1>3, TypedAgain DEF TypeOK, fileVars
<1>5. FileSettled' /\ DefaultFileIsTrue'
  BY <1>1, <1>2, FileKept DEF fileVars
<1>6. QED
  BY <1>2, <1>3, <1>4, <1>5 DEF IInv

-----------------------------------------------------------------------------
(* The actions.                                                            *)

LEMMA InitInv == Init => IInv
<1> SUFFICES ASSUME Init PROVE IInv
  OBVIOUS
<1>1. GrpcProofs!IInv /\ Grpc!TypeOK
  BY ConnectionsInit, ConnectionsTyped DEF Init
<1>2. /\ req = [r \in Requests |-> NoRequest]
      /\ defaultFile \in BOOLEAN
      /\ password = IF defaultFile THEN "default" ELSE "chosen"
      /\ removeFailed = FALSE
  BY DEF Init
<1>3. NoRequest \in Request /\ Sound(NoRequest)
  <2>1. NoRequest \in Request
    BY DEF NoRequest, Request, Places, Kinds
  <2>2. Handled(NoRequest)
    BY Assumed DEF NoRequest, Handled
  <2>3. Called(NoRequest) /\ Written(NoRequest) /\ Told(NoRequest)
    BY DEF NoRequest, Called, Written, Told
  <2>4. QED
    BY <2>1, <2>2, <2>3 DEF Sound
<1>4. req \in [Requests -> Request] /\ RequestsSound
  BY <1>2, <1>3 DEF RequestsSound
<1>5. TypeOK
  BY <1>1, <1>2, <1>4 DEF TypeOK, Request, Places
<1>6. FileSettled /\ DefaultFileIsTrue
  BY <1>2 DEF FileSettled, DefaultFileIsTrue, NoRequest
<1>7. QED
  BY <1>1, <1>4, <1>5, <1>6 DEF IInv

(* What IInv says of one request.                                          *)
LEMMA OfRequest ==
    ASSUME IInv, NEW r \in Requests
    PROVE  /\ req[r] \in Request /\ Sound(req[r])
           /\ req \in [Requests -> Request]
           /\ Grpc!TypeOK /\ TypeOK /\ RequestsSound
           /\ FileSettled /\ DefaultFileIsTrue
<1>1. req \in [Requests -> Request]
  BY DEF IInv, TypeOK, Request, Places
<1>2. QED
  BY <1>1 DEF IInv, RequestsSound, TypeOK

LEMMA ReceiveInv ==
    ASSUME IInv, NEW r \in Requests, NEW kind \in Kinds, NEW k \in Conns,
           Receive(r, kind, k)
    PROVE  IInv'
<1>1. PICK bad \in {FALSE, kind # "plain"} :
        req' = [req EXCEPT ![r] = Received(kind, k, bad)]
  BY DEF Receive, Received
<1>2. /\ req[r].at = "idle" /\ kind \in KindsOf(k)
      /\ bad \in BOOLEAN /\ (bad => kind # "plain")
      /\ UNCHANGED <<grpcVars, fileVars>>
  BY DEF Receive
<1> DEFINE p == Received(kind, k, bad)
<1>3. /\ p \in Request /\ Sound(p) /\ p.at \in {"client", "done"}
      /\ p.at = "done" => p.kind # "changepass"
  BY <1>2, AfterReceive
<1>4. req' = [req EXCEPT ![r] = p]
  BY <1>1
<1> HIDE DEF p
<1>5. /\ PastRemoval(p) => PastRemoval(req[r])
      /\ Removing(req[r]) => Removing(p)
  BY <1>2, <1>3 DEF PastRemoval, Removing
<1>6. QED
  BY <1>2, <1>3, <1>4, <1>5, HandlerStep

(* A handler goes on from its client or its call.                          *)
LEMMA ReturnedInv ==
    ASSUME IInv, NEW r \in Requests, req[r].at \in {"client", "call"},
           NEW ok \in BOOLEAN, ok => req[r].served,
           req' = [req EXCEPT ![r] = Returned(req[r], ok)],
           UNCHANGED <<grpcVars, fileVars>>
    PROVE  IInv'
<1> DEFINE p == Returned(req[r], ok)
<1>1. req[r] \in Request /\ Sound(req[r])
  BY OfRequest
<1>2. p \in Request /\ Sound(p) /\ p.kind = req[r].kind
        /\ p.at = Onwards(req[r])
  BY <1>1, AfterCalling
<1>3. req' = [req EXCEPT ![r] = p]
  OBVIOUS
<1> HIDE DEF p
<1>4. /\ PastRemoval(p) => PastRemoval(req[r])
      /\ Removing(req[r]) => Removing(p)
  BY <1>2 DEF PastRemoval, Removing, Onwards
<1>5. QED
  BY <1>2, <1>3, <1>4, HandlerStep

LEMMA TakeClientInv ==
    ASSUME IInv, NEW r \in Requests, TakeClient(r)
    PROVE  IInv'
<1> DEFINE k == req[r].conn
<1>1. /\ req[r] \in Request /\ Sound(req[r])
      /\ req \in [Requests -> Request]
      /\ Grpc!TypeOK
  BY OfRequest
<1>2. req[r].at = "client" /\ UNCHANGED <<grpcVars, fileVars>>
  BY DEF TakeClient
<1>3. CASE /\ client[k] # NoConn
           /\ req' = [req EXCEPT ![r].at = "call", ![r].client = client[k]]
  <2> DEFINE p == Taken(req[r], client[k])
  <2>1. k \in Conns /\ client[k] \in Grpc!Opens
    BY <1>1, <1>2, <1>3 DEF Grpc!TypeOK, Sound, Handled
  <2>2. req' = [req EXCEPT ![r] = p]
    BY <1>1, <1>3 DEF Taken
  <2>3. p \in Request /\ Sound(p) /\ p.at = "call" /\ p.kind = req[r].kind
    BY <1>1, <1>2, <2>1, AfterTake
  <2> HIDE DEF p
  <2>4. /\ PastRemoval(p) => PastRemoval(req[r])
        /\ Removing(req[r]) => Removing(p)
    BY <1>2, <2>3 DEF PastRemoval, Removing
  <2>5. QED
    BY <1>2, <2>2, <2>3, <2>4, HandlerStep
<1>4. CASE req' = [req EXCEPT ![r].at = AfterCall(r)]
  <2>1. req' = [req EXCEPT ![r] = [req[r] EXCEPT !.at = Onwards(req[r])]]
    BY <1>1, <1>4 DEF AfterCall, Onwards
  <2>2. /\ [req[r] EXCEPT !.at = Onwards(req[r])]
             = Returned(req[r], req[r].ok)
        /\ req[r].ok \in BOOLEAN /\ (req[r].ok => req[r].served)
    BY <1>1, <1>2, AfterError
  <2>3. QED
    BY <1>2, <2>1, <2>2, ReturnedInv
<1>5. CASE /\ k \in Boltz
           /\ req' = [req EXCEPT ![r].at = "done", ![r].status = 500]
  <2> DEFINE p == Recovered(req[r])
  <2>1. req' = [req EXCEPT ![r] = p]
    BY <1>1, <1>5 DEF Recovered
  <2>2. p \in Request /\ Sound(p) /\ p.at = "done" /\ p.kind # "changepass"
    BY <1>1, <1>2, <1>5, AfterPanic
  <2> HIDE DEF p
  <2>3. /\ PastRemoval(p) => PastRemoval(req[r])
        /\ Removing(req[r]) => Removing(p)
    BY <1>2, <2>2 DEF PastRemoval, Removing
  <2>4. QED
    BY <1>2, <2>1, <2>2, <2>3, HandlerStep
<1>6. QED
  BY <1>3, <1>4, <1>5 DEF TakeClient

LEMMA ReturnInv == ASSUME IInv, NEW r \in Requests, Return(r) PROVE IInv'
<1>1. req \in [Requests -> Request]
  BY OfRequest
<1>2. /\ req[r].at = "call" /\ req[r].served
      /\ UNCHANGED <<grpcVars, fileVars>>
      /\ req' = [req EXCEPT ![r].at = AfterCall(r), ![r].ok = TRUE]
  BY DEF Return
<1>3. req' = [req EXCEPT ![r] = Returned(req[r], TRUE)]
  BY <1>1, <1>2 DEF AfterCall, Returned, Onwards
<1>4. QED
  BY <1>2, <1>3, ReturnedInv

LEMMA FailInv == ASSUME IInv, NEW r \in Requests, Fail(r) PROVE IInv'
<1>1. /\ req \in [Requests -> Request]
      /\ req[r] \in Request /\ Sound(req[r])
  BY OfRequest
<1>2. /\ req[r].at = "call"
      /\ UNCHANGED <<grpcVars, fileVars>>
      /\ req' = [req EXCEPT ![r].at = AfterCall(r)]
  BY DEF Fail
<1>3. req' = [req EXCEPT ![r] = [req[r] EXCEPT !.at = Onwards(req[r])]]
  BY <1>1, <1>2 DEF AfterCall, Onwards
<1>4. /\ [req[r] EXCEPT !.at = Onwards(req[r])]
           = Returned(req[r], req[r].ok)
      /\ req[r].ok \in BOOLEAN /\ (req[r].ok => req[r].served)
  BY <1>1, <1>2, AfterError
<1>5. QED
  BY <1>2, <1>3, <1>4, ReturnedInv

(* Serve: the password changes only for a changepass, which is then still  *)
(* to remove the file, or has dealt with it.                               *)
LEMMA ServeInv == ASSUME IInv, NEW r \in Requests, Serve(r) PROVE IInv'
<1> DEFINE p == Carried(req[r])
<1>1. /\ req[r] \in Request /\ Sound(req[r])
      /\ req \in [Requests -> Request]
      /\ TypeOK /\ RequestsSound /\ FileSettled /\ DefaultFileIsTrue
  BY OfRequest
<1>2. /\ req[r].client # NoConn
      /\ password' = IF req[r].kind = "changepass" THEN "chosen" ELSE password
      /\ UNCHANGED <<grpcVars, defaultFile, removeFailed>>
      /\ req' = [req EXCEPT ![r].served = TRUE]
  BY DEF Serve
<1>3. req' = [req EXCEPT ![r] = p]
  BY <1>1, <1>2 DEF Carried
<1>4. /\ p \in Request /\ Sound(p) /\ p.kind = req[r].kind
      /\ p.at = req[r].at /\ p.at \notin {"idle", "client"}
  BY <1>1, <1>2, AfterServe
<1> HIDE DEF p
<1>5. /\ req' \in [Requests -> Request]
      /\ req'[r] = p
      /\ \A s \in Requests \ {r} : req'[s] = req[s]
      /\ RequestsSound'
  BY <1>1, <1>3, <1>4, OneRequest
<1>6. GrpcProofs!IInv'
  BY <1>2, ConnectionsNext DEF IInv
<1>7. TypeOK'
  BY <1>1, <1>2, <1>5, <1>6, TypedAgain DEF TypeOK
<1>8. /\ \A s \in Requests : PastRemoval(req'[s]) => PastRemoval(req[s])
      /\ \A s \in Requests : Removing(req[s]) => Removing(req'[s])
  BY <1>4, <1>5 DEF PastRemoval, Removing
<1>9. \/ UNCHANGED password
      \/ Removing(req'[r]) \/ PastRemoval(req[r])
  BY <1>2, <1>4, <1>5 DEF Removing, PastRemoval, Request, Places
<1>10. FileSettled' /\ DefaultFileIsTrue'
  BY <1>1, <1>2, <1>8, <1>9, FileKept
<1>11. QED
  BY <1>5, <1>6, <1>7, <1>10 DEF IInv

(* RemoveFile: the file is gone, or its removal failed while it was there, *)
(* or it was not there to begin with.                                      *)
LEMMA RemoveFileInv ==
    ASSUME IInv, NEW r \in Requests, RemoveFile(r)
    PROVE  IInv'
<1>1. /\ req[r] \in Request /\ Sound(req[r])
      /\ req \in [Requests -> Request]
      /\ TypeOK /\ RequestsSound /\ FileSettled /\ DefaultFileIsTrue
  BY OfRequest
<1>2. req[r].at = "remove" /\ UNCHANGED <<grpcVars, password>>
  BY DEF RemoveFile
<1>3. req[r].kind = "changepass"
  BY <1>1, <1>2 DEF Sound, Handled
<1>4. PICK p \in Request :
        /\ req' = [req EXCEPT ![r] = p]
        /\ Sound(p) /\ p.kind = req[r].kind /\ p.at = "answer"
        /\ \/ defaultFile /\ defaultFile' = FALSE /\ UNCHANGED removeFailed
           \/ /\ removeFailed' = (removeFailed \/ defaultFile)
              /\ UNCHANGED defaultFile
  <2>1. CASE /\ defaultFile
             /\ defaultFile' = FALSE
             /\ req' = [req EXCEPT ![r].at = "answer", ![r].removed = TRUE]
             /\ UNCHANGED removeFailed
    <3>1. req' = [req EXCEPT ![r] = Unlinked(req[r])]
      BY <1>1, <2>1 DEF Unlinked
    <3>2. /\ Unlinked(req[r]) \in Request /\ Sound(Unlinked(req[r]))
          /\ Unlinked(req[r]).kind = req[r].kind
          /\ Unlinked(req[r]).at = "answer"
      BY <1>1, <1>2, AfterRemoval
    <3>3. QED
      BY <2>1, <3>1, <3>2
  <2>2. CASE /\ Writes(r, 500, "answer")
             /\ removeFailed' = (removeFailed \/ defaultFile)
             /\ UNCHANGED defaultFile
    <3> DEFINE p == WithBody(req[r], 500, "answer")
    <3>1. req' = [req EXCEPT ![r] = p]
      BY <1>1, <2>2 DEF Writes, WithBody
    <3>2. p \in Request /\ Sound(p) /\ p.kind = req[r].kind /\ p.at = "answer"
      BY <1>1, <1>2, <1>3, AfterFailedRemoval
    <3>3. QED
      BY <2>2, <3>1, <3>2
  <2>3. QED
    BY <2>1, <2>2 DEF RemoveFile
<1>5. /\ req' \in [Requests -> Request]
      /\ req'[r] = p
      /\ \A s \in Requests \ {r} : req'[s] = req[s]
      /\ RequestsSound'
  BY <1>1, <1>4, OneRequest
<1>6. GrpcProofs!IInv'
  BY <1>2, ConnectionsNext DEF IInv
<1>7. defaultFile' \in BOOLEAN /\ removeFailed' \in BOOLEAN
  BY <1>1, <1>4 DEF TypeOK
<1>8. TypeOK'
  BY <1>1, <1>2, <1>5, <1>6, <1>7, TypedAgain DEF TypeOK
<1>9. ~defaultFile' \/ removeFailed'
  BY <1>1, <1>4 DEF TypeOK
<1>10. FileSettled' /\ DefaultFileIsTrue'
  BY <1>9 DEF FileSettled, DefaultFileIsTrue
<1>11. QED
  BY <1>5, <1>6, <1>8, <1>10 DEF IInv

LEMMA AnswerInv == ASSUME IInv, NEW r \in Requests, Answer(r) PROVE IInv'
<1>1. /\ req[r] \in Request /\ Sound(req[r])
      /\ req \in [Requests -> Request]
  BY OfRequest
<1>2. PICK code \in {200, 500} : /\ code = 200 => req[r].ok
                                 /\ Writes(r, code, "done")
  BY DEF Answer
<1>3. req[r].at = "answer" /\ UNCHANGED <<grpcVars, fileVars>>
  BY DEF Answer
<1> DEFINE p == WithBody(req[r], code, "done")
<1>4. req' = [req EXCEPT ![r] = p]
  BY <1>1, <1>2 DEF Writes, WithBody
<1>5. p \in Request /\ Sound(p) /\ p.kind = req[r].kind /\ p.at = "done"
  BY <1>1, <1>2, <1>3, AfterAnswer
<1> HIDE DEF p
<1>6. /\ PastRemoval(p) => PastRemoval(req[r])
      /\ Removing(req[r]) => Removing(p)
  BY <1>3, <1>5 DEF PastRemoval, Removing
<1>7. QED
  BY <1>3, <1>4, <1>5, <1>6, HandlerStep

(* A step of the connections, or of nothing, leaves the requests alone.    *)
LEMMA ConnectionsInv ==
    ASSUME IInv, [Grpc!Next]_grpcVars, UNCHANGED <<req, fileVars>>
    PROVE  IInv'
<1>1. GrpcProofs!IInv'
  BY ConnectionsNext DEF IInv
<1>2. req' \in [Requests -> Request]
  BY DEF IInv, TypeOK, Request, Places
<1>3. TypeOK'
  BY <1>1, <1>2, TypedAgain DEF IInv, TypeOK, fileVars
<1>4. RequestsSound' /\ FileSettled' /\ DefaultFileIsTrue'
  BY DEF IInv, fileVars, RequestsSound, FileSettled, DefaultFileIsTrue
<1>5. QED
  BY <1>1, <1>3, <1>4 DEF IInv

-----------------------------------------------------------------------------
(* Every step keeps the invariant.                                         *)

LEMMA NextInv == IInv /\ [Next]_vars => IInv'
<1> SUFFICES ASSUME IInv, [Next]_vars PROVE IInv'
  OBVIOUS
<1>1. CASE Connections
  BY <1>1, ConnectionsInv DEF Connections
<1>2. ASSUME NEW r \in Requests, Handler(r) PROVE IInv'
  BY <1>2, TakeClientInv, ReturnInv, FailInv, RemoveFileInv, AnswerInv
     DEF Handler
<1>3. ASSUME NEW r \in Requests, Serve(r) PROVE IInv'
  BY <1>3, ServeInv
<1>4. ASSUME NEW r \in Requests, NEW k \in Conns, NEW kind \in Kinds,
             Receive(r, kind, k)
      PROVE  IInv'
  BY <1>4, ReceiveInv
<1>5. CASE UNCHANGED vars
  BY <1>5, ConnectionsInv DEF vars
<1>6. QED
  BY <1>1, <1>2, <1>3, <1>4, <1>5 DEF Next

(* The invariant of the requests, of the file and of the connections that  *)
(* the requests use.                                                       *)
THEOREM Invariance == Spec => []IInv
<1>1. Init => IInv
  BY InitInv
<1>2. IInv /\ [Next]_vars => IInv'
  BY NextInv
<1>3. QED
  BY <1>1, <1>2, PTL DEF Spec

(* A client of a connection is what a request takes and keeps, and nothing *)
(* writes more bodies or other codes than there are answers for.           *)
THEOREM TypeCorrect == Spec => []TypeOK
<1>1. IInv => TypeOK
  BY DEF IInv
<1>2. QED
  BY <1>1, Invariance, PTL

(* A 200 is never told to a client for whom the server did nothing, nor a  *)
(* 400 to one whose request was well-formed, whatever the connection, the  *)
(* server and the other requests do meanwhile.                             *)
THEOREM OutcomesAreTold == Spec => []OutcomeTold
<1>1. IInv => OutcomeTold
  BY DEF IInv, RequestsSound, Sound, Handled, Told, OutcomeTold
<1>2. QED
  BY <1>1, Invariance, PTL

(* As long as no removal fails, .default-password is never left behind by  *)
(* a changepass that xud carried out, even by one the proxy gave up.       *)
THEOREM DefaultFileTells == Spec => []DefaultFileIsTrue
<1>1. IInv => DefaultFileIsTrue
  BY DEF IInv
<1>2. QED
  BY <1>1, Invariance, PTL

(* The requests do not interfere with the connections: what GrpcConn       *)
(* promises of them alone holds under any load, GetClient included.        *)
THEOREM RequestsDoNotInterfere == Spec => Grpc!Spec /\ []Grpc!ClientIsUp
<1>1. Init => Grpc!Init
  BY DEF Init
<1>2. [Next]_vars => [Grpc!Next]_(Grpc!vars)
  BY DEF Next, Connections, Handler, TakeClient, Return, Fail, RemoveFile,
         Answer, Serve, Receive, vars, grpcVars, Grpc!vars
<1>3. IInv => Grpc!ClientIsUp
  BY DEF IInv, GrpcProofs!IInv, GrpcProofs!ClientIsUp, Grpc!ClientIsUp
<1>4. QED
  BY <1>1, <1>2, <1>3, Invariance, PTL DEF Spec, Grpc!Spec

=============================================================================
