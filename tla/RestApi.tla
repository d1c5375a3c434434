------------------------------ MODULE RestApi ------------------------------
(***************************************************************************)
(* The REST handlers of service/xud/api.go, service/boltz/api.go and       *)
(* service/lnd/api.go, with the clients of the rpc.go beside each of them, *)
(* on top of the gRPC connections of module GrpcConn.  A request takes the *)
(* client of a connection, makes one call with a deadline, and answers     *)
(* what came of it with HandleProtobufResponse.                            *)
(*                                                                         *)
(* The connection may be closed or opened between any two of these steps,  *)
(* and the server may carry out a call whose caller has given up.          *)
(*                                                                         *)
(* Handlers differ in their control only:                                  *)
(*   "plain"       xud get... and list..., service-info, lnd getinfo       *)
(*   "checked"     tradehistory, deposit, withdraw: a parameter that does  *)
(*                 not parse is answered 400, and that is all              *)
(*   "bound"       create, restore, unlock, listorders, orderbook,         *)
(*                 placeorder, removeorder: a body that does not bind is   *)
(*                 answered 400, and then the handler goes on              *)
(*   "changepass"  like "bound", and it removes .default-password after    *)
(*                 the call                                                *)
(***************************************************************************)
EXTENDS Naturals, Sequences

CONSTANTS
    Requests,                                     \* requests, one handler each
    Boltz,                                        \* the connections of boltz
    Conns, CloseOrder, Updates, Start, NoConn     \* see GrpcConn

VARIABLES
    reachable, opener, conn, client, up, closer, before, withdrawn, overlapped,
    req,              \* req[r]: the handler of request r
    defaultFile,      \* there is a file /root/network/.default-password
    password,         \* the password of xud: "default" or "chosen"
    removeFailed      \* auxiliary: an os.Remove of the file failed

grpcVars == <<reachable, opener, conn, client, up, closer, before, withdrawn,
              overlapped>>
fileVars == <<defaultFile, password, removeFailed>>
vars == <<grpcVars, req, fileVars>>

Grpc == INSTANCE GrpcConn

ASSUME RestAssumption == Boltz \subseteq Conns /\ Grpc!GrpcAssumption

Kinds == {"plain", "checked", "bound", "changepass"}

\* Which handlers a connection has.  (lnd has a plain one, like xud.)
KindsOf(k) == IF k \in Boltz THEN {"plain", "checked"} ELSE Kinds

\* status: the code of the first answer; bodies: how many were written.
NoRequest == [at |-> "idle", kind |-> "plain", conn |-> NoConn, bad |-> FALSE,
              client |-> NoConn, served |-> FALSE, ok |-> FALSE,
              removed |-> FALSE, status |-> 0, bodies |-> 0]

Init ==
    /\ Grpc!Init
    /\ req = [r \in Requests |-> NoRequest]
    /\ defaultFile \in BOOLEAN
    /\ password = IF defaultFile THEN "default" ELSE "chosen"
    /\ removeFailed = FALSE

-----------------------------------------------------------------------------
(* JsonError and Marshal write to the response: the code of the first body *)
(* counts, the others are appended to it.                                  *)
Writes(r, code, at) ==
    LET q == req[r]
    IN req' = [req EXCEPT ![r] =
                 [q EXCEPT !.status = IF q.status = 0 THEN code ELSE q.status,
                           !.bodies = q.bodies + 1,
                           !.at = at]]

\* A request comes in, and its parameters are looked at.
Receive(r, kind, k) ==
    /\ req[r].at = "idle"
    /\ kind \in KindsOf(k)
    /\ \E bad \in {FALSE, kind # "plain"} :
         req' = [req EXCEPT ![r] =
                  [NoRequest EXCEPT
                     !.kind = kind, !.conn = k, !.bad = bad,
                     !.at = IF bad /\ kind = "checked" THEN "done" ELSE "client",
                     !.status = IF bad THEN 400 ELSE 0,
                     !.bodies = IF bad THEN 1 ELSE 0]]
    /\ UNCHANGED <<grpcVars, fileVars>>

\* Where a handler goes after its call.
AfterCall(r) == IF req[r].kind = "changepass" THEN "remove" ELSE "answer"

(* getClient: GetClient may return nil.  xud and lnd make an error of it.  *)
(* boltz panics on the type assertion before it can (as it does on an      *)
(* unknown currency, whatever the client); gin.Recovery answers 500.       *)
TakeClient(r) ==
    LET k == req[r].conn
    IN /\ req[r].at = "client"
       /\ \/ /\ client[k] # NoConn
             /\ req' = [req EXCEPT ![r].at = "call", ![r].client = client[k]]
          \/ /\ client[k] = NoConn
             /\ k \notin Boltz
             /\ req' = [req EXCEPT ![r].at = AfterCall(r)]
          \/ /\ k \in Boltz
             /\ req' = [req EXCEPT ![r].at = "done", ![r].status = 500]
       /\ UNCHANGED <<grpcVars, fileVars>>

(* The server carries out the call, which reached it over the connection   *)
(* of the client that was taken - perhaps after the caller gave up (told   *)
(* apart only where it leaves a trace, that is, in the password).  A call  *)
(* that is refused is one that is not carried out and fails.               *)
Serve(r) ==
    LET k == req[r].conn
    IN /\ req[r].client # NoConn
       /\ ~req[r].served
       /\ reachable[k]
       /\ \/ req[r].at = "call" /\ req[r].client \in up[k]
          \/ req[r].at # "call" /\ req[r].kind = "changepass"
       /\ req' = [req EXCEPT ![r].served = TRUE]
       /\ password' = IF req[r].kind = "changepass" THEN "chosen" ELSE password
       /\ UNCHANGED <<grpcVars, defaultFile, removeFailed>>

\* The response of the server arrives in time.
Return(r) ==
    /\ req[r].at = "call"
    /\ req[r].served
    /\ req[r].client \in up[req[r].conn]
    /\ req' = [req EXCEPT ![r].at = AfterCall(r), ![r].ok = TRUE]
    /\ UNCHANGED <<grpcVars, fileVars>>

\* The call fails: refused, its connection closed or broken, the deadline over.
Fail(r) ==
    /\ req[r].at = "call"
    /\ req' = [req EXCEPT ![r].at = AfterCall(r)]
    /\ UNCHANGED <<grpcVars, fileVars>>

\* Mutant of RemoveFile: an error of the call is answered first.
RemoveFileAfterSuccess(r) ==
    /\ req[r].at = "remove"
    /\ IF req[r].ok
       THEN /\ defaultFile' = FALSE
            /\ req' = [req EXCEPT ![r].at = "answer", ![r].removed = TRUE]
       ELSE /\ Writes(r, 500, "done")
            /\ UNCHANGED defaultFile
    /\ UNCHANGED <<grpcVars, password, removeFailed>>

\* Mutant of RemoveFile: the removal is tried until it succeeds.
RemoveFileAgain(r) ==
    /\ req[r].at = "remove"
    /\ \/ /\ defaultFile
          /\ defaultFile' = FALSE
          /\ req' = [req EXCEPT ![r].at = "answer", ![r].removed = TRUE]
          /\ UNCHANGED removeFailed
       \/ /\ Writes(r, 500, "remove")
          /\ removeFailed' = (removeFailed \/ defaultFile)
          /\ UNCHANGED defaultFile
    /\ UNCHANGED <<grpcVars, password>>

(* changepass: os.Remove, whether or not the call went well, and its error *)
(* takes the place of the error of the call.  A file that is not there     *)
(* cannot be removed either.                                               *)
RemoveFile(r) ==
    /\ req[r].at = "remove"
    /\ \/ /\ defaultFile
          /\ defaultFile' = FALSE
          /\ req' = [req EXCEPT ![r].at = "answer", ![r].removed = TRUE]
          /\ UNCHANGED removeFailed
       \/ /\ Writes(r, 500, "answer")
          /\ removeFailed' = (removeFailed \/ defaultFile)
          /\ UNCHANGED defaultFile
    /\ UNCHANGED <<grpcVars, password>>

\* The error that HandleProtobufResponse is given is nil.
NoError(r) == IF req[r].kind = "changepass" THEN req[r].removed ELSE req[r].ok

\* Mutant of Answer: a nil response is marshalled as an empty one.
AnswerEmpty(r) ==
    /\ req[r].at = "answer"
    /\ Writes(r, IF NoError(r) THEN 200 ELSE 500, "done")
    /\ UNCHANGED <<grpcVars, fileVars>>

\* HandleProtobufResponse.  Marshal fails on the nil response of a call that
\* failed, and it is the only thing to notice that after a removal.
Answer(r) ==
    /\ req[r].at = "answer"
    /\ Writes(r, IF NoError(r) /\ req[r].ok THEN 200 ELSE 500, "done")
    /\ UNCHANGED <<grpcVars, fileVars>>

-----------------------------------------------------------------------------
Connections == Grpc!Next /\ UNCHANGED <<req, fileVars>>

Handler(r) ==
    \/ TakeClient(r) \/ Return(r) \/ Fail(r) \/ RemoveFile(r) \/ Answer(r)

Next ==
    \/ Connections
    \/ \E r \in Requests :
         \/ Handler(r)
         \/ Serve(r)
         \/ \E k \in Conns, kind \in Kinds : Receive(r, kind, k)

Spec == Init /\ [][Next]_vars

-----------------------------------------------------------------------------
TypeOK ==
    /\ Grpc!TypeOK
    /\ req \in [Requests ->
                 [at : {"idle", "client", "call", "remove", "answer", "done"},
                  kind : Kinds, conn : Conns \cup {NoConn}, bad : BOOLEAN,
                  client : Grpc!Opens \cup {NoConn},
                  served : BOOLEAN, ok : BOOLEAN,
                  removed : BOOLEAN, status : {0, 200, 400, 500}, bodies : 0..3]]
    /\ defaultFile \in BOOLEAN
    /\ password \in {"default", "chosen"}
    /\ removeFailed \in BOOLEAN

(* What a client is told.  A 200 means that the server did what was asked, *)
(* and a 400 that the request was malformed; the server did nothing then,  *)
(* unless the handler is one that goes on.  There is one body, except that *)
(* a handler that goes on adds one, and changepass adds one when it could  *)
(* not remove the file.                                                    *)
OutcomeTold ==
    \A r \in Requests : req[r].at = "done" =>
        /\ req[r].status = 200 => req[r].served /\ ~req[r].bad
        /\ req[r].status = 400 <=> req[r].bad
        /\ req[r].bad /\ req[r].kind = "checked" => ~req[r].served
        /\ req[r].bodies > 1 => req[r].bad \/ req[r].kind = "changepass"
        /\ req[r].bodies = 0 => req[r].conn \in Boltz

(* The file .default-password stands for the default password: while it is *)
(* there and no removal has failed, the password has not been changed, or  *)
(* the request that changed it is yet to remove the file.  That the file   *)
(* goes even after a call that failed is what makes this hold, for xud may *)
(* carry out a call that the proxy has given up.                           *)
DefaultFileIsTrue ==
    defaultFile /\ ~removeFailed /\ password = "chosen" =>
        \E r \in Requests : /\ req[r].kind = "changepass"
                            /\ req[r].at \in {"call", "remove"}
=============================================================================
