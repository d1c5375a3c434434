--------------------------- MODULE GrpcConnProofs ---------------------------
(***************************************************************************)
(* Proofs about GrpcConn, for every set of connections and of calls of     *)
(* Update and every order in which manager.Close closes the connections.   *)
(***************************************************************************)
EXTENDS GrpcConn, TLAPS

States == {"idle", "close", "dial", "store", "sleep", "done", "failed"}

LEMMA StartIsAnOpen == Start \in Opens /\ Start \notin Updates /\ NoConn \notin Opens
BY GrpcAssumption DEF Opens

(* CloseOrder lists non-empty sequences of connections.                    *)
LEMMA Order ==
    /\ CloseOrder \in Seq(Seq(Conns))
    /\ \A i \in DOMAIN CloseOrder :
         /\ CloseOrder[i] \in Seq(Conns)
         /\ DOMAIN CloseOrder[i] = 1..Len(CloseOrder[i])
         /\ Len(CloseOrder[i]) \in Nat \ {0}
    /\ DOMAIN CloseOrder = 1..Len(CloseOrder)
    /\ Len(CloseOrder) \in Nat
<1>1. CloseOrder \in Seq(Seq(Conns) \ {<<>>})
  BY GrpcAssumption
<1>2. \A i \in DOMAIN CloseOrder : CloseOrder[i] \in Seq(Conns) \ {<<>>}
  BY <1>1
<1>3. \A s \in Seq(Conns) \ {<<>>} : /\ DOMAIN s = 1..Len(s)
                                     /\ Len(s) \in Nat \ {0}
  OBVIOUS
<1>4. QED
  BY <1>1, <1>2, <1>3

LEMMA InitInv == Init => IInv
<1> SUFFICES ASSUME Init PROVE IInv
  OBVIOUS
<1>1. /\ \A k \in Conns : /\ conn[k] = NoConn /\ client[k] = NoConn
                          /\ up[k] = {}
                          /\ \A u \in Opens : opener[k][u] =
                               IF u = Start THEN "dial" ELSE "idle"
      /\ closer = [service |-> 0, next |-> 1]
  BY DEF Init
<1>2. TypeOK
  BY DEF Init, TypeOK
<1>3. ClientIsUp /\ NoLeak
  BY <1>1 DEF ClientIsUp, NoLeak
<1>4. OpenersInv
  BY <1>1, StartIsAnOpen DEF OpenersInv
<1>5. OneAtATime
  BY <1>1 DEF OneAtATime, Active
<1>6. CloserInv
  BY <1>1, Order DEF CloserInv
<1>7. QED
  BY <1>2, <1>3, <1>4, <1>5, <1>6 DEF IInv

(* A Close finds what it closes open, so it does not fail, and the         *)
(* connection it leaves behind is nil.                                     *)
LEMMA Closes ==
    ASSUME TypeOK, ClientIsUp, NEW k \in Conns, Close(k)
    PROVE  /\ ~Fails(k)
           /\ conn' \in [Conns -> Opens \cup {NoConn}]
           /\ client' \in [Conns -> Opens \cup {NoConn}]
           /\ up' \in [Conns -> SUBSET Opens]
           /\ conn'[k] = NoConn /\ client'[k] = NoConn
           /\ up'[k] = up[k] \ {conn[k]}
           /\ \A m \in Conns \ {k} : /\ conn'[m] = conn[m]
                                     /\ client'[m] = client[m]
                                     /\ up'[m] = up[m]
<1>1. ~Fails(k) /\ client[k] = conn[k]
  BY DEF ClientIsUp, Fails
<1>2. CASE conn[k] = NoConn
  <2>1. UNCHANGED <<conn, client, up>>
    BY <1>2 DEF Close
  <2>2. up[k] \ {NoConn} = up[k]
    BY StartIsAnOpen DEF TypeOK
  <2>3. QED
    BY <1>1, <1>2, <2>1, <2>2 DEF TypeOK
<1>3. CASE conn[k] # NoConn
  <2>1. /\ up' = [up EXCEPT ![k] = @ \ {conn[k]}]
        /\ conn' = [conn EXCEPT ![k] = NoConn]
        /\ client' = [client EXCEPT ![k] = NoConn]
    BY <1>1, <1>3 DEF Close
  <2>2. up[k] \ {conn[k]} \in SUBSET Opens
    BY DEF TypeOK
  <2>3. QED
    BY <1>1, <2>1, <2>2 DEF TypeOK
<1>4. QED
  BY <1>2, <1>3

(* What an action that moves one Open does to opener.                      *)
LEMMA Moves ==
    ASSUME TypeOK, NEW k \in Conns, NEW u \in Opens, NEW at \in States,
           OpenerAt(k, u, at)
    PROVE  /\ opener' \in [Conns -> [Opens -> States]]
           /\ opener'[k][u] = at
           /\ \A m \in Conns, v \in Opens :
                m # k \/ v # u => opener'[m][v] = opener[m][v]
BY DEF TypeOK, OpenerAt, States

(* What manager.Close relies on is kept by every action of the others: an  *)
(* Open that is over stays so and does not dial again.                     *)
LEMMA CloserKept ==
    ASSUME TypeOK, CloserInv, TypeOK',
           UNCHANGED <<closer, before>>,
           overlapped \subseteq overlapped',
           \A m \in Conns, v \in Opens :
              opener[m][v] = "done" => /\ opener'[m][v] = "done"
                                       /\ v \in up'[m] => v \in up[m]
    PROVE  CloserInv'
<1>1. ASSUME NEW m \in Conns, closer.service > 0
      PROVE  /\ before[m] # NoConn => opener'[m][before[m]] = "done"
             /\ m \notin overlapped' /\ before[m] \in up'[m] => ToClose(m)'
  <2>1. before[m] # NoConn => before[m] \in Opens /\ opener[m][before[m]] = "done"
    BY <1>1 DEF TypeOK, CloserInv
  <2>2. before[m] \in up'[m] => before[m] # NoConn
    BY StartIsAnOpen DEF TypeOK
  <2>3. m \notin overlapped' /\ before[m] \in up'[m] => ToClose(m)
    BY <1>1, <2>1, <2>2 DEF CloserInv
  <2>4. ToClose(m)' <=> ToClose(m)
    BY DEF ToClose
  <2>5. QED
    BY <2>1, <2>3, <2>4
<1>2. QED
  BY <1>1 DEF CloserInv

-----------------------------------------------------------------------------
(* The actions of Open and Update.                                         *)

LEMMA DialInv ==
    ASSUME IInv, NEW k \in Conns, NEW u \in Opens, Dial(k, u)
    PROVE  IInv'
<1> USE DEF IInv
<1>1. PICK at \in {"store", "sleep"} :
        /\ OpenerAt(k, u, at)
        /\ at = "store" => up' = [up EXCEPT ![k] = @ \cup {u}]
        /\ at = "sleep" => up' = up
  BY DEF Dial
<1>2. /\ opener' \in [Conns -> [Opens -> States]]
      /\ opener'[k][u] = at
      /\ \A m \in Conns, v \in Opens :
           m # k \/ v # u => opener'[m][v] = opener[m][v]
  BY <1>1, Moves DEF States
<1>3. /\ up' \in [Conns -> SUBSET Opens]
      /\ up'[k] = IF at = "store" THEN up[k] \cup {u} ELSE up[k]
      /\ \A m \in Conns \ {k} : up'[m] = up[m]
  <2>1. up[k] \cup {u} \in SUBSET Opens /\ up \in [Conns -> SUBSET Opens]
    BY DEF TypeOK
  <2>2. QED
    BY <1>1, <2>1
<1>4. /\ UNCHANGED <<reachable, conn, client, closer, before, withdrawn,
                     overlapped>>
      /\ opener[k][u] = "dial"
  BY DEF Dial
<1>5. TypeOK'
  BY <1>2, <1>3, <1>4 DEF TypeOK, States
<1>6. ClientIsUp'
  BY <1>3, <1>4 DEF ClientIsUp
<1>7. NoLeak'
  BY <1>2, <1>3, <1>4 DEF NoLeak
<1>8. OpenersInv'
  BY <1>2, <1>3, <1>4 DEF OpenersInv
<1>9. OneAtATime'
  BY <1>2, <1>4 DEF OneAtATime, Active
<1>10. CloserInv'
  BY <1>2, <1>3, <1>4, <1>5, CloserKept
<1>11. QED
  BY <1>5, <1>6, <1>7, <1>8, <1>9, <1>10

LEMMA StoreInv ==
    ASSUME IInv, NEW k \in Conns, NEW u \in Opens, Store(k, u)
    PROVE  IInv'
<1> USE DEF IInv
<1>1. /\ opener' \in [Conns -> [Opens -> States]]
      /\ opener'[k][u] = "done"
      /\ \A m \in Conns, v \in Opens :
           m # k \/ v # u => opener'[m][v] = opener[m][v]
  BY Moves DEF Store, States
<1>2. /\ conn' \in [Conns -> Opens \cup {NoConn}]
      /\ client' \in [Conns -> Opens \cup {NoConn}]
      /\ conn'[k] = u /\ client'[k] = u
      /\ \A m \in Conns \ {k} : conn'[m] = conn[m] /\ client'[m] = client[m]
  BY DEF Store, TypeOK
<1>3. /\ UNCHANGED <<reachable, up, closer, before, withdrawn, overlapped>>
      /\ opener[k][u] = "store" /\ u \in up[k]
  BY DEF Store, OpenersInv
<1>4. TypeOK'
  BY <1>1, <1>2, <1>3 DEF TypeOK, States
<1>5. ClientIsUp'
  BY <1>2, <1>3 DEF ClientIsUp
<1>6. NoLeak'
  <2>1. ASSUME k \notin overlapped, NEW v \in up[k], v # u
        PROVE  FALSE
    <3>1. conn[k] = NoConn /\ opener[k][v] \in {"store", "done"} /\ v \in Opens
      BY <1>3, <2>1 DEF OneAtATime, Active, OpenersInv, TypeOK
    <3>2. opener[k][v] # "store"
      BY <1>3, <2>1, <3>1 DEF OneAtATime, Active
    <3>3. QED
      BY <2>1, <3>1, <3>2, StartIsAnOpen DEF NoLeak
  <2>2. ASSUME NEW m \in Conns \ overlapped, m # k, NEW v \in up[m]
        PROVE  conn'[m] = v \/ opener'[m][v] = "store"
    BY <1>1, <1>2, <2>2 DEF NoLeak, TypeOK
  <2>3. QED
    BY <1>2, <1>3, <2>1, <2>2 DEF NoLeak
<1>7. OpenersInv'
  BY <1>1, <1>2, <1>3 DEF OpenersInv
<1>8. OneAtATime'
  BY <1>1, <1>2, <1>3 DEF OneAtATime, Active
<1>9. CloserInv'
  BY <1>1, <1>3, <1>4, CloserKept
<1>10. QED
  BY <1>4, <1>5, <1>6, <1>7, <1>8, <1>9

LEMMA RetryInv ==
    ASSUME IInv, NEW k \in Conns, NEW u \in Opens, Retry(k, u)
    PROVE  IInv'
<1> USE DEF IInv
<1>1. /\ opener' \in [Conns -> [Opens -> States]]
      /\ opener'[k][u] = "dial"
      /\ \A m \in Conns, v \in Opens :
           m # k \/ v # u => opener'[m][v] = opener[m][v]
  BY Moves DEF Retry, States
<1>2. /\ UNCHANGED <<reachable, conn, client, up, closer, before, withdrawn,
                     overlapped>>
      /\ opener[k][u] = "sleep"
  BY DEF Retry
<1>3. TypeOK'
  BY <1>1, <1>2 DEF TypeOK, States
<1>4. ClientIsUp' /\ NoLeak'
  BY <1>1, <1>2 DEF ClientIsUp, NoLeak, TypeOK
<1>5. OpenersInv'
  BY <1>1, <1>2 DEF OpenersInv
<1>6. OneAtATime'
  BY <1>1, <1>2 DEF OneAtATime, Active
<1>7. CloserInv'
  BY <1>1, <1>2, <1>3, CloserKept
<1>8. QED
  BY <1>3, <1>4, <1>5, <1>6, <1>7

LEMMA UpdateInv ==
    ASSUME IInv, NEW k \in Conns, NEW u \in Opens, Update(k, u)
    PROVE  IInv'
<1> USE DEF IInv
<1>1. /\ opener' \in [Conns -> [Opens -> States]]
      /\ opener'[k][u] = "close"
      /\ \A m \in Conns, v \in Opens :
           m # k \/ v # u => opener'[m][v] = opener[m][v]
  BY Moves DEF Update, States
<1>2. /\ UNCHANGED <<reachable, conn, client, up, closer, before, withdrawn>>
      /\ opener[k][u] = "idle"
      /\ overlapped \subseteq overlapped' /\ overlapped' \subseteq Conns
      /\ k \notin overlapped' => \A v \in Opens : opener[k][v] \notin Active
  BY DEF Update, TypeOK
<1>3. TypeOK'
  BY <1>1, <1>2 DEF TypeOK, States
<1>4. ClientIsUp' /\ NoLeak'
  <2>1. ClientIsUp'
    BY <1>2 DEF ClientIsUp
  <2>2. SUFFICES ASSUME NEW m \in Conns \ overlapped', NEW v \in up[m]
                 PROVE  conn[m] = v \/ opener'[m][v] = "store"
    BY <1>2, <2>1 DEF NoLeak
  <2>3. v \in Opens /\ (conn[m] = v \/ opener[m][v] = "store")
    BY <1>2 DEF NoLeak, TypeOK
  <2>4. QED
    BY <1>1, <1>2, <2>3
<1>5. OpenersInv'
  BY <1>1, <1>2 DEF OpenersInv
<1>6. OneAtATime'
  <2>1. ASSUME k \notin overlapped', NEW v \in Opens, opener'[k][v] \in Active
        PROVE  v = u
    BY <1>1, <1>2, <2>1
  <2>2. QED
    BY <1>1, <1>2, <2>1 DEF OneAtATime, Active
<1>7. CloserInv'
  BY <1>1, <1>2, <1>3, CloserKept
<1>8. QED
  BY <1>3, <1>4, <1>5, <1>6, <1>7

LEMMA ReopenInv ==
    ASSUME IInv, NEW k \in Conns, NEW u \in Opens, Reopen(k, u)
    PROVE  IInv'
<1> USE DEF IInv
<1>1. /\ ~Fails(k)
      /\ conn' \in [Conns -> Opens \cup {NoConn}]
      /\ client' \in [Conns -> Opens \cup {NoConn}]
      /\ up' \in [Conns -> SUBSET Opens]
      /\ conn'[k] = NoConn /\ client'[k] = NoConn
      /\ up'[k] = up[k] \ {conn[k]}
      /\ \A m \in Conns \ {k} : /\ conn'[m] = conn[m]
                                /\ client'[m] = client[m]
                                /\ up'[m] = up[m]
  BY Closes DEF Reopen
<1>2. OpenerAt(k, u, "dial")
  BY <1>1 DEF Reopen
<1>3. /\ opener' \in [Conns -> [Opens -> States]]
      /\ opener'[k][u] = "dial"
      /\ \A m \in Conns, v \in Opens :
           m # k \/ v # u => opener'[m][v] = opener[m][v]
  BY <1>2, Moves DEF States
<1>4. /\ UNCHANGED <<reachable, closer, before, withdrawn, overlapped>>
      /\ opener[k][u] = "close"
  BY DEF Reopen
<1>5. TypeOK'
  BY <1>1, <1>3, <1>4 DEF TypeOK, States
<1>6. ClientIsUp'
  BY <1>1, <1>4 DEF ClientIsUp
<1>7. NoLeak'
  <2>1. SUFFICES ASSUME NEW m \in Conns \ overlapped, NEW v \in up'[m]
                 PROVE  conn'[m] = v \/ opener'[m][v] = "store"
    BY <1>4 DEF NoLeak
  <2>2. v \in up[m] /\ v \in Opens
    BY <1>1, <1>3, <1>4 DEF TypeOK
  <2>3. conn[m] = v \/ opener[m][v] = "store"
    BY <2>2 DEF NoLeak
  <2>4. QED
    BY <1>1, <1>3, <1>4, <2>2, <2>3
<1>8. OpenersInv'
  <2>1. SUFFICES ASSUME NEW m \in Conns, NEW v \in Opens
                 PROVE  /\ v \in up'[m] => opener'[m][v] \in {"store", "done"}
                        /\ opener'[m][v] = "store" => v \in up'[m]
                        /\ conn'[m] = v => opener'[m][v] = "done"
    BY DEF OpenersInv
  <2>2. /\ v \in up[m] => opener[m][v] \in {"store", "done"}
        /\ opener[m][v] = "store" => v \in up[m]
        /\ conn[m] = v => opener[m][v] = "done"
    BY DEF OpenersInv
  <2>3. CASE m = k
    BY <1>1, <1>3, <1>4, <2>2, <2>3, StartIsAnOpen
  <2>4. CASE m # k
    BY <1>1, <1>3, <2>2, <2>4
  <2>5. QED
    BY <2>3, <2>4
<1>9. OneAtATime'
  <2>1. SUFFICES ASSUME NEW m \in Conns \ overlapped, NEW v \in Opens,
                        opener'[m][v] \in Active
                 PROVE  /\ \A w \in Opens : opener'[m][w] \in Active => v = w
                        /\ opener'[m][v] \in Active \ {"close"} => conn'[m] = NoConn
    BY <1>4 DEF OneAtATime
  <2>2. \A w \in Opens : /\ opener'[m][w] \in Active <=> opener[m][w] \in Active
                         /\ m # k => opener'[m][w] = opener[m][w]
    BY <1>3, <1>4 DEF Active
  <2>3. \A w \in Opens : opener'[m][w] \in Active => v = w
    BY <2>1, <2>2 DEF OneAtATime
  <2>4. CASE m = k
    BY <1>1, <2>3, <2>4
  <2>5. CASE m # k
    BY <1>1, <2>1, <2>2, <2>3, <2>5 DEF OneAtATime
  <2>6. QED
    BY <2>4, <2>5
<1>10. CloserInv'
  BY <1>1, <1>3, <1>4, <1>5, CloserKept
<1>11. QED
  BY <1>5, <1>6, <1>7, <1>8, <1>9, <1>10

-----------------------------------------------------------------------------
(* manager.Close.                                                          *)

LEMMA BeginCloseInv ==
    ASSUME IInv, BeginClose
    PROVE  IInv'
<1> USE DEF IInv
<1>1. /\ UNCHANGED <<reachable, opener, conn, client, up, withdrawn, overlapped>>
      /\ closer' = [service |-> 1, next |-> 1]
      /\ before' = conn
  BY DEF BeginClose
<1>2. TypeOK'
  BY <1>1 DEF TypeOK
<1>3. ClientIsUp' /\ NoLeak' /\ OpenersInv' /\ OneAtATime'
  BY <1>1 DEF ClientIsUp, NoLeak, OpenersInv, OneAtATime
<1>4. \A k \in Conns : ToClose(k)'
  <2>1. SUFFICES ASSUME NEW k \in Conns PROVE ToClose(k)'
    OBVIOUS
  <2>2. PICK i \in DOMAIN CloseOrder : \E j \in DOMAIN CloseOrder[i] :
                                         CloseOrder[i][j] = k
    BY GrpcAssumption
  <2>3. PICK j \in DOMAIN CloseOrder[i] : CloseOrder[i][j] = k
    BY <2>2
  <2>4. i > 1 \/ (i = 1 /\ j >= 1)
    BY Order
  <2>5. QED
    BY <1>1, <2>3, <2>4 DEF ToClose
<1>5. CloserInv'
  <2>1. ASSUME 1 \in DOMAIN CloseOrder PROVE 1 \in DOMAIN CloseOrder[1]
    <3>1. /\ DOMAIN CloseOrder[1] = 1..Len(CloseOrder[1])
          /\ Len(CloseOrder[1]) \in Nat \ {0}
      BY <2>1, Order
    <3>2. QED
      BY <3>1
  <2>2. \A k \in Conns : conn[k] # NoConn => opener[k][conn[k]] = "done"
    BY DEF OpenersInv, TypeOK
  <2>3. QED
    BY <1>1, <1>4, <2>1, <2>2 DEF CloserInv
<1>6. QED
  BY <1>2, <1>3, <1>5

LEMMA CloseNextInv ==
    ASSUME IInv, CloseNext
    PROVE  IInv'
<1> USE DEF IInv
<1> DEFINE service == CloseOrder[closer.service]
           k       == service[closer.next]
<1>1. /\ closer.service \in DOMAIN CloseOrder
      /\ closer.next \in DOMAIN service
      /\ k \in Conns
  BY Order DEF CloseNext, CloserInv
<1>2. Close(k)
  BY DEF CloseNext
<1> HIDE DEF k
<1>3. /\ ~Fails(k)
      /\ conn' \in [Conns -> Opens \cup {NoConn}]
      /\ client' \in [Conns -> Opens \cup {NoConn}]
      /\ up' \in [Conns -> SUBSET Opens]
      /\ conn'[k] = NoConn /\ client'[k] = NoConn
      /\ up'[k] = up[k] \ {conn[k]}
      /\ \A m \in Conns \ {k} : /\ conn'[m] = conn[m]
                                /\ client'[m] = client[m]
                                /\ up'[m] = up[m]
  BY <1>1, <1>2, Closes
<1>4. /\ UNCHANGED <<reachable, opener, before, overlapped>>
      /\ withdrawn' \subseteq Conns
      /\ closer' = IF closer.next = Len(service)
                   THEN [service |-> closer.service + 1, next |-> 1]
                   ELSE [closer EXCEPT !.next = @ + 1]
  BY <1>1, <1>3 DEF CloseNext, k, TypeOK
<1>5. TypeOK'
  BY <1>3, <1>4 DEF TypeOK
<1>6. ClientIsUp'
  BY <1>3, <1>4 DEF ClientIsUp
<1>7. NoLeak'
  <2>1. SUFFICES ASSUME NEW m \in Conns \ overlapped, NEW v \in up'[m]
                 PROVE  conn'[m] = v \/ opener'[m][v] = "store"
    BY <1>4 DEF NoLeak
  <2>2. v \in up[m] /\ v \in Opens
    BY <1>3, <1>4 DEF TypeOK
  <2>3. conn[m] = v \/ opener[m][v] = "store"
    BY <2>2 DEF NoLeak
  <2>4. QED
    BY <1>3, <1>4, <2>2, <2>3
<1>8. OpenersInv'
  <2>1. ASSUME NEW u \in Opens PROVE opener[k][u] = "store" => u # conn[k]
    BY <1>1, <2>1 DEF OpenersInv
  <2>2. QED
    BY <1>3, <1>4, <2>1, StartIsAnOpen DEF OpenersInv
<1>9. OneAtATime'
  BY <1>3, <1>4 DEF OneAtATime
<1>10. closer'.service \in DOMAIN CloseOrder =>
         closer'.next \in DOMAIN CloseOrder[closer'.service]
  BY <1>1, <1>4, Order DEF TypeOK
<1>11. ASSUME NEW m \in Conns, m # k, ToClose(m)
       PROVE  ToClose(m)'
  <2>1. PICK i \in DOMAIN CloseOrder : \E j \in DOMAIN CloseOrder[i] :
               /\ CloseOrder[i][j] = m
               /\ \/ i > closer.service
                  \/ i = closer.service /\ j >= closer.next
    BY <1>11 DEF ToClose
  <2>2. PICK j \in DOMAIN CloseOrder[i] :
               /\ CloseOrder[i][j] = m
               /\ \/ i > closer.service
                  \/ i = closer.service /\ j >= closer.next
    BY <2>1
  <2>3. i \in Nat /\ j \in Nat /\ i = closer.service => j <= Len(service)
    BY Order
  <2>4. ~(i = closer.service /\ j = closer.next)
    BY <1>11, <2>2 DEF k
  <2>5. \/ i > closer'.service
        \/ i = closer'.service /\ j >= closer'.next
    BY <1>1, <1>4, <2>2, <2>3, <2>4, Order DEF TypeOK
  <2>6. QED
    BY <2>2, <2>5 DEF ToClose
<1>12. closer.service > 0
  BY <1>1, Order
<1>13. ASSUME NEW m \in Conns
       PROVE  /\ before'[m] # NoConn => opener'[m][before'[m]] = "done"
              /\ m \notin overlapped' /\ before'[m] \in up'[m] => ToClose(m)'
  <2>1. before[m] # NoConn => before[m] \in Opens /\ opener[m][before[m]] = "done"
    BY <1>12 DEF CloserInv, TypeOK
  <2>2. before[m] \in up'[m] => before[m] \in up[m] /\ before[m] # NoConn
    BY <1>1, <1>3, StartIsAnOpen DEF TypeOK
  <2>3. m \notin overlapped /\ before[m] \in up'[m] => m # k
    <3>1. SUFFICES ASSUME k \notin overlapped, before[k] \in up'[k], m = k
                   PROVE  FALSE
      OBVIOUS
    <3>2. conn[k] = before[k]
      BY <1>1, <2>1, <2>2, <3>1 DEF NoLeak
    <3>3. QED
      BY <1>3, <3>1, <3>2
  <2>4. QED
    BY <1>4, <1>11, <1>12, <2>1, <2>2, <2>3 DEF CloserInv
<1>14. CloserInv'
  BY <1>10, <1>13 DEF CloserInv
<1>15. QED
  BY <1>5, <1>6, <1>7, <1>8, <1>9, <1>14

-----------------------------------------------------------------------------
(* The inductive invariant and what follows from it.                       *)

LEMMA StutterInv == IInv /\ UNCHANGED vars => IInv'
BY DEF IInv, vars, TypeOK, ClientIsUp, NoLeak, OpenersInv, OneAtATime,
       CloserInv, ToClose

LEMMA ServerInv ==
    ASSUME IInv, NEW k \in Conns, Server(k)
    PROVE  IInv'
<1>1. /\ UNCHANGED <<opener, conn, client, up, closer, before, withdrawn,
                     overlapped>>
      /\ reachable' \in [Conns -> BOOLEAN]
  BY DEF Server, IInv, TypeOK
<1>2. QED
  BY <1>1 DEF IInv, TypeOK, ClientIsUp, NoLeak, OpenersInv, OneAtATime,
              CloserInv, ToClose

LEMMA NextInv == IInv /\ [Next]_vars => IInv'
<1> SUFFICES ASSUME IInv, [Next]_vars PROVE IInv'
  OBVIOUS
<1>1. CASE Closing
  BY <1>1, BeginCloseInv, CloseNextInv DEF Closing
<1>2. ASSUME NEW k \in Conns, Server(k) PROVE IInv'
  BY <1>2, ServerInv
<1>3. ASSUME NEW k \in Conns, NEW u \in Opens, Open(k, u) PROVE IInv'
  BY <1>3, DialInv, StoreInv, RetryInv, ReopenInv DEF Open
<1>4. ASSUME NEW k \in Conns, NEW u \in Opens, Update(k, u) PROVE IInv'
  BY <1>4, UpdateInv
<1>5. CASE UNCHANGED vars
  BY <1>5, StutterInv
<1>6. QED
  BY <1>1, <1>2, <1>3, <1>4, <1>5 DEF Next

(* In every reachable state the types are right and the connections,       *)
(* their openers and manager.Close agree on what is open and what is yet   *)
(* to be closed (rpc/grpc.go and Manager.Close).                           *)
THEOREM GrpcInvariant == Spec => []IInv
<1>1. Init => IInv
  BY InitInv
<1>2. IInv /\ [Next]_vars => IInv'
  BY NextInv
<1>3. QED
  BY <1>1, <1>2, PTL DEF Spec

(* GetClient returns nil or the client of an open connection, for any      *)
(* number of concurrent Open, Update and Close.                            *)
THEOREM ClientAlwaysUp == Spec => []ClientIsUp
<1>1. IInv => ClientIsUp
  BY DEF IInv
<1>2. QED
  BY <1>1, GrpcInvariant, PTL

(* A connection that is open and not stored is held by the Open that       *)
(* dialed it, where Updates and Opens do not overlap.                      *)
THEOREM NothingLeaks == Spec => []NoLeak
<1>1. IInv => NoLeak
  BY DEF IInv
<1>2. QED
  BY <1>1, GrpcInvariant, PTL

(* manager.Close leaves none of the connections open that it began with,   *)
(* for any order of services and connections.                              *)
THEOREM CloseIsComplete == Spec => []CloseCloses
<1>1. IInv => CloseCloses
  <2>1. SUFFICES ASSUME IInv, Closed, NEW k \in Conns \ overlapped,
                        before[k] \in up[k]
                 PROVE  FALSE
    BY DEF CloseCloses
  <2>2. closer.service > 0
    BY <2>1, Order DEF Closed, IInv, TypeOK
  <2>3. ToClose(k)
    BY <2>1, <2>2 DEF IInv, CloserInv
  <2>4. PICK i \in DOMAIN CloseOrder : i > closer.service \/ i = closer.service
    BY <2>3 DEF ToClose
  <2>5. QED
    BY <2>1, <2>4, Order DEF Closed, IInv, TypeOK
<1>2. QED
  BY <1>1, GrpcInvariant, PTL
=============================================================================
