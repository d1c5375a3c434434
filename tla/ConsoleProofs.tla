--------------------------- MODULE ConsoleProofs ---------------------------
(***************************************************************************)
(* Proofs about Console, for every set of connections and IDs and every    *)
(* bound on the number of starts.                                          *)
(***************************************************************************)
EXTENDS Console, SequenceTheorems, TLAPS

-----------------------------------------------------------------------------
(* The type invariant.                                                     *)

Handler == [at : {"idle", "insert", "delete"} \cup Starting,
            id : Ids \cup {Nobody}, shell : Nat, disturbed : BOOLEAN]

Shell == [id : Ids, at : {"booting", "running", "exited"},
          script : {"unread", "absent", "empty", "complete"},
          disturbed : BOOLEAN]

\* A shell that changes leaves a sequence of shells.
LEMMA ShellChanged ==
    ASSUME shells \in Seq(Shell), NEW k \in DOMAIN shells, NEW s \in Shell
    PROVE  [shells EXCEPT ![k] = s] \in Seq(Shell)
OBVIOUS

\* DisturbBooting marks the shells that have not read the file yet.
LEMMA BootingDisturbed ==
    ASSUME shells \in Seq(Shell)
    PROVE  /\ DisturbBooting \in Seq(Shell)
           /\ Len(DisturbBooting) = Len(shells)
           /\ \A k \in DOMAIN shells :
                /\ DisturbBooting[k].id = shells[k].id
                /\ DisturbBooting[k].at = shells[k].at
                /\ DisturbBooting[k].script = shells[k].script
                /\ DisturbBooting[k].disturbed =
                     (shells[k].disturbed \/ shells[k].at = "booting")
<1>1. \A k \in DOMAIN shells : shells[k] \in Shell
  OBVIOUS
<1>2. ASSUME NEW k \in DOMAIN shells
      PROVE  /\ [shells[k] EXCEPT !.disturbed = TRUE] \in Shell
             /\ [shells[k] EXCEPT !.disturbed = TRUE].disturbed = TRUE
  BY <1>1 DEF Shell
<1>3. ASSUME NEW k \in DOMAIN shells
      PROVE  /\ DisturbBooting[k] \in Shell
             /\ DisturbBooting[k].id = shells[k].id
             /\ DisturbBooting[k].at = shells[k].at
             /\ DisturbBooting[k].script = shells[k].script
             /\ DisturbBooting[k].disturbed =
                  (shells[k].disturbed \/ shells[k].at = "booting")
  <2>1. CASE shells[k].at = "booting"
    <3>1. DisturbBooting[k] = [shells[k] EXCEPT !.disturbed = TRUE]
      BY <2>1 DEF DisturbBooting
    <3>2. QED
      BY <1>1, <1>2, <2>1, <3>1 DEF Shell
  <2>2. CASE shells[k].at # "booting"
    <3>1. DisturbBooting[k] = shells[k]
      BY <2>2 DEF DisturbBooting
    <3>2. QED
      BY <1>1, <2>2, <3>1 DEF Shell
  <2>3. QED
    BY <2>1, <2>2
<1>4. DOMAIN shells = 1..Len(shells) /\ Len(shells) \in Nat
  OBVIOUS
<1>5. DisturbBooting \in [1..Len(shells) -> Shell]
  BY <1>3, <1>4 DEF DisturbBooting
<1>6. DisturbBooting \in Seq(Shell)
  BY <1>4, <1>5, SeqDef
<1>7. Len(DisturbBooting) = Len(shells)
  <2>1. DOMAIN DisturbBooting = 1..Len(shells)
    BY <1>5
  <2>2. QED
    BY <1>4, <1>6, <2>1, LenProperties
<1>8. QED
  BY <1>3, <1>6, <1>7

\* What the next state of the handlers is, event by event.
LEMMA NextHandler ==
    ASSUME handler \in [Conns -> Handler], NEW c \in Conns
    PROVE  /\ Idle(c) => /\ handler' \in [Conns -> Handler]
                         /\ handler'[c] = NoId
                         /\ \A d \in Conns \ {c} : handler'[d] = handler[d]
           /\ \A at \in {"insert", "delete", "create"}, id \in Ids :
                Handling(c, at, id) =>
                  /\ handler' \in [Conns -> Handler]
                  /\ handler'[c] = [at |-> at, id |-> id, shell |-> 0,
                                    disturbed |-> FALSE]
                  /\ \A d \in Conns \ {c} : handler'[d] = handler[d]
<1>1. NoId \in Handler
  BY DEF NoId, Handler
<1>2. Idle(c) => /\ handler' \in [Conns -> Handler]
                 /\ handler'[c] = NoId
                 /\ \A d \in Conns \ {c} : handler'[d] = handler[d]
  BY <1>1 DEF Idle
<1>3. ASSUME NEW at \in {"insert", "delete", "create"}, NEW id \in Ids,
             Handling(c, at, id)
      PROVE  /\ handler' \in [Conns -> Handler]
             /\ handler'[c] = [at |-> at, id |-> id, shell |-> 0,
                               disturbed |-> FALSE]
             /\ \A d \in Conns \ {c} : handler'[d] = handler[d]
  <2> DEFINE h == [at |-> at, id |-> id, shell |-> 0, disturbed |-> FALSE]
  <2>1. h \in Handler
    BY DEF Handler, Starting
  <2>2. handler' = [handler EXCEPT ![c] = h]
    BY <1>3 DEF Handling
  <2>3. QED
    BY <2>1, <2>2
<1>4. QED
  BY <1>2, <1>3

\* The parts of an event in progress.
LEMMA HandlerParts ==
    ASSUME handler \in [Conns -> Handler], NEW c \in Conns
    PROVE  /\ handler[c] \in Handler
           /\ handler[c] = [at |-> handler[c].at, id |-> handler[c].id,
                            shell |-> handler[c].shell,
                            disturbed |-> handler[c].disturbed]
           /\ handler[c].id \in Ids \cup {Nobody}
           /\ handler[c].shell \in Nat
           /\ handler[c].disturbed \in BOOLEAN
BY DEF Handler

\* DisturbOthers marks the starts that are past os.Create.
LEMMA OthersDisturbed ==
    ASSUME handler \in [Conns -> Handler], NEW c \in Conns,
           NEW h \in [Conns -> Handler]
    PROVE  /\ DisturbOthers(c, h) \in [Conns -> Handler]
           /\ DisturbOthers(c, h)[c] = h[c]
           /\ \A d \in Conns :
                /\ DisturbOthers(c, h)[d].at = h[d].at
                /\ DisturbOthers(c, h)[d].id = h[d].id
                /\ DisturbOthers(c, h)[d].shell = h[d].shell
                /\ DisturbOthers(c, h)[d].disturbed =
                     (h[d].disturbed \/ Disturbed(d, c))
<1>1. DisturbOthers(c, h)[c] = h[c]
  BY DEF DisturbOthers, Disturbed
<1>2. ASSUME NEW d \in Conns
      PROVE  /\ DisturbOthers(c, h)[d] \in Handler
             /\ DisturbOthers(c, h)[d].at = h[d].at
             /\ DisturbOthers(c, h)[d].id = h[d].id
             /\ DisturbOthers(c, h)[d].shell = h[d].shell
             /\ DisturbOthers(c, h)[d].disturbed =
                  (h[d].disturbed \/ Disturbed(d, c))
  <2>1. h[d] \in Handler
    OBVIOUS
  <2>2. /\ [h[d] EXCEPT !.disturbed = TRUE] \in Handler
        /\ [h[d] EXCEPT !.disturbed = TRUE].at = h[d].at
        /\ [h[d] EXCEPT !.disturbed = TRUE].id = h[d].id
        /\ [h[d] EXCEPT !.disturbed = TRUE].shell = h[d].shell
        /\ [h[d] EXCEPT !.disturbed = TRUE].disturbed = TRUE
    BY <2>1 DEF Handler
  <2>3. CASE Disturbed(d, c)
    <3>1. DisturbOthers(c, h)[d] = [h[d] EXCEPT !.disturbed = TRUE]
      BY <2>3 DEF DisturbOthers
    <3>2. QED
      BY <2>2, <2>3, <3>1
  <2>4. CASE ~Disturbed(d, c)
    <3>1. DisturbOthers(c, h)[d] = h[d]
      BY <2>4 DEF DisturbOthers
    <3>2. h[d].disturbed \in BOOLEAN
      BY <2>1 DEF Handler
    <3>3. QED
      BY <2>1, <2>4, <3>1, <3>2
  <2>5. QED
    BY <2>3, <2>4
<1>3. DisturbOthers(c, h) \in [Conns -> Handler]
  BY <1>2 DEF DisturbOthers
<1>4. QED
  BY <1>1, <1>2, <1>3

-----------------------------------------------------------------------------
(* What an event in progress is about: an event has its console, and a     *)
(* start that is about to bind has its shell.                              *)

AtWork ==
    \A c \in Conns :
        /\ handler[c].at # "idle" => handler[c].id \in Ids
        /\ handler[c].at = "bind" => /\ handler[c].shell \in 1..Len(shells)
                                     /\ shells[handler[c].shell].id = handler[c].id

TypeInv == TypeOK /\ AtWork

\* TypeInv holds initially.
LEMMA TypeInvInit == Init => TypeInv
<1> SUFFICES ASSUME Init PROVE TypeInv
  OBVIOUS
<1>1. <<>> \in Seq(Shell) /\ Len(<<>>) = 0
  BY EmptySeq
<1>2. NoId \in Handler /\ NoId.at = "idle"
  BY DEF NoId, Handler
<1>3. handler \in [Conns -> Handler] /\ \A c \in Conns : handler[c].at = "idle"
  BY <1>2 DEF Init
<1>4. AtWork
  BY <1>3 DEF AtWork
<1>5. shells \in Seq(Shell) /\ Len(shells) = 0
  BY <1>1 DEF Init
<1>6. /\ consoleMap \in [Ids -> Conns \cup {Nobody}]
      /\ conn \in [Conns -> {"up", "disconnected", "removing", "gone"}]
      /\ toRemove \in [Conns -> SUBSET Ids]
      /\ initFile \in {"absent", "empty", "complete"}
      /\ crashed \in BOOLEAN
      /\ created \subseteq Ids /\ strays \subseteq Ids /\ crossed \subseteq Ids
  BY DEF Init
<1>7. input \in [Ids -> 0..Len(shells)] /\ starts \in 0..MaxStarts
  BY <1>5, ConsoleAssumption DEF Init
<1>8. TypeOK
  BY <1>3, <1>5, <1>6, <1>7 DEF TypeOK, Handler, Shell
<1>9. QED
  BY <1>4, <1>8 DEF TypeInv

\* The type invariant by the parts of the state.
MapTyped ==
    /\ consoleMap \in [Ids -> Conns \cup {Nobody}]
    /\ created \subseteq Ids
    /\ conn \in [Conns -> {"up", "disconnected", "removing", "gone"}]
    /\ toRemove \in [Conns -> SUBSET Ids]
    /\ strays \subseteq Ids

ShellsTyped ==
    /\ initFile \in {"absent", "empty", "complete"}
    /\ shells \in Seq(Shell)
    /\ Len(shells) \in Nat /\ DOMAIN shells = 1..Len(shells)
    /\ input \in [Ids -> 0..Len(shells)]
    /\ starts \in 0..MaxStarts
    /\ crossed \subseteq Ids

\* TypeOK is the conjunction of its parts, now and in the next state.
LEMMA TypeByParts ==
    TypeOK <=> MapTyped /\ ShellsTyped /\ handler \in [Conns -> Handler]
               /\ crashed \in BOOLEAN
<1>1. shells \in Seq(Shell) =>
        Len(shells) \in Nat /\ DOMAIN shells = 1..Len(shells)
  BY LenProperties
<1>2. QED
  BY <1>1 DEF TypeOK, MapTyped, ShellsTyped, Handler, Shell

\* The same about the next state.
LEMMA TypeByPartsNext ==
    TypeOK' <=> MapTyped' /\ ShellsTyped' /\ handler' \in [Conns -> Handler]
                /\ crashed' \in BOOLEAN
<1>1. shells' \in Seq(Shell) =>
        Len(shells') \in Nat /\ DOMAIN shells' = 1..Len(shells')
  BY LenProperties
<1>2. QED
  BY <1>1 DEF TypeOK, MapTyped, ShellsTyped, Handler, Shell

\* How a create of init.bash changes the other starts and the shells.
LEMMA CreateFileStep ==
    ASSUME TypeInv, NEW c \in Conns, CreateFile(c)
    PROVE  /\ handler' \in [Conns -> Handler]
           /\ handler'[c].at \in {"write", "spawn"}
           /\ handler'[c].id = handler[c].id
           /\ handler'[c].at = "spawn" => handler'[c].disturbed
           /\ \A d \in Conns \ {c} :
                /\ handler'[d].at = handler[d].at
                /\ handler'[d].id = handler[d].id
                /\ handler'[d].shell = handler[d].shell
                /\ handler[d].disturbed => handler'[d].disturbed
                /\ handler[d].at = "spawn" =>
                      handler'[d].disturbed \/ initFile' = initFile
           /\ shells' \in Seq(Shell)
           /\ Len(shells') = Len(shells)
           /\ \A k \in 1..Len(shells) :
                /\ shells'[k].id = shells[k].id
                /\ shells'[k].at = shells[k].at
                /\ shells'[k].script = shells[k].script
                /\ shells[k].disturbed => shells'[k].disturbed
                /\ shells[k].at = "booting" =>
                      shells'[k].disturbed \/ initFile' = initFile
<1>1. /\ handler \in [Conns -> Handler] /\ ShellsTyped
  BY TypeByParts DEF TypeInv
<1>2. DOMAIN shells = 1..Len(shells) /\ shells \in Seq(Shell)
  BY <1>1 DEF ShellsTyped
<1>3. CASE /\ initFile' = "empty"
           /\ handler' = DisturbOthers(c, [handler EXCEPT ![c].at = "write"])
           /\ shells' = DisturbBooting
  <2> DEFINE h == [handler EXCEPT ![c].at = "write"]
  <2>1. /\ h \in [Conns -> Handler]
        /\ h[c].at = "write" /\ h[c].id = handler[c].id
    BY <1>1, HandlerParts DEF Handler, Starting
  <2>2. \A d \in Conns \ {c} : h[d] = handler[d]
    BY <1>1
  <2>3. handler' = DisturbOthers(c, h)
    BY <1>3
  <2> HIDE DEF h
  <2>4. /\ handler' \in [Conns -> Handler]
        /\ handler'[c] = h[c]
        /\ \A d \in Conns :
             /\ handler'[d].at = h[d].at
             /\ handler'[d].id = h[d].id
             /\ handler'[d].shell = h[d].shell
             /\ handler'[d].disturbed = (h[d].disturbed \/ Disturbed(d, c))
    <3>1. /\ DisturbOthers(c, h) \in [Conns -> Handler]
          /\ DisturbOthers(c, h)[c] = h[c]
          /\ \A d \in Conns :
               /\ DisturbOthers(c, h)[d].at = h[d].at
               /\ DisturbOthers(c, h)[d].id = h[d].id
               /\ DisturbOthers(c, h)[d].shell = h[d].shell
               /\ DisturbOthers(c, h)[d].disturbed =
                    (h[d].disturbed \/ Disturbed(d, c))
      BY ONLY <1>1, <2>1, OthersDisturbed, Zenon
    <3>2. QED
      BY ONLY <2>3, <3>1, Zenon
  <2>5. \A d \in Conns \ {c} : handler[d].at = "spawn" => Disturbed(d, c)
    BY DEF Disturbed, Starting
  <2>6. /\ shells' \in Seq(Shell)
        /\ Len(shells') = Len(shells)
        /\ \A k \in 1..Len(shells) :
             /\ shells'[k].id = shells[k].id
             /\ shells'[k].at = shells[k].at
             /\ shells'[k].script = shells[k].script
             /\ shells'[k].disturbed =
                  (shells[k].disturbed \/ shells[k].at = "booting")
    BY <1>2, <1>3, BootingDisturbed
  <2>7. /\ handler'[c].at = "write"
        /\ handler'[c].id = handler[c].id
    BY <2>1, <2>4
  <2>8. \A d \in Conns \ {c} :
             /\ handler'[d].at = handler[d].at
             /\ handler'[d].id = handler[d].id
             /\ handler'[d].shell = handler[d].shell
             /\ handler[d].disturbed => handler'[d].disturbed
             /\ handler[d].at = "spawn" => handler'[d].disturbed
    BY <2>2, <2>4, <2>5
  <2>9. QED
    BY <2>4, <2>6, <2>7, <2>8
<1>4. CASE /\ handler' = [handler EXCEPT ![c].at = "spawn", ![c].disturbed = TRUE]
           /\ UNCHANGED <<initFile, shells>>
  <2>1. /\ handler' \in [Conns -> Handler]
        /\ handler'[c].at = "spawn" /\ handler'[c].id = handler[c].id
        /\ handler'[c].disturbed
    BY <1>1, <1>4, HandlerParts DEF Handler, Starting
  <2>2. \A d \in Conns \ {c} : handler'[d] = handler[d]
    BY <1>1, <1>4
  <2>3. QED
    BY <1>2, <1>4, <2>1, <2>2
<1>5. QED
  BY <1>3, <1>4 DEF CreateFile

\* How a write of init.bash changes its start.
LEMMA WriteFileStep ==
    ASSUME TypeInv, NEW c \in Conns, WriteFile(c)
    PROVE  /\ handler' \in [Conns -> Handler]
           /\ handler'[c].at = "spawn"
           /\ handler'[c].id = handler[c].id
           /\ handler'[c].disturbed \/ initFile' = "complete"
           /\ initFile' \in {initFile, "complete"}
           /\ \A d \in Conns \ {c} : handler'[d] = handler[d]
<1>1. handler \in [Conns -> Handler]
  BY TypeByParts DEF TypeInv
<1>2. CASE /\ initFile' = "complete"
           /\ handler' = [handler EXCEPT ![c].at = "spawn"]
  BY <1>1, <1>2, HandlerParts DEF Handler, Starting
<1>3. CASE /\ handler' = [handler EXCEPT ![c].at = "spawn", ![c].disturbed = TRUE]
           /\ UNCHANGED initFile
  BY <1>1, <1>3, HandlerParts DEF Handler, Starting
<1>4. QED
  BY <1>2, <1>3 DEF WriteFile

\* How a start gets its shell.
LEMMA SpawnStep ==
    ASSUME TypeInv, NEW c \in Conns, Spawn(c)
    PROVE  /\ handler' \in [Conns -> Handler]
           /\ \A d \in Conns \ {c} : handler'[d] = handler[d]
           /\ \/ /\ handler'[c].at = "bind"
                 /\ handler'[c].id = handler[c].id
                 /\ handler'[c].shell = Len(shells) + 1
                 /\ shells' \in Seq(Shell)
                 /\ Len(shells') = Len(shells) + 1
                 /\ \A k \in 1..Len(shells) : shells'[k] = shells[k]
                 /\ shells'[Len(shells) + 1].id = handler[c].id
                 /\ shells'[Len(shells) + 1].at = "booting"
                 /\ shells'[Len(shells) + 1].disturbed = handler[c].disturbed
              \/ handler'[c] = NoId /\ shells' = shells
<1>1. handler \in [Conns -> Handler] /\ ShellsTyped
  BY TypeByParts DEF TypeInv
<1>2. shells \in Seq(Shell) /\ Len(shells) \in Nat
  BY <1>1 DEF ShellsTyped
<1>3. handler[c].id \in Ids /\ handler[c].at = "spawn"
  BY DEF Spawn, TypeInv, AtWork
<1> DEFINE s == [id |-> handler[c].id, at |-> "booting", script |-> "unread",
                 disturbed |-> handler[c].disturbed]
<1>4. CASE /\ shells' = Append(shells, s)
           /\ handler' = [handler EXCEPT ![c].at = "bind",
                                         ![c].shell = Len(shells) + 1]
  <2>1. handler[c].disturbed \in BOOLEAN
    BY <1>1 DEF Handler
  <2>2. s \in Shell
    BY <1>3, <2>1 DEF Shell
  <2>3. /\ s.id = handler[c].id /\ s.at = "booting"
        /\ s.disturbed = handler[c].disturbed
    OBVIOUS
  <2> HIDE DEF s
  <2>4. /\ shells' \in Seq(Shell) /\ Len(shells') = Len(shells) + 1
        /\ \A k \in 1..Len(shells) : shells'[k] = shells[k]
        /\ shells'[Len(shells) + 1] = s
    BY <1>2, <1>4, <2>2
  <2>5. /\ handler' \in [Conns -> Handler]
        /\ handler'[c].at = "bind" /\ handler'[c].id = handler[c].id
        /\ handler'[c].shell = Len(shells) + 1
    <3> DEFINE n == Len(shells) + 1
    <3>1. n \in Nat
      BY <1>2
    <3>2. handler' = [handler EXCEPT ![c].at = "bind", ![c].shell = n]
      BY <1>4
    <3> HIDE DEF n
    <3>3. /\ handler' \in [Conns -> Handler]
          /\ handler'[c].at = "bind" /\ handler'[c].id = handler[c].id
          /\ handler'[c].shell = n
      BY <1>1, <3>1, <3>2, HandlerParts DEF Handler, Starting
    <3>4. QED
      BY <3>3 DEF n
  <2>6. \A d \in Conns \ {c} : handler'[d] = handler[d]
    BY <1>1, <1>4
  <2>7. QED
    BY <2>3, <2>4, <2>5, <2>6
<1>5. CASE Idle(c) /\ UNCHANGED shells
  BY <1>1, <1>5, NextHandler
<1>6. QED
  BY <1>4, <1>5 DEF Spawn

\* One event begins, goes on or ends, and no shell changes.
LEMMA AtWorkKept ==
    ASSUME AtWork, NEW c \in Conns,
           \A d \in Conns \ {c} : handler'[d] = handler[d],
           handler'[c].at # "idle" => handler'[c].id \in Ids,
           handler'[c].at # "bind",
           shells' = shells
    PROVE  AtWork'
BY DEF AtWork

\* Boot and Exit: how a shell changes.
LEMMA ShellStep ==
    ASSUME TypeInv, NEW k \in DOMAIN shells, Boot(k) \/ Exit(k)
    PROVE  /\ shells' \in Seq(Shell)
           /\ Len(shells') = Len(shells)
           /\ \A j \in 1..Len(shells) \ {k} : shells'[j] = shells[j]
           /\ shells'[k].id = shells[k].id
           /\ shells'[k].disturbed = shells[k].disturbed
           /\ \/ /\ shells[k].at = "booting" /\ shells'[k].at = "running"
                 /\ shells'[k].script = initFile
              \/ /\ shells[k].at = "running" /\ shells'[k].at = "exited"
                 /\ shells'[k].script = shells[k].script
<1>1. /\ shells \in Seq(Shell) /\ DOMAIN shells = 1..Len(shells)
      /\ initFile \in {"absent", "empty", "complete"}
  BY TypeByParts DEF TypeInv, ShellsTyped
<1> DEFINE n == Len(shells)
<1>2. /\ shells \in [1..n -> Shell] /\ k \in 1..n
      /\ shells[k] \in Shell
  BY <1>1, LenProperties
<1> HIDE DEF n
<1>3. initFile \in {"absent", "empty", "complete"}
  BY <1>1
<1>4. ASSUME shells' \in [1..n -> Shell]
      PROVE  shells' \in Seq(Shell) /\ Len(shells') = Len(shells)
  <2>1. n \in Nat /\ n = Len(shells)
    BY <1>1, LenProperties DEF n
  <2>2. shells' \in Seq(Shell)
    BY <1>4, <2>1, SeqDef
  <2>3. DOMAIN shells' = 1..n
    BY <1>4
  <2>4. QED
    BY <2>1, <2>2, <2>3, LenProperties
<1>5. CASE Boot(k)
  <2>1. /\ shells' \in [1..n -> Shell]
        /\ shells'[k].id = shells[k].id
        /\ shells'[k].disturbed = shells[k].disturbed
        /\ shells'[k].at = "running"
        /\ shells'[k].script = initFile
        /\ \A j \in 1..n \ {k} : shells'[j] = shells[j]
    BY <1>2, <1>3, <1>5 DEF Boot, Shell
  <2>2. shells[k].at = "booting"
    BY <1>5 DEF Boot
  <2>3. QED
    BY <1>4, <2>1, <2>2 DEF n
<1>6. CASE Exit(k)
  <2>1. /\ shells' \in [1..n -> Shell]
        /\ shells'[k].id = shells[k].id
        /\ shells'[k].disturbed = shells[k].disturbed
        /\ shells'[k].at = "exited"
        /\ shells'[k].script = shells[k].script
        /\ \A j \in 1..n \ {k} : shells'[j] = shells[j]
    BY <1>2, <1>6 DEF Exit, Shell
  <2>2. shells[k].at = "running"
    BY <1>6 DEF Exit
  <2>3. QED
    BY <1>4, <2>1, <2>2 DEF n
<1>7. QED
  BY <1>5, <1>6

\* An event of c that takes hold of no shell keeps the type invariant.
LEMMA MapEvent ==
    ASSUME TypeInv, NEW c \in Conns,
           \/ \E id \in Ids : BeginCreate(c, id) \/ BeginStop(c, id)
                                                 \/ BeginStart(c, id)
           \/ Insert(c) \/ Delete(c) \/ Bind(c)
    PROVE  TypeInv'
<1>1. /\ MapTyped /\ ShellsTyped /\ handler \in [Conns -> Handler]
      /\ crashed \in BOOLEAN /\ AtWork
  BY TypeByParts DEF TypeInv
<1>2. SUFFICES /\ handler' \in [Conns -> Handler] /\ AtWork'
               /\ MapTyped' /\ ShellsTyped' /\ crashed' \in BOOLEAN
  BY TypeByPartsNext DEF TypeInv
<1>3. ASSUME NEW id \in Ids, BeginCreate(c, id)
      PROVE  /\ handler' \in [Conns -> Handler] /\ AtWork'
             /\ MapTyped' /\ ShellsTyped' /\ crashed' \in BOOLEAN
  <2>1. /\ handler' \in [Conns -> Handler]
        /\ handler'[c] = [at |-> "insert", id |-> id, shell |-> 0,
                          disturbed |-> FALSE]
        /\ \A d \in Conns \ {c} : handler'[d] = handler[d]
    BY <1>1, <1>3, NextHandler DEF BeginCreate
  <2>2. AtWork'
    BY <1>1, <1>3, <2>1, AtWorkKept DEF BeginCreate, shellVars
  <2>3. QED
    BY <1>1, <1>3, <2>1, <2>2 DEF BeginCreate, shellVars, MapTyped, ShellsTyped
<1>4. ASSUME NEW id \in Ids, BeginStop(c, id)
      PROVE  /\ handler' \in [Conns -> Handler] /\ AtWork'
             /\ MapTyped' /\ ShellsTyped' /\ crashed' \in BOOLEAN
  <2>1. /\ handler' \in [Conns -> Handler]
        /\ handler'[c] = [at |-> "delete", id |-> id, shell |-> 0,
                          disturbed |-> FALSE]
        /\ \A d \in Conns \ {c} : handler'[d] = handler[d]
    BY <1>1, <1>4, NextHandler DEF BeginStop
  <2>2. AtWork'
    BY <1>1, <1>4, <2>1, AtWorkKept DEF BeginStop, shellVars
  <2>3. QED
    BY <1>1, <1>4, <2>1, <2>2
       DEF BeginStop, mapVars, shellVars, MapTyped, ShellsTyped
<1>5. ASSUME NEW id \in Ids, BeginStart(c, id)
      PROVE  /\ handler' \in [Conns -> Handler] /\ AtWork'
             /\ MapTyped' /\ ShellsTyped' /\ crashed' \in BOOLEAN
  <2>1. /\ handler' \in [Conns -> Handler]
        /\ handler'[c] = [at |-> "create", id |-> id, shell |-> 0,
                          disturbed |-> FALSE]
        /\ \A d \in Conns \ {c} : handler'[d] = handler[d]
    BY <1>1, <1>5, NextHandler DEF BeginStart
  <2>2. AtWork'
    <3>1. shells' = shells
      BY <1>5 DEF BeginStart
    <3>2. handler'[c].id \in Ids /\ handler'[c].at # "bind"
      BY <2>1
    <3>3. QED
      BY <1>1, <2>1, <3>1, <3>2, AtWorkKept
  <2>3. crossed' \subseteq Ids
    BY <1>1, <1>5 DEF BeginStart, ShellsTyped
  <2>4. starts' \in 0..MaxStarts
    <3>1. starts \in 0..MaxStarts /\ starts < MaxStarts /\ starts' = starts + 1
      BY <1>1, <1>5 DEF BeginStart, ShellsTyped
    <3>2. QED
      BY <3>1, ConsoleAssumption
  <2>5. MapTyped' /\ crashed' \in BOOLEAN
    BY <1>1, <1>5 DEF BeginStart, mapVars, MapTyped
  <2>6. ShellsTyped'
    BY <1>1, <1>5, <2>3, <2>4 DEF BeginStart, ShellsTyped
  <2>7. QED
    BY <2>1, <2>2, <2>5, <2>6
<1>6. CASE Insert(c)
  <2>1. /\ handler' \in [Conns -> Handler]
        /\ handler'[c] = NoId
        /\ \A d \in Conns \ {c} : handler'[d] = handler[d]
    BY <1>1, <1>6, NextHandler DEF Insert
  <2>2. AtWork'
    BY <1>1, <1>6, <2>1, AtWorkKept DEF Insert, shellVars, NoId
  <2>3. handler[c].id \in Ids
    BY <1>1, <1>6 DEF AtWork, Insert
  <2>4. QED
    BY <1>1, <1>6, <2>1, <2>2, <2>3 DEF Insert, shellVars, MapTyped, ShellsTyped
<1>7. CASE Delete(c)
  <2>1. /\ handler' \in [Conns -> Handler]
        /\ handler'[c] = NoId
        /\ \A d \in Conns \ {c} : handler'[d] = handler[d]
    BY <1>1, <1>7, NextHandler DEF Delete
  <2>2. AtWork'
    BY <1>1, <1>7, <2>1, AtWorkKept DEF Delete, shellVars, NoId
  <2>3. QED
    BY <1>1, <1>7, <2>1, <2>2 DEF Delete, shellVars, MapTyped, ShellsTyped
<1>8. CASE Bind(c)
  <2>1. /\ handler' \in [Conns -> Handler]
        /\ handler'[c] = NoId
        /\ \A d \in Conns \ {c} : handler'[d] = handler[d]
    BY <1>1, <1>8, NextHandler DEF Bind
  <2>2. AtWork'
    BY <1>1, <1>8, <2>1, AtWorkKept DEF Bind, NoId
  <2>3. handler[c].shell \in 1..Len(shells)
    BY <1>1, <1>8 DEF AtWork, Bind
  <2>4. input' \in [Ids -> 0..Len(shells)]
    <3>1. /\ input \in [Ids -> 0..Len(shells)] /\ Len(shells) \in Nat
          /\ input' = [input EXCEPT ![handler[c].id] = handler[c].shell]
      BY <1>1, <1>8 DEF Bind, ShellsTyped
    <3>2. handler[c].shell \in 0..Len(shells)
      BY <2>3, <3>1
    <3>3. QED
      BY <3>1, <3>2
  <2>5. QED
    BY <1>1, <1>8, <2>1, <2>2, <2>4 DEF Bind, mapVars, MapTyped, ShellsTyped
<1>9. QED
  BY <1>3, <1>4, <1>5, <1>6, <1>7, <1>8

\* A step of a start keeps the type invariant.
LEMMA StartEvent ==
    ASSUME TypeInv, NEW c \in Conns,
           CreateFile(c) \/ WriteFile(c) \/ Spawn(c)
    PROVE  TypeInv'
<1>1. /\ MapTyped /\ ShellsTyped /\ handler \in [Conns -> Handler]
      /\ crashed \in BOOLEAN /\ AtWork
  BY TypeByParts DEF TypeInv
<1>2. SUFFICES /\ handler' \in [Conns -> Handler] /\ AtWork'
               /\ MapTyped' /\ ShellsTyped' /\ crashed' \in BOOLEAN
  BY TypeByPartsNext DEF TypeInv
<1>3. MapTyped' /\ crashed' \in BOOLEAN
  BY <1>1 DEF CreateFile, WriteFile, Spawn, mapVars, MapTyped
<1>4. UNCHANGED <<input, starts, crossed>>
  BY DEF CreateFile, WriteFile, Spawn
<1>5. /\ shells \in Seq(Shell) /\ Len(shells) \in Nat
      /\ input \in [Ids -> 0..Len(shells)] /\ starts \in 0..MaxStarts
      /\ crossed \subseteq Ids
  BY <1>1 DEF ShellsTyped
<1>6. ASSUME shells' \in Seq(Shell),
             Len(shells') = Len(shells) \/ Len(shells') = Len(shells) + 1,
             initFile' \in {"absent", "empty", "complete"}
      PROVE  ShellsTyped'
  <2>1. Len(shells') \in Nat /\ DOMAIN shells' = 1..Len(shells')
    BY <1>6, LenProperties
  <2>2. 0..Len(shells) \subseteq 0..Len(shells')
    BY <1>5, <1>6
  <2>3. input \in [Ids -> 0..Len(shells')]
    BY <1>5, <2>2
  <2>4. QED
    BY <1>4, <1>5, <1>6, <2>1, <2>3 DEF ShellsTyped
<1>7. initFile' \in {"absent", "empty", "complete"}
  BY <1>1 DEF CreateFile, WriteFile, Spawn, ShellsTyped
<1>8. CASE CreateFile(c)
  <2>1. /\ handler' \in [Conns -> Handler]
        /\ handler'[c].at \in {"write", "spawn"}
        /\ handler'[c].id = handler[c].id
        /\ \A d \in Conns \ {c} : /\ handler'[d].at = handler[d].at
                                  /\ handler'[d].id = handler[d].id
                                  /\ handler'[d].shell = handler[d].shell
        /\ shells' \in Seq(Shell) /\ Len(shells') = Len(shells)
        /\ \A k \in 1..Len(shells) : shells'[k].id = shells[k].id
    BY <1>8, CreateFileStep
  <2>2. handler[c].at = "create"
    BY <1>8 DEF CreateFile
  <2>3. AtWork'
    BY <1>1, <2>1, <2>2 DEF AtWork
  <2>4. QED
    BY <1>3, <1>6, <1>7, <2>1, <2>3
<1>9. CASE WriteFile(c)
  <2>1. /\ handler' \in [Conns -> Handler]
        /\ handler'[c].at = "spawn" /\ handler'[c].id = handler[c].id
        /\ \A d \in Conns \ {c} : handler'[d] = handler[d]
    BY <1>9, WriteFileStep
  <2>2. handler[c].at = "write" /\ shells' = shells
    BY <1>9 DEF WriteFile
  <2>3. AtWork'
    <3>1. handler'[c].id \in Ids /\ handler'[c].at # "bind"
      BY <1>1, <2>1, <2>2 DEF AtWork
    <3>2. QED
      BY <1>1, <2>1, <2>2, <3>1, AtWorkKept
  <2>4. QED
    BY <1>3, <1>5, <1>6, <1>7, <2>1, <2>2, <2>3
<1>10. CASE Spawn(c)
  <2>1. /\ handler' \in [Conns -> Handler]
        /\ \A d \in Conns \ {c} : handler'[d] = handler[d]
    BY <1>10, SpawnStep
  <2>2. handler[c].at = "spawn" /\ handler[c].id \in Ids
    BY <1>1, <1>10 DEF Spawn, AtWork
  <2>3. CASE /\ handler'[c].at = "bind" /\ handler'[c].id = handler[c].id
             /\ handler'[c].shell = Len(shells) + 1
             /\ shells' \in Seq(Shell) /\ Len(shells') = Len(shells) + 1
             /\ \A k \in 1..Len(shells) : shells'[k] = shells[k]
             /\ shells'[Len(shells) + 1].id = handler[c].id
    <3>1. AtWork'
      <4>1. handler'[c].shell \in 1..Len(shells')
        BY <1>5, <2>3
      <4>2. ASSUME NEW d \in Conns \ {c}, handler[d].at = "bind"
            PROVE  /\ handler[d].shell \in 1..Len(shells')
                   /\ shells'[handler[d].shell].id = handler[d].id
        <5>1. /\ handler[d].shell \in 1..Len(shells)
              /\ shells[handler[d].shell].id = handler[d].id
          BY <1>1, <4>2 DEF AtWork
        <5>2. QED
          BY <1>5, <2>3, <5>1
      <4>3. \A d \in Conns \ {c} : handler[d].at # "idle" => handler[d].id \in Ids
        BY <1>1 DEF AtWork
      <4>4. QED
        BY <2>1, <2>2, <2>3, <4>1, <4>2, <4>3 DEF AtWork
    <3>2. QED
      BY <1>3, <1>6, <1>7, <2>1, <2>3, <3>1
  <2>4. CASE handler'[c] = NoId /\ shells' = shells
    <3>1. AtWork'
      BY <1>1, <2>1, <2>4, AtWorkKept DEF NoId
    <3>2. QED
      BY <1>3, <1>5, <1>6, <1>7, <2>1, <2>4, <3>1
  <2>5. QED
    BY <1>10, <2>3, <2>4, SpawnStep
<1>11. QED
  BY <1>8, <1>9, <1>10

\* A step of a disconnect keeps the type invariant.
LEMMA LeaveStep ==
    ASSUME TypeInv, NEW c \in Conns, Leave(c)
    PROVE  TypeInv'
<1>1. /\ MapTyped /\ ShellsTyped /\ handler \in [Conns -> Handler]
      /\ crashed \in BOOLEAN /\ AtWork
  BY TypeByParts DEF TypeInv
<1>2. UNCHANGED <<handler, shellVars, crashed>>
  BY DEF Leave, Disconnect, FindIds, RemoveId, Gone
<1>3. MapTyped'
  <2>1. CASE Disconnect(c)
    BY <1>1, <2>1 DEF Disconnect, MapTyped
  <2>2. CASE FindIds(c)
    BY <1>1, <2>2 DEF FindIds, MapTyped
  <2>3. CASE \E id \in Ids : RemoveId(c, id)
    BY <1>1, <2>3 DEF RemoveId, MapTyped
  <2>4. CASE Gone(c)
    BY <1>1, <2>4 DEF Gone, MapTyped
  <2>5. QED
    BY <2>1, <2>2, <2>3, <2>4 DEF Leave
<1>4. ShellsTyped' /\ AtWork'
  BY <1>1, <1>2 DEF shellVars, ShellsTyped, AtWork
<1>5. QED
  BY <1>1, <1>2, <1>3, <1>4, TypeByPartsNext DEF TypeInv

\* A step of a shell keeps the type invariant.
LEMMA ShellEvent ==
    ASSUME TypeInv, NEW k \in DOMAIN shells, Boot(k) \/ Exit(k)
    PROVE  TypeInv'
<1>1. /\ MapTyped /\ ShellsTyped /\ handler \in [Conns -> Handler]
      /\ crashed \in BOOLEAN /\ AtWork
  BY TypeByParts DEF TypeInv
<1>2. UNCHANGED <<mapVars, handler, initFile, input, crashed, starts, crossed>>
  BY DEF Boot, Exit
<1>3. /\ shells' \in Seq(Shell) /\ Len(shells') = Len(shells)
      /\ \A j \in 1..Len(shells) : shells'[j].id = shells[j].id
  BY ShellStep
<1>4. ShellsTyped'
  <2>1. Len(shells') \in Nat /\ DOMAIN shells' = 1..Len(shells')
    BY <1>3, LenProperties
  <2>2. QED
    BY <1>1, <1>2, <1>3, <2>1 DEF ShellsTyped
<1>5. AtWork'
  BY <1>1, <1>2, <1>3 DEF AtWork
<1>6. MapTyped'
  BY <1>1, <1>2 DEF MapTyped, mapVars
<1>7. QED
  BY <1>1, <1>2, <1>4, <1>5, <1>6, TypeByPartsNext DEF TypeInv

\* Every step keeps the type invariant.
LEMMA TypeInvStep == TypeInv /\ [Next]_vars => TypeInv'
<1> SUFFICES ASSUME TypeInv, [Next]_vars PROVE TypeInv'
  OBVIOUS
<1>1. ASSUME NEW c \in Conns, Event(c) PROVE TypeInv'
  BY <1>1, MapEvent, StartEvent DEF Event
<1>2. ASSUME NEW c \in Conns, Leave(c) PROVE TypeInv'
  BY <1>2, LeaveStep
<1>3. ASSUME NEW k \in DOMAIN shells, Boot(k) \/ Exit(k) PROVE TypeInv'
  BY <1>3, ShellEvent
<1>4. CASE DetectRace
  BY <1>4 DEF DetectRace, mapVars, shellVars, TypeInv, TypeOK, AtWork
<1>5. CASE UNCHANGED vars
  BY <1>5 DEF vars, TypeInv, TypeOK, AtWork
<1>6. QED
  BY <1>1, <1>2, <1>3, <1>4, <1>5 DEF Next

(* The variables keep their types.  In particular no handler ever binds    *)
(* the events of a console to a shell that was not started.                *)
THEOREM TypeCorrect == Spec => []TypeOK
<1>1. TypeInv => TypeOK
  BY DEF TypeInv
<1>2. QED
  BY <1>1, TypeInvInit, TypeInvStep, PTL DEF Spec

-----------------------------------------------------------------------------
(* The entries of the map.  EntryIsOwned is inductive, given the types.    *)

\* Every step keeps the entries owned.
LEMMA OwnedStep ==
    TypeInv /\ EntryIsOwned /\ [Next]_vars => EntryIsOwned'
<1> SUFFICES ASSUME TypeInv, EntryIsOwned, [Next]_vars PROVE EntryIsOwned'
  OBVIOUS
<1>1. MapTyped /\ AtWork
  BY TypeByParts DEF TypeInv
<1>2. CASE UNCHANGED <<consoleMap, conn, toRemove, strays>>
  BY <1>2 DEF EntryIsOwned
<1>3. ASSUME NEW c \in Conns, Event(c) PROVE EntryIsOwned'
  <2>1. CASE Insert(c)
    <3>1. handler[c].id \in Ids
      BY <1>1, <2>1 DEF AtWork, Insert
    <3>2. /\ consoleMap' = [consoleMap EXCEPT ![handler[c].id] = c]
          /\ strays' = IF conn[c] \in {"removing", "gone"}
                       THEN strays \cup {handler[c].id} ELSE strays
          /\ UNCHANGED <<conn, toRemove>>
      BY <2>1 DEF Insert
    <3>3. \A id \in Ids \ {handler[c].id} : consoleMap'[id] = consoleMap[id]
      BY <1>1, <3>2 DEF MapTyped
    <3>4. consoleMap'[handler[c].id] = c
      BY <1>1, <3>1, <3>2 DEF MapTyped
    <3>5. QED
      BY <3>2, <3>3, <3>4 DEF EntryIsOwned
  <2>2. CASE Delete(c)
    <3>1. /\ consoleMap' = [consoleMap EXCEPT ![handler[c].id] = Nobody]
          /\ UNCHANGED <<conn, toRemove, strays>>
      BY <2>2 DEF Delete
    <3>2. \A id \in Ids : consoleMap'[id] \in {consoleMap[id], Nobody}
      BY <1>1, <3>1 DEF MapTyped
    <3>3. QED
      BY <3>1, <3>2 DEF EntryIsOwned
  <2>3. CASE \/ \E id \in Ids : BeginCreate(c, id) \/ BeginStop(c, id)
                                                   \/ BeginStart(c, id)
             \/ CreateFile(c) \/ WriteFile(c) \/ Spawn(c) \/ Bind(c)
    <3>1. UNCHANGED <<consoleMap, conn, toRemove, strays>>
      BY <2>3 DEF BeginCreate, BeginStop, BeginStart, CreateFile, WriteFile,
                  Spawn, Bind, mapVars
    <3>2. QED
      BY <1>2, <3>1
  <2>4. QED
    BY <1>3, <2>1, <2>2, <2>3 DEF Event
<1>4. ASSUME NEW c \in Conns, Leave(c) PROVE EntryIsOwned'
  <2>1. CASE Disconnect(c)
    <3>1. /\ conn' = [conn EXCEPT ![c] = "disconnected"]
          /\ UNCHANGED <<consoleMap, toRemove, strays>>
      BY <2>1 DEF Disconnect
    <3>2. \A d \in Conns : conn'[d] = conn[d] \/ conn'[d] = "disconnected"
      BY <1>1, <3>1 DEF MapTyped
    <3>3. \A id \in Ids : consoleMap[id] # Nobody => consoleMap[id] \in Conns
      BY <1>1 DEF MapTyped
    <3>4. QED
      BY <3>1, <3>2, <3>3 DEF EntryIsOwned
  <2>2. CASE FindIds(c)
    <3>1. /\ toRemove' = [toRemove EXCEPT ![c] = {id \in Ids : consoleMap[id] = c}]
          /\ conn' = [conn EXCEPT ![c] = "removing"]
          /\ UNCHANGED <<consoleMap, strays>>
      BY <2>2 DEF FindIds
    <3>2. ASSUME NEW id \in Ids, consoleMap[id] = c
          PROVE  id \in toRemove'[c] /\ conn'[c] = "removing"
      BY <1>1, <3>1, <3>2 DEF MapTyped
    <3>3. \A d \in Conns \ {c} : /\ conn'[d] = conn[d]
                                 /\ toRemove'[d] = toRemove[d]
      BY <1>1, <3>1 DEF MapTyped
    <3>4. \A id \in Ids : consoleMap[id] # Nobody => consoleMap[id] \in Conns
      BY <1>1 DEF MapTyped
    <3>5. QED
      BY <3>1, <3>2, <3>3, <3>4 DEF EntryIsOwned
  <2>3. ASSUME NEW gone \in Ids, RemoveId(c, gone) PROVE EntryIsOwned'
    <3>1. /\ consoleMap' = [consoleMap EXCEPT ![gone] = Nobody]
          /\ toRemove' = [toRemove EXCEPT ![c] = toRemove[c] \ {gone}]
          /\ UNCHANGED <<conn, strays>>
      BY <2>3 DEF RemoveId
    <3>2. /\ consoleMap'[gone] = Nobody
          /\ \A id \in Ids \ {gone} : consoleMap'[id] = consoleMap[id]
      BY <1>1, <3>1 DEF MapTyped
    <3>3. \A d \in Conns, id \in Ids \ {gone} :
             id \in toRemove[d] => id \in toRemove'[d]
      BY <1>1, <3>1 DEF MapTyped
    <3>4. \A id \in Ids : consoleMap[id] # Nobody => consoleMap[id] \in Conns
      BY <1>1 DEF MapTyped
    <3>5. QED
      BY <3>1, <3>2, <3>3, <3>4 DEF EntryIsOwned
  <2>4. CASE Gone(c)
    <3>1. /\ conn[c] = "removing" /\ toRemove[c] = {}
          /\ conn' = [conn EXCEPT ![c] = "gone"]
          /\ UNCHANGED <<consoleMap, toRemove, strays>>
      BY <2>4 DEF Gone
    <3>2. \A id \in Ids \ strays : consoleMap[id] # c
      BY <3>1, ConsoleAssumption DEF EntryIsOwned
    <3>3. \A d \in Conns \ {c} : conn'[d] = conn[d]
      BY <1>1, <3>1 DEF MapTyped
    <3>4. \A id \in Ids : consoleMap[id] # Nobody => consoleMap[id] \in Conns
      BY <1>1 DEF MapTyped
    <3>5. QED
      BY <3>1, <3>2, <3>3, <3>4 DEF EntryIsOwned
  <2>5. QED
    BY <1>4, <2>1, <2>2, <2>3, <2>4 DEF Leave
<1>5. ASSUME NEW k \in DOMAIN shells, Boot(k) \/ Exit(k) PROVE EntryIsOwned'
  BY <1>2, <1>5 DEF Boot, Exit, mapVars
<1>6. CASE DetectRace \/ UNCHANGED vars
  BY <1>2, <1>6 DEF DetectRace, mapVars, vars
<1>7. QED
  BY <1>3, <1>4, <1>5, <1>6 DEF Next

(* A console in the map belongs to a connection that is there, or whose    *)
(* disconnect handler will remove it, except for those that a create adds  *)
(* after that handler has looked: whatever other connections do meanwhile. *)
THEOREM EntriesAreOwned == Spec => []EntryIsOwned
<1>1. Init => EntryIsOwned
  BY DEF Init, EntryIsOwned
<1>2. QED
  BY <1>1, TypeInvInit, TypeInvStep, OwnedStep, PTL DEF Spec

-----------------------------------------------------------------------------
(* The init script.  While a start, or its shell, has not been disturbed,  *)
(* the file is complete from the write on until the shell has read it.     *)

ScriptReady ==
    /\ \A c \in Conns : handler[c].at = "spawn" /\ ~handler[c].disturbed
                        => initFile = "complete"
    /\ \A k \in 1..Len(shells) : shells[k].at = "booting" /\ ~shells[k].disturbed
                                 => initFile = "complete"

ScriptInv == ScriptReady /\ ScriptIsComplete

\* The start of c goes on, and neither the file nor a shell changes.
LEMMA ReadyKept ==
    ASSUME ScriptInv, NEW c \in Conns,
           \A d \in Conns \ {c} : handler'[d] = handler[d],
           handler'[c].at # "spawn",
           UNCHANGED <<initFile, shells>>
    PROVE  ScriptInv'
BY DEF ScriptInv, ScriptReady, ScriptIsComplete

\* A step that changes no handler, no shell and no file.
LEMMA ScriptUnchanged ==
    ASSUME ScriptInv, UNCHANGED <<handler, initFile, shells>>
    PROVE  ScriptInv'
BY DEF ScriptInv, ScriptReady, ScriptIsComplete

\* Every step of an event keeps the script invariant.
LEMMA ScriptEvent ==
    ASSUME TypeInv, ScriptInv, NEW c \in Conns, Event(c)
    PROVE  ScriptInv'
<1>1. /\ handler \in [Conns -> Handler] /\ ShellsTyped
  BY TypeByParts DEF TypeInv
<1>2. /\ Len(shells) \in Nat /\ DOMAIN shells = 1..Len(shells)
      /\ shells \in Seq(Shell)
  BY <1>1 DEF ShellsTyped
<1>3. ASSUME NEW id \in Ids,
             BeginCreate(c, id) \/ BeginStop(c, id) \/ BeginStart(c, id)
      PROVE  ScriptInv'
  <2>1. \E at \in {"insert", "delete", "create"} : Handling(c, at, id)
    BY <1>3 DEF BeginCreate, BeginStop, BeginStart
  <2>2. PICK at \in {"insert", "delete", "create"} : Handling(c, at, id)
    BY <2>1
  <2>3. /\ handler'[c] = [at |-> at, id |-> id, shell |-> 0,
                          disturbed |-> FALSE]
        /\ \A d \in Conns \ {c} : handler'[d] = handler[d]
    BY <1>1, <2>2, NextHandler
  <2>4. handler'[c].at # "spawn"
    BY <2>3
  <2>5. UNCHANGED <<initFile, shells>>
    BY <1>3 DEF BeginCreate, BeginStop, BeginStart, shellVars
  <2>6. QED
    BY <2>3, <2>4, <2>5, ReadyKept
<1>4. CASE Insert(c) \/ Delete(c) \/ Bind(c)
  <2>1. Idle(c) /\ UNCHANGED <<initFile, shells>>
    BY <1>4 DEF Insert, Delete, Bind, shellVars
  <2>2. handler'[c].at # "spawn" /\ \A d \in Conns \ {c} : handler'[d] = handler[d]
    BY <1>1, <2>1, NextHandler DEF NoId
  <2>3. QED
    BY <2>1, <2>2, ReadyKept
<1>5. CASE CreateFile(c)
  <2>1. handler'[c].at = "spawn" => handler'[c].disturbed
    BY <1>5, CreateFileStep
  <2>2. \A d \in Conns \ {c} :
           /\ handler'[d].at = handler[d].at
           /\ handler[d].disturbed => handler'[d].disturbed
           /\ handler[d].at = "spawn" =>
                handler'[d].disturbed \/ initFile' = initFile
    BY <1>5, CreateFileStep
  <2>3. /\ shells' \in Seq(Shell) /\ Len(shells') = Len(shells)
        /\ \A k \in 1..Len(shells) :
             /\ shells'[k].at = shells[k].at
             /\ shells'[k].script = shells[k].script
             /\ shells[k].disturbed => shells'[k].disturbed
             /\ shells[k].at = "booting" =>
                   shells'[k].disturbed \/ initFile' = initFile
    BY <1>5, CreateFileStep
  <2>4. DOMAIN shells' = 1..Len(shells)
    BY <2>3, LenProperties
  <2>5. ScriptReady'
    BY <2>1, <2>2, <2>3 DEF ScriptInv, ScriptReady
  <2>6. ScriptIsComplete'
    BY <1>2, <2>3, <2>4 DEF ScriptInv, ScriptIsComplete
  <2>7. QED
    BY <2>5, <2>6 DEF ScriptInv
<1>6. CASE WriteFile(c)
  <2>1. /\ handler'[c].disturbed \/ initFile' = "complete"
        /\ initFile' \in {initFile, "complete"}
        /\ \A d \in Conns \ {c} : handler'[d] = handler[d]
    BY <1>6, WriteFileStep
  <2>2. shells' = shells
    BY <1>6 DEF WriteFile
  <2>3. QED
    BY <2>1, <2>2 DEF ScriptInv, ScriptReady, ScriptIsComplete
<1>7. CASE Spawn(c)
  <2>1. \A d \in Conns \ {c} : handler'[d] = handler[d]
    BY <1>7, SpawnStep
  <2>2. initFile' = initFile /\ handler[c].at = "spawn"
    BY <1>7 DEF Spawn
  <2>3. CASE /\ handler'[c].at = "bind"
             /\ shells' \in Seq(Shell) /\ Len(shells') = Len(shells) + 1
             /\ \A k \in 1..Len(shells) : shells'[k] = shells[k]
             /\ shells'[Len(shells) + 1].at = "booting"
             /\ shells'[Len(shells) + 1].disturbed = handler[c].disturbed
    <3>1. DOMAIN shells' = 1..Len(shells')
      BY <2>3, LenProperties
    <3>2. 1..Len(shells') = 1..Len(shells) \cup {Len(shells) + 1}
      BY <1>2, <2>3
    <3>3. ScriptReady'
      BY <2>1, <2>2, <2>3, <3>2 DEF ScriptInv, ScriptReady
    <3>4. ScriptIsComplete'
      BY <1>2, <2>3, <3>1, <3>2 DEF ScriptInv, ScriptIsComplete
    <3>5. QED
      BY <3>3, <3>4 DEF ScriptInv
  <2>4. CASE handler'[c] = NoId /\ shells' = shells
    BY <2>1, <2>2, <2>4, ReadyKept DEF NoId
  <2>5. QED
    BY <1>7, <2>3, <2>4, SpawnStep
<1>8. QED
  BY <1>3, <1>4, <1>5, <1>6, <1>7 DEF Event

\* Every step keeps the script invariant.
LEMMA ScriptStep ==
    TypeInv /\ ScriptInv /\ [Next]_vars => ScriptInv'
<1> SUFFICES ASSUME TypeInv, ScriptInv, [Next]_vars PROVE ScriptInv'
  OBVIOUS
<1>1. ASSUME NEW c \in Conns, Leave(c) PROVE ScriptInv'
  BY <1>1, ScriptUnchanged
     DEF Leave, Disconnect, FindIds, RemoveId, Gone, shellVars
<1>2. CASE DetectRace \/ UNCHANGED vars
  BY <1>2, ScriptUnchanged DEF DetectRace, shellVars, vars
<1>3. ASSUME NEW k \in DOMAIN shells, Boot(k) \/ Exit(k) PROVE ScriptInv'
  <2>1. DOMAIN shells = 1..Len(shells)
    BY TypeByParts DEF TypeInv, ShellsTyped
  <2>2. /\ shells' \in Seq(Shell) /\ Len(shells') = Len(shells)
        /\ \A j \in 1..Len(shells) \ {k} : shells'[j] = shells[j]
        /\ shells'[k].disturbed = shells[k].disturbed
        /\ \/ /\ shells[k].at = "booting" /\ shells'[k].at = "running"
              /\ shells'[k].script = initFile
           \/ /\ shells[k].at = "running" /\ shells'[k].at = "exited"
              /\ shells'[k].script = shells[k].script
    BY <1>3, ShellStep
  <2>3. UNCHANGED <<handler, initFile>>
    BY <1>3 DEF Boot, Exit
  <2>4. DOMAIN shells' = 1..Len(shells)
    BY <2>2, LenProperties
  <2>5. ScriptReady'
    BY <2>1, <2>2, <2>3 DEF ScriptInv, ScriptReady
  <2>6. shells'[k].script # "complete" => shells'[k].disturbed
    BY <2>1, <2>2 DEF ScriptInv, ScriptReady, ScriptIsComplete
  <2>7. ScriptIsComplete'
    BY <2>1, <2>2, <2>4, <2>6 DEF ScriptInv, ScriptIsComplete
  <2>8. QED
    BY <2>5, <2>7 DEF ScriptInv
<1>4. QED
  BY <1>1, <1>2, <1>3, ScriptEvent DEF Next

(* A shell that was not disturbed runs the whole init script, however many *)
(* starts share the file and however they interleave.                      *)
THEOREM ScriptsAreComplete == Spec => []ScriptIsComplete
<1>1. Init => ScriptInv
  <2> SUFFICES ASSUME Init PROVE ScriptInv
    OBVIOUS
  <2>1. \A c \in Conns : handler[c].at = "idle"
    BY DEF Init, NoId
  <2>2. shells = <<>> /\ DOMAIN shells = {} /\ Len(shells) = 0
    BY DEF Init
  <2>3. QED
    BY <2>1, <2>2 DEF ScriptInv, ScriptReady, ScriptIsComplete
<1>2. ScriptInv => ScriptIsComplete
  BY DEF ScriptInv
<1>3. QED
  BY <1>1, <1>2, TypeInvInit, TypeInvStep, ScriptStep, PTL DEF Spec

-----------------------------------------------------------------------------
(* The input of a console.  Without overlapping starts a console has at    *)
(* most one start in progress, and the shell of that one is the youngest.  *)

OneStart ==
    \A id \in Ids \ crossed : \A c, d \in Conns :
        /\ handler[c].at \in Starting /\ handler[c].id = id
        /\ handler[d].at \in Starting /\ handler[d].id = id
        => c = d

BindsYoungest ==
    \A id \in Ids \ crossed : \A c \in Conns : \A k \in 1..Len(shells) :
        handler[c].at = "bind" /\ handler[c].id = id /\ shells[k].id = id
        => k <= handler[c].shell

InputInv == OneStart /\ BindsYoungest /\ InputToLatest

\* A console whose starts have overlapped stays one of those.
CrossedGrows == crossed \subseteq crossed'

\* A step that binds nothing, starts nothing and spawns nothing.
LEMMA InputKept ==
    ASSUME TypeInv, InputInv, CrossedGrows,
           \A c \in Conns :
              /\ handler'[c].at \in Starting =>
                    handler[c].at \in Starting /\ handler'[c].id = handler[c].id
              /\ handler[c].at = "bind" <=> handler'[c].at = "bind"
              /\ handler[c].at = "bind" => handler'[c].shell = handler[c].shell,
           DOMAIN shells' = DOMAIN shells, Len(shells') = Len(shells),
           \A k \in DOMAIN shells : shells'[k].id = shells[k].id,
           input' = input
    PROVE  InputInv'
<1>1. /\ Len(shells) \in Nat /\ DOMAIN shells = 1..Len(shells)
      /\ input \in [Ids -> 0..Len(shells)]
  BY TypeByParts DEF TypeInv, ShellsTyped
<1>2. \A id \in Ids \ crossed' : id \in Ids \ crossed
  BY DEF CrossedGrows
<1>3. OneStart'
  BY <1>2 DEF InputInv, OneStart
<1>4. BindsYoungest'
  <2>1. ASSUME NEW c \in Conns, handler'[c].at = "bind"
        PROVE  /\ handler[c].at = "bind" /\ handler'[c].id = handler[c].id
               /\ handler'[c].shell = handler[c].shell
    BY <2>1 DEF Starting
  <2>2. QED
    BY <1>1, <1>2, <2>1 DEF InputInv, BindsYoungest
<1>5. InputToLatest'
  <2>1. ASSUME NEW id \in Ids \ crossed'
        PROVE  /\ \A k \in Bound(id)' : k <= input'[id]
               /\ input'[id] # 0 => shells'[input'[id]].id = id
    <3>1. Bound(id)' = Bound(id)
      BY DEF Bound
    <3>2. input[id] # 0 => input[id] \in DOMAIN shells
      BY <1>1, <2>1
    <3>3. id \in Ids \ crossed
      BY <1>2, <2>1
    <3>4. /\ \A k \in Bound(id) : k <= input[id]
          /\ input[id] # 0 => shells[input[id]].id = id
      BY <3>3 DEF InputInv, InputToLatest
    <3>5. QED
      BY <3>1, <3>2, <3>4
  <2>2. QED
    BY <2>1 DEF InputToLatest
<1>6. QED
  BY <1>3, <1>4, <1>5 DEF InputInv

\* A start that begins for a console of which no other start is in progress.
LEMMA InputBeginStart ==
    ASSUME TypeInv, InputInv, NEW c \in Conns, NEW id \in Ids,
           BeginStart(c, id)
    PROVE  InputInv'
<1>1. handler \in [Conns -> Handler] /\ handler[c].at = "idle"
  BY TypeByParts DEF TypeInv, BeginStart, Takes
<1>2. /\ handler'[c] = [at |-> "create", id |-> id, shell |-> 0,
                        disturbed |-> FALSE]
      /\ \A d \in Conns \ {c} : handler'[d] = handler[d]
  BY <1>1, NextHandler DEF BeginStart
<1>3. handler'[c].at = "create" /\ handler'[c].id = id
  BY <1>2
<1>4. UNCHANGED <<shells, input>>
  BY DEF BeginStart
<1>5. /\ crossed \subseteq crossed'
      /\ id \notin crossed' => \A d \in Conns \ {c} :
                                  ~(handler[d].at \in Starting /\ handler[d].id = id)
  BY DEF BeginStart
<1>6. OneStart'
  <2>1. ASSUME NEW i \in Ids \ crossed', NEW d \in Conns, NEW e \in Conns,
               handler'[d].at \in Starting, handler'[d].id = i,
               handler'[e].at \in Starting, handler'[e].id = i
        PROVE  d = e
    <3>1. CASE d = c /\ e # c
      BY <1>2, <1>3, <1>5, <2>1, <3>1
    <3>2. CASE d # c /\ e = c
      BY <1>2, <1>3, <1>5, <2>1, <3>2
    <3>3. CASE d # c /\ e # c
      BY <1>2, <1>5, <2>1, <3>3 DEF InputInv, OneStart
    <3>4. QED
      BY <3>1, <3>2, <3>3
  <2>2. QED
    BY <2>1 DEF OneStart
<1>7. \A d \in Conns : handler'[d].at = "bind" => handler'[d] = handler[d]
  BY <1>2, <1>3
<1>8. BindsYoungest'
  BY <1>4, <1>5, <1>7 DEF InputInv, BindsYoungest
<1>9. InputToLatest'
  <2>1. \A i \in Ids : Bound(i)' = Bound(i)
    BY <1>1, <1>2, <1>3, <1>4 DEF Bound
  <2>2. QED
    BY <1>4, <1>5, <2>1 DEF InputInv, InputToLatest
<1>10. QED
  BY <1>6, <1>8, <1>9 DEF InputInv

\* A start that gets its shell, the youngest of all.
LEMMA InputSpawn ==
    ASSUME TypeInv, InputInv, NEW c \in Conns, Spawn(c),
           handler'[c].at = "bind", handler'[c].id = handler[c].id,
           handler'[c].shell = Len(shells) + 1,
           shells' \in Seq(Shell), Len(shells') = Len(shells) + 1,
           \A k \in 1..Len(shells) : shells'[k] = shells[k],
           shells'[Len(shells) + 1].id = handler[c].id,
           \A d \in Conns \ {c} : handler'[d] = handler[d]
    PROVE  InputInv'
<1>1. /\ Len(shells) \in Nat /\ DOMAIN shells = 1..Len(shells)
      /\ input \in [Ids -> 0..Len(shells)] /\ AtWork
  BY TypeByParts DEF TypeInv, ShellsTyped
<1>2. /\ DOMAIN shells' = 1..Len(shells')
      /\ 1..Len(shells') = 1..Len(shells) \cup {Len(shells) + 1}
  BY <1>1, LenProperties
<1>3. UNCHANGED <<input, crossed>> /\ handler[c].at = "spawn"
  BY DEF Spawn
<1>4. handler[c].at \in Starting
  BY <1>3 DEF Starting
<1>5. OneStart'
  BY <1>3, <1>4 DEF InputInv, OneStart
<1>6. BindsYoungest'
  <2>1. ASSUME NEW id \in Ids \ crossed, NEW d \in Conns, NEW k \in 1..Len(shells'),
               handler'[d].at = "bind", handler'[d].id = id, shells'[k].id = id
        PROVE  k <= handler'[d].shell
    <3>1. CASE d = c
      BY <1>1, <1>2, <3>1
    <3>2. CASE d # c /\ k \in 1..Len(shells)
      BY <2>1, <3>2 DEF InputInv, BindsYoungest
    <3>3. CASE d # c /\ k = Len(shells) + 1
      <4>1. handler[d].at \in Starting /\ handler[d].id = id /\ handler[c].id = id
        BY <2>1, <3>3 DEF Starting
      <4>2. QED
        BY <1>4, <3>3, <4>1 DEF InputInv, OneStart
    <3>4. QED
      BY <1>2, <3>1, <3>2, <3>3
  <2>2. QED
    BY <1>3, <2>1 DEF BindsYoungest
<1>7. InputToLatest'
  <2>1. ASSUME NEW id \in Ids \ crossed
        PROVE  /\ \A k \in Bound(id)' : k <= input[id]
               /\ input[id] # 0 => shells'[input[id]].id = id
    <3>1. Bound(id)' \subseteq Bound(id)
      <4>1. ASSUME NEW k \in Bound(id)' PROVE k \in Bound(id)
        <5>1. /\ k \in 1..Len(shells') /\ shells'[k].id = id
              /\ \A d \in Conns : handler'[d].at = "bind" => handler'[d].shell # k
          BY <1>2, <4>1 DEF Bound
        <5>2. k \in 1..Len(shells)
          BY <1>2, <5>1
        <5>3. \A d \in Conns : handler[d].at = "bind" => handler[d].shell # k
          BY <1>3, <5>1
        <5>4. QED
          BY <1>1, <5>1, <5>2, <5>3 DEF Bound
      <4>2. QED
        BY <4>1
    <3>2. /\ \A k \in Bound(id) : k <= input[id]
          /\ input[id] # 0 => shells[input[id]].id = id
      BY <2>1 DEF InputInv, InputToLatest
    <3>3. input[id] # 0 => input[id] \in 1..Len(shells)
      BY <1>1, <2>1
    <3>4. QED
      BY <3>1, <3>2, <3>3
  <2>2. QED
    BY <1>3, <2>1 DEF InputToLatest
<1>8. QED
  BY <1>5, <1>6, <1>7 DEF InputInv

\* A start that is over: its shell gets the input.
LEMMA InputBind ==
    ASSUME TypeInv, InputInv, NEW c \in Conns, Bind(c)
    PROVE  InputInv'
<1>1. /\ Len(shells) \in Nat /\ DOMAIN shells = 1..Len(shells)
      /\ input \in [Ids -> 0..Len(shells)] /\ AtWork
      /\ handler \in [Conns -> Handler]
  BY TypeByParts DEF TypeInv, ShellsTyped
<1>2. /\ handler[c].at = "bind" /\ Idle(c)
      /\ input' = [input EXCEPT ![handler[c].id] = handler[c].shell]
      /\ UNCHANGED <<shells, crossed>>
  BY DEF Bind
<1>3. /\ handler[c].id \in Ids /\ handler[c].shell \in 1..Len(shells)
      /\ shells[handler[c].shell].id = handler[c].id
  BY <1>1, <1>2 DEF AtWork
<1>4. /\ handler'[c].at = "idle"
      /\ \A d \in Conns \ {c} : handler'[d] = handler[d]
  BY <1>1, <1>2, NextHandler DEF NoId
<1>5. handler'[c].at \notin Starting
  BY <1>4 DEF Starting
<1>6. OneStart'
  BY <1>2, <1>4, <1>5 DEF InputInv, OneStart
<1>7. BindsYoungest'
  BY <1>2, <1>4 DEF InputInv, BindsYoungest
<1>8. /\ input'[handler[c].id] = handler[c].shell
      /\ \A id \in Ids \ {handler[c].id} : input'[id] = input[id]
  BY <1>1, <1>2, <1>3
<1>9. InputToLatest'
  <2>1. ASSUME NEW id \in Ids \ crossed, id = handler[c].id
        PROVE  /\ \A k \in Bound(id)' : k <= input'[id]
               /\ input'[id] # 0 => shells'[input'[id]].id = id
    <3>1. \A k \in Bound(id)' : k \in 1..Len(shells) /\ shells[k].id = id
      BY <1>1, <1>2 DEF Bound
    <3>2. \A k \in 1..Len(shells) : shells[k].id = id => k <= handler[c].shell
      BY <1>2, <2>1 DEF InputInv, BindsYoungest
    <3>3. QED
      BY <1>2, <1>3, <1>8, <2>1, <3>1, <3>2
  <2>2. ASSUME NEW id \in Ids \ crossed, id # handler[c].id
        PROVE  /\ \A k \in Bound(id)' : k <= input'[id]
               /\ input'[id] # 0 => shells'[input'[id]].id = id
    <3>1. Bound(id)' \subseteq Bound(id)
      <4>1. ASSUME NEW k \in Bound(id)' PROVE k \in Bound(id)
        <5>1. /\ k \in DOMAIN shells /\ shells[k].id = id
              /\ \A d \in Conns : handler'[d].at = "bind" => handler'[d].shell # k
          BY <1>2, <4>1 DEF Bound
        <5>2. \A d \in Conns \ {c} : handler[d].at = "bind" => handler[d].shell # k
          BY <1>4, <5>1
        <5>3. handler[c].shell # k
          BY <1>3, <2>2, <5>1
        <5>4. QED
          BY <5>1, <5>2, <5>3 DEF Bound
      <4>2. QED
        BY <4>1
    <3>2. /\ \A k \in Bound(id) : k <= input[id]
          /\ input[id] # 0 => shells[input[id]].id = id
      BY <2>2 DEF InputInv, InputToLatest
    <3>3. QED
      BY <1>2, <1>8, <2>2, <3>1, <3>2
  <2>3. QED
    BY <1>2, <2>1, <2>2 DEF InputToLatest
<1>10. QED
  BY <1>6, <1>7, <1>9 DEF InputInv

\* Every step of an event keeps the input invariant.
LEMMA InputEvent ==
    ASSUME TypeInv, InputInv, NEW c \in Conns, Event(c)
    PROVE  InputInv'
<1>1. handler \in [Conns -> Handler]
  BY TypeByParts DEF TypeInv
<1>2. ASSUME NEW id \in Ids, BeginStart(c, id) PROVE InputInv'
  BY <1>2, InputBeginStart
<1>3. CASE Bind(c)
  BY <1>3, InputBind
<1>4. ASSUME \A d \in Conns \ {c} : handler'[d] = handler[d],
             handler[c].at # "bind", handler'[c].at # "bind",
             handler'[c].at \in Starting =>
                handler[c].at \in Starting /\ handler'[c].id = handler[c].id,
             UNCHANGED <<shells, input, crossed>>
      PROVE  InputInv'
  <2>1. CrossedGrows
    BY <1>4 DEF CrossedGrows
  <2>2. \A d \in Conns :
          /\ handler'[d].at \in Starting =>
                handler[d].at \in Starting /\ handler'[d].id = handler[d].id
          /\ handler[d].at = "bind" <=> handler'[d].at = "bind"
          /\ handler[d].at = "bind" => handler'[d].shell = handler[d].shell
    BY <1>4
  <2>3. /\ DOMAIN shells' = DOMAIN shells /\ Len(shells') = Len(shells)
        /\ \A k \in DOMAIN shells : shells'[k].id = shells[k].id
        /\ input' = input
    BY <1>4
  <2>4. QED
    BY <2>1, <2>2, <2>3, InputKept
<1>5. ASSUME NEW id \in Ids, BeginCreate(c, id) \/ BeginStop(c, id)
      PROVE  InputInv'
  <2>1. PICK at \in {"insert", "delete"} : Handling(c, at, id)
    BY <1>5 DEF BeginCreate, BeginStop
  <2>2. /\ handler'[c] = [at |-> at, id |-> id, shell |-> 0,
                          disturbed |-> FALSE]
        /\ \A d \in Conns \ {c} : handler'[d] = handler[d]
    BY <1>1, <2>1, NextHandler
  <2>3. handler'[c].at # "bind" /\ handler'[c].at \notin Starting
    BY <2>2 DEF Starting
  <2>4. handler[c].at # "bind" /\ UNCHANGED <<shells, input, crossed>>
    BY <1>5 DEF BeginCreate, BeginStop, Takes, shellVars
  <2>5. QED
    BY <1>4, <2>2, <2>3, <2>4
<1>6. CASE Insert(c) \/ Delete(c)
  <2>1. Idle(c) /\ handler[c].at # "bind" /\ UNCHANGED <<shells, input, crossed>>
    BY <1>6 DEF Insert, Delete, shellVars
  <2>2. /\ handler'[c].at = "idle"
        /\ \A d \in Conns \ {c} : handler'[d] = handler[d]
    BY <1>1, <2>1, NextHandler DEF NoId
  <2>3. handler'[c].at # "bind" /\ handler'[c].at \notin Starting
    BY <2>2 DEF Starting
  <2>4. QED
    BY <1>4, <2>1, <2>2, <2>3
<1>7. CASE CreateFile(c)
  <2>1. /\ handler'[c].at \in {"write", "spawn"} /\ handler'[c].id = handler[c].id
        /\ \A d \in Conns \ {c} : /\ handler'[d].at = handler[d].at
                                  /\ handler'[d].id = handler[d].id
                                  /\ handler'[d].shell = handler[d].shell
    BY <1>7, CreateFileStep
  <2>2. /\ shells' \in Seq(Shell) /\ Len(shells') = Len(shells)
        /\ \A k \in 1..Len(shells) : shells'[k].id = shells[k].id
    BY <1>7, CreateFileStep
  <2>3. DOMAIN shells = 1..Len(shells) /\ DOMAIN shells' = 1..Len(shells)
    BY <2>2, TypeByParts, LenProperties DEF TypeInv, ShellsTyped
  <2>4. /\ handler[c].at = "create" /\ CrossedGrows /\ input' = input
    BY <1>7 DEF CreateFile, CrossedGrows
  <2>5. \A d \in Conns :
          /\ handler'[d].at \in Starting =>
                handler[d].at \in Starting /\ handler'[d].id = handler[d].id
          /\ handler[d].at = "bind" <=> handler'[d].at = "bind"
          /\ handler[d].at = "bind" => handler'[d].shell = handler[d].shell
    BY <2>1, <2>4 DEF Starting
  <2>6. \A k \in DOMAIN shells : shells'[k].id = shells[k].id
    BY <2>2, <2>3
  <2>7. QED
    BY <2>2, <2>3, <2>4, <2>5, <2>6, InputKept
<1>8. CASE WriteFile(c)
  <2>1. /\ handler'[c].at = "spawn" /\ handler'[c].id = handler[c].id
        /\ \A d \in Conns \ {c} : handler'[d] = handler[d]
    BY <1>8, WriteFileStep
  <2>2. handler[c].at = "write" /\ UNCHANGED <<shells, input, crossed>>
    BY <1>8 DEF WriteFile
  <2>3. handler[c].at \in Starting /\ handler[c].at # "bind" /\ handler'[c].at # "bind"
    BY <2>1, <2>2 DEF Starting
  <2>4. QED
    BY <1>4, <2>1, <2>2, <2>3
<1>9. CASE Spawn(c)
  <2>1. \A d \in Conns \ {c} : handler'[d] = handler[d]
    BY <1>9, SpawnStep
  <2>2. CASE handler'[c] = NoId /\ shells' = shells
    <3>1. handler[c].at # "bind" /\ UNCHANGED <<shells, input, crossed>>
      BY <1>9, <2>2 DEF Spawn
    <3>2. handler'[c].at # "bind" /\ handler'[c].at \notin Starting
      BY <2>2 DEF NoId, Starting
    <3>3. QED
      BY <1>4, <2>1, <3>1, <3>2
  <2>3. CASE handler'[c] # NoId \/ shells' # shells
    BY <1>9, <2>1, <2>3, SpawnStep, InputSpawn
  <2>4. QED
    BY <2>2, <2>3
<1>10. QED
  BY <1>2, <1>3, <1>5, <1>6, <1>7, <1>8, <1>9 DEF Event

\* Every step keeps the input invariant.
LEMMA InputStep ==
    TypeInv /\ InputInv /\ [Next]_vars => InputInv'
<1> SUFFICES ASSUME TypeInv, InputInv, [Next]_vars PROVE InputInv'
  OBVIOUS
<1>1. ASSUME UNCHANGED <<handler, input, crossed>>,
             DOMAIN shells' = DOMAIN shells, Len(shells') = Len(shells),
             \A k \in DOMAIN shells : shells'[k].id = shells[k].id
      PROVE  InputInv'
  <2>1. CrossedGrows
    BY <1>1 DEF CrossedGrows
  <2>2. QED
    BY <1>1, <2>1, InputKept
<1>2. ASSUME NEW c \in Conns, Leave(c) PROVE InputInv'
  <2>1. UNCHANGED <<handler, shells, input, crossed>>
    BY <1>2 DEF Leave, Disconnect, FindIds, RemoveId, Gone, shellVars
  <2>2. QED
    BY <1>1, <2>1
<1>3. CASE DetectRace \/ UNCHANGED vars
  <2>1. UNCHANGED <<handler, shells, input, crossed>>
    BY <1>3 DEF DetectRace, shellVars, vars
  <2>2. QED
    BY <1>1, <2>1
<1>4. ASSUME NEW k \in DOMAIN shells, Boot(k) \/ Exit(k) PROVE InputInv'
  <2>1. /\ shells' \in Seq(Shell) /\ Len(shells') = Len(shells)
        /\ \A j \in 1..Len(shells) : shells'[j].id = shells[j].id
    BY <1>4, ShellStep
  <2>2. DOMAIN shells = 1..Len(shells) /\ DOMAIN shells' = 1..Len(shells)
    BY <2>1, TypeByParts, LenProperties DEF TypeInv, ShellsTyped
  <2>3. UNCHANGED <<handler, input, crossed>>
    BY <1>4 DEF Boot, Exit
  <2>4. QED
    BY <1>1, <2>1, <2>2, <2>3
<1>5. QED
  BY <1>2, <1>3, <1>4, InputEvent DEF Next

(* What is typed into a console goes to its youngest shell, however many   *)
(* connections start shells and type in it, unless two starts overlapped.  *)
THEOREM InputGoesToLatest == Spec => []InputToLatest
<1>1. Init => InputInv
  <2> SUFFICES ASSUME Init PROVE InputInv
    OBVIOUS
  <2>1. \A c \in Conns : handler[c].at = "idle"
    BY DEF Init, NoId
  <2>2. /\ shells = <<>> /\ DOMAIN shells = {} /\ Len(shells) = 0
        /\ \A id \in Ids : input[id] = 0
    BY DEF Init
  <2>3. OneStart /\ BindsYoungest
    BY <2>1 DEF OneStart, BindsYoungest, Starting
  <2>4. InputToLatest
    BY <2>2 DEF InputToLatest, Bound
  <2>5. QED
    BY <2>3, <2>4 DEF InputInv
<1>2. InputInv => InputToLatest
  BY DEF InputInv
<1>3. QED
  BY <1>1, <1>2, TypeInvInit, TypeInvStep, InputStep, PTL DEF Spec

=============================================================================
