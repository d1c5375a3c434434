------------------------ MODULE LauncherAgentProofs ------------------------
(***************************************************************************)
(* Proofs about LauncherAgent, for every set of requests, every capacity   *)
(* of a channel and every bound on the number of statuses.                 *)
(***************************************************************************)
EXTENDS LauncherAgent, SequenceTheorems, WellFoundedInduction, TLAPS

-----------------------------------------------------------------------------
(* Slices.                                                                 *)

\* What a cell of an array holds.
Cells == Clients \cup {Nil}

IsMem(m) == m \in Seq(Seq(Cells))

\* A slice of the memory m.
IsSlice(m, s) ==
    s \in [array : 0..Len(m), len : Nat] /\ s.len <= Capacity(m, s)

\* Arrays stay where they are and keep their length; others may be added.
Grows(m, n) ==
    /\ Len(m) <= Len(n)
    /\ \A a \in 1..Len(m) : Len(n[a]) = Len(m[a])

\* The cells of a slice are cells of its array.
LEMMA CellsOfSlice ==
    ASSUME NEW m, IsMem(m), NEW s, IsSlice(m, s)
    PROVE  \A i \in 1..s.len : /\ s.array \in 1..Len(m)
                               /\ i \in 1..Len(m[s.array])
                               /\ Elem(m, s, i) \in Cells
BY DEF IsMem, IsSlice, Capacity, Elem

\* A slice stays a slice when the memory grows.
LEMMA SliceOfGrown ==
    ASSUME NEW m, NEW n, Grows(m, n), Len(m) \in Nat, Len(n) \in Nat,
           NEW s, IsSlice(m, s)
    PROVE  IsSlice(n, s)
BY DEF IsSlice, Capacity, Grows

\* An append in place writes the cell after the slice and no other.
LEMMA AppendedInPlace ==
    ASSUME NEW m, IsMem(m), NEW s, IsSlice(m, s), NEW x \in Cells,
           HasRoom(m, s), NEW n, n = MemAppended(m, s, x)
    PROVE  /\ IsMem(n)
           /\ Len(n) = Len(m)
           /\ \A a \in 1..Len(m) : Len(n[a]) = Len(m[a])
           /\ n[s.array][s.len + 1] = x
           /\ \A a \in 1..Len(m) : \A i \in 1..Len(m[a]) :
                a # s.array \/ i # s.len + 1 => n[a][i] = m[a][i]
<1>0. m \in Seq(Seq(Cells))
  BY DEF IsMem
<1>1. /\ s.array \in 1..Len(m)
      /\ s.len \in Nat
      /\ s.len + 1 \in 1..Len(m[s.array])
  BY <1>0 DEF IsSlice, Capacity, HasRoom
<1>2. m[s.array] \in Seq(Cells)
  BY <1>0, <1>1
<1> DEFINE row == [m[s.array] EXCEPT ![s.len + 1] = x]
<1>3. /\ row \in Seq(Cells)
      /\ Len(row) = Len(m[s.array])
      /\ \A i \in 1..Len(m[s.array]) :
           row[i] = IF i = s.len + 1 THEN x ELSE m[s.array][i]
  BY <1>1, <1>2
<1>4. n = [m EXCEPT ![s.array] = row]
  BY DEF MemAppended
<1> HIDE DEF row
<1>5. QED
  BY <1>0, <1>1, <1>3, <1>4 DEF IsMem

\* An append out of place copies the slice to a new array.
LEMMA AppendedElsewhere ==
    ASSUME NEW m, IsMem(m), NEW s, IsSlice(m, s), NEW x \in Cells,
           ~HasRoom(m, s), NEW n, n = MemAppended(m, s, x)
    PROVE  /\ IsMem(n)
           /\ Len(n) = Len(m) + 1
           /\ \A a \in 1..Len(m) : n[a] = m[a]
           /\ Len(n[Len(m) + 1]) >= s.len + 1
           /\ \A i \in 1..s.len :
                n[Len(m) + 1][i] = Elem(m, s, i)
           /\ n[Len(m) + 1][s.len + 1] = x
<1> DEFINE cap == IF s.len = 0 THEN 1 ELSE 2 * s.len
           row == [i \in 1..cap |-> IF i <= s.len THEN Elem(m, s, i)
                                    ELSE IF i = s.len + 1 THEN x ELSE Nil]
<1>0. m \in Seq(Seq(Cells)) /\ Nil \in Cells
  BY DEF IsMem, Cells
<1>1. s.len \in Nat /\ cap \in Nat /\ s.len + 1 <= cap
  BY DEF IsSlice
<1>2. \A i \in 1..s.len : Elem(m, s, i) \in Cells
  BY CellsOfSlice
<1> HIDE DEF cap
<1>3. row \in [1..cap -> Cells]
  BY <1>0, <1>1, <1>2
<1>4. \A i \in 1..cap : row[i] = IF i <= s.len THEN Elem(m, s, i)
                                ELSE IF i = s.len + 1 THEN x ELSE Nil
  OBVIOUS
<1>5. n = Append(m, row)
  BY DEF MemAppended, cap
<1> HIDE DEF row
<1>6. row \in Seq(Cells) /\ Len(row) = cap
  BY <1>1, <1>3, SeqDef
<1>7. /\ \A i \in 1..s.len : row[i] = Elem(m, s, i)
      /\ row[s.len + 1] = x
  BY <1>1, <1>4
<1>8. QED
  BY <1>0, <1>1, <1>5, <1>6, <1>7 DEF IsMem

\* What append returns: the elements of the slice and one more.  Cells that
\* are not behind the slice in its own array keep what they hold.
LEMMA AppendedSlice ==
    ASSUME NEW m, IsMem(m), NEW s, IsSlice(m, s), NEW x \in Cells,
           NEW n, n = MemAppended(m, s, x), NEW t, t = Appended(m, s, x)
    PROVE  /\ IsMem(n)
           /\ Grows(m, n)
           /\ IsSlice(n, t)
           /\ t.len = s.len + 1
           /\ t.array = s.array \/ t.array = Len(m) + 1
           /\ \A i \in 1..s.len : Elem(n, t, i) = Elem(m, s, i)
           /\ Elem(n, t, t.len) = x
           /\ \A a \in 1..Len(m) : \A i \in 1..Len(m[a]) :
                a # s.array \/ i <= s.len => n[a][i] = m[a][i]
<1>1. /\ s.len \in Nat /\ s.array \in 0..Len(m) /\ Len(m) \in Nat
      /\ m \in Seq(Seq(Cells))
  BY DEF IsSlice, IsMem
<1>2. CASE HasRoom(m, s)
  <2>1. t.array = s.array /\ t.len = s.len + 1
        /\ t = [array |-> s.array, len |-> s.len + 1]
    BY <1>2 DEF Appended
  <2>2. /\ s.array \in 1..Len(m)
        /\ Len(m[s.array]) \in Nat
        /\ s.len + 1 \in 1..Len(m[s.array])
        /\ \A i \in 1..s.len : i \in 1..Len(m[s.array]) /\ i # s.len + 1
    BY <1>1, <1>2 DEF HasRoom, Capacity
  <2>3. /\ IsMem(n)
        /\ Len(n) = Len(m)
        /\ \A a \in 1..Len(m) : Len(n[a]) = Len(m[a])
        /\ n[s.array][s.len + 1] = x
        /\ \A a \in 1..Len(m) : \A i \in 1..Len(m[a]) :
             a # s.array \/ i # s.len + 1 => n[a][i] = m[a][i]
    BY <1>2, AppendedInPlace, SMT
  <2>4. IsSlice(n, t)
    BY <1>1, <2>1, <2>2, <2>3 DEF IsSlice, Capacity
  <2>5. \A i \in 1..s.len : Elem(n, t, i) = Elem(m, s, i)
    BY <1>1, <2>1, <2>2, <2>3 DEF Elem
  <2>6. Elem(n, t, t.len) = x
    BY <1>1, <2>1, <2>2, <2>3 DEF Elem
  <2>7. QED
    BY <1>1, <2>1, <2>2, <2>3, <2>4, <2>5, <2>6 DEF Grows
<1>3. CASE ~HasRoom(m, s)
  <2>1. t.array = Len(m) + 1 /\ t.len = s.len + 1
        /\ t = [array |-> Len(m) + 1, len |-> s.len + 1]
    BY <1>3 DEF Appended
  <2>2. /\ IsMem(n)
        /\ Len(n) = Len(m) + 1
        /\ \A a \in 1..Len(m) : n[a] = m[a]
        /\ Len(n[Len(m) + 1]) >= s.len + 1
        /\ \A i \in 1..s.len : n[Len(m) + 1][i] = Elem(m, s, i)
        /\ n[Len(m) + 1][s.len + 1] = x
    BY <1>3, AppendedElsewhere, SMT
  <2>3. IsSlice(n, t)
    BY <1>1, <2>1, <2>2 DEF IsSlice, Capacity
  <2>4. QED
    BY <1>1, <2>1, <2>2, <2>3 DEF Grows, Elem
<1>4. QED
  BY <1>2, <1>3

\* What a removal leaves: the elements but the one at i, which is not the
\* last, in their order.  Other arrays keep what they hold.
LEMMA RemovedSlice ==
    ASSUME NEW m, IsMem(m), NEW s, IsSlice(m, s),
           NEW i \in 1..(s.len - 1), NEW n, n = MemRemoved(m, s, i)
    PROVE  /\ IsMem(n)
           /\ Len(n) = Len(m)
           /\ Grows(m, n)
           /\ \A j \in 1..Len(m[s.array]) :
                n[s.array][j] = IF j \in i..(s.len - 1) THEN m[s.array][j + 1]
                                ELSE m[s.array][j]
           /\ \A a \in 1..Len(m) : a # s.array => n[a] = m[a]
<1>0. m \in Seq(Seq(Cells))
  BY DEF IsMem
<1>1. /\ s.len \in Nat /\ s.array \in 1..Len(m) /\ s.len <= Len(m[s.array])
      /\ m[s.array] \in Seq(Cells)
  BY <1>0 DEF IsSlice, Capacity
<1> DEFINE old == m[s.array]
           row == [j \in DOMAIN old |-> IF j \in i..(s.len - 1) THEN old[j + 1]
                                        ELSE old[j]]
<1>2. n = [m EXCEPT ![s.array] = row]
  BY DEF MemRemoved
<1>3. old \in Seq(Cells) /\ DOMAIN old = 1..Len(old) /\ Len(old) \in Nat
      /\ s.len <= Len(old)
  BY <1>1
<1> HIDE DEF old
<1>4. \A j \in 1..Len(old) : j \in i..(s.len - 1) => j + 1 \in 1..Len(old)
  BY <1>1, <1>3
<1>5. row \in [1..Len(old) -> Cells]
  BY <1>3, <1>4
<1>6. row \in Seq(Cells) /\ Len(row) = Len(old)
  BY <1>3, <1>5, SeqDef
<1>7. \A j \in 1..Len(old) :
        row[j] = IF j \in i..(s.len - 1) THEN old[j + 1] ELSE old[j]
  BY <1>1, <1>3
<1> HIDE DEF row
<1>8. IsMem(n) /\ Len(n) = Len(m)
      /\ \A a \in 1..Len(m) : n[a] = IF a = s.array THEN row ELSE m[a]
  BY <1>0, <1>1, <1>2, <1>6 DEF IsMem
<1>9. Grows(m, n)
  <2>1. \A a \in 1..Len(m) : Len(n[a]) = Len(m[a])
    BY <1>6, <1>8 DEF old
  <2>2. QED
    BY <1>8, <2>1 DEF Grows
<1>10. \A j \in 1..Len(m[s.array]) :
         n[s.array][j] = IF j \in i..(s.len - 1) THEN m[s.array][j + 1]
                         ELSE m[s.array][j]
  BY <1>1, <1>7, <1>8 DEF old
<1>11. QED
  BY <1>8, <1>9, <1>10

-----------------------------------------------------------------------------
(* The type invariant, part by part.                                       *)

Header == [array : Nat, len : Nat]

Places == {"idle", "append", "copy", "replay", "stream", "stalled", "cancel",
           "remove", "store", "gone"}

ClientRecord == [at : Places, base : Header, found : Nat, copied : Nat]

EmitterRecord == [at : {"start", "scan", "range", "send"},
                  view : Header, next : Nat \ {0}]

MemType == IsMem(mem) /\ IsSlice(mem, listeners)

EmitterType ==
    /\ emitter \in EmitterRecord
    /\ IsSlice(mem, emitter.view)
    /\ emitter.at \in {"range", "send"} => 1 <= Len(statusHistory)

ClientType ==
    /\ client \in [Clients -> ClientRecord]
    /\ \A c \in Clients :
         /\ IsSlice(mem, client[c].base)
         /\ client[c].at = "store" => IsSlice(mem, Shortened(c))
         /\ client[c].copied <= Len(statusHistory)

StreamType ==
    /\ statusHistory \in Seq(Statuses)
    /\ chan \in [Clients -> Seq(1..Len(statusHistory))]
    /\ written \in [Clients -> Seq(1..Len(statusHistory))]

\* A request and a status that has been emitted.
Pairs == Clients \X (1..Len(statusHistory))

PlainType ==
    /\ state \in {"", "attached", "setup"}
    /\ raced \in BOOLEAN
    /\ skipped \subseteq Pairs
    /\ doubled \subseteq Pairs

Typed == MemType /\ EmitterType /\ ClientType /\ StreamType /\ PlainType

\* A slice is a header within the memory.
LEMMA SliceIsHeader ==
    ASSUME NEW m, Len(m) \in Nat, NEW s, IsSlice(m, s)
    PROVE  s \in Header /\ s.array <= Len(m)
BY DEF IsSlice, Header

\* A header within the memory is a slice of it.
LEMMA HeaderIsSlice ==
    ASSUME NEW m, Len(m) \in Nat, NEW s \in Header, s.array <= Len(m),
           s.len <= Capacity(m, s)
    PROVE  IsSlice(m, s)
BY DEF IsSlice, Header

\* The slices of TypeOK are the slices of the memory.
LEMMA SlicesAre ==
    \A s : s \in Slices <=> IsSlice(mem, s)
BY DEF Slices, IsSlice

\* The parts give the type invariant.
LEMMA TypeByParts == Typed => TypeOK
<1>1. SUFFICES ASSUME Typed PROVE TypeOK
  OBVIOUS
<1>2. mem \in Seq(Seq(Clients \cup {Nil})) /\ listeners \in Slices
  BY <1>1, SlicesAre DEF Typed, MemType, IsMem, Cells
<1>3. emitter \in [at : {"start", "scan", "range", "send"},
                   view : Slices, next : Nat \ {0}]
  BY <1>1, SlicesAre DEF Typed, EmitterType, EmitterRecord
<1>4. ASSUME NEW c \in Clients
      PROVE  client[c] \in [at : Places, base : Slices, found : Nat,
                            copied : 0..Len(statusHistory)]
  BY <1>1, SlicesAre DEF Typed, ClientType, ClientRecord, StreamType
<1>5. client \in [Clients -> [at : Places, base : Slices, found : Nat,
                              copied : 0..Len(statusHistory)]]
  BY <1>1, <1>4 DEF Typed, ClientType
<1>6. QED
  BY <1>1, <1>2, <1>3, <1>5
     DEF TypeOK, Typed, StreamType, PlainType, Pairs, Places

-----------------------------------------------------------------------------
(* What a step changes, without EXCEPT.                                    *)

\* A set of numbers has a least one.
LEMMA LeastExists ==
    ASSUME NEW S, S \subseteq Nat, S # {}
    PROVE  \E i \in S : \A j \in S : i <= j
<1>1. PICK i \in S : \A j \in S : ~(<<j, i>> \in OpToRel(<, Nat))
  BY NatLessThanWellFounded, WFMin
<1>2. ASSUME NEW j \in S, j < i PROVE FALSE
  <2>1. <<j, i>> \in Nat \X Nat /\ <<j, i>>[1] < <<j, i>>[2]
    BY <1>2
  <2>2. <<j, i>> \in OpToRel(<, Nat)
    BY <2>1 DEF OpToRel
  <2>3. QED
    BY <1>1, <2>2
<1>3. QED
  BY <1>2

\* The record of c is the only one that changes.
Only(c) == \A d \in Clients \ {c} : client'[d] = client[d]

\* Goto moves c and changes nothing else of it.
LEMMA GotoClient ==
    ASSUME client \in [Clients -> ClientRecord], NEW c \in Clients,
           NEW at \in Places, Goto(c, at)
    PROVE  /\ client' \in [Clients -> ClientRecord]
           /\ Only(c)
           /\ client'[c].at = at
           /\ client'[c].base = client[c].base
           /\ client'[c].found = client[c].found
           /\ client'[c].copied = client[c].copied
<1>1. client[c] \in ClientRecord
  OBVIOUS
<1>2. client' = [client EXCEPT ![c].at = at]
  BY DEF Goto
<1>3. client'[c] = [client[c] EXCEPT !.at = at]
  BY <1>2
<1>4. client' = [client EXCEPT ![c] = client'[c]]
  BY <1>2, <1>3
<1>5. client'[c] \in ClientRecord
  BY <1>1, <1>3 DEF ClientRecord
<1>6. QED
  BY <1>1, <1>3, <1>4, <1>5 DEF ClientRecord, Only

\* After its update c remembers nothing of the slice.
LEMMA UpdatedClient ==
    ASSUME client \in [Clients -> ClientRecord], NEW c \in Clients,
           NEW at \in Places, Updated(c, at)
    PROVE  /\ client' \in [Clients -> ClientRecord]
           /\ Only(c)
           /\ client'[c].at = at
           /\ client'[c].base = EmptySlice
           /\ client'[c].copied = client[c].copied
<1>1. client[c] \in ClientRecord
  OBVIOUS
<1>2. client' = [client EXCEPT ![c].at = at, ![c].base = EmptySlice,
                               ![c].found = 0]
  BY DEF Updated
<1>3. client'[c] = [client[c] EXCEPT !.at = at, !.base = EmptySlice,
                                     !.found = 0]
  BY <1>2
<1>4. client' = [client EXCEPT ![c] = client'[c]]
  BY <1>2, <1>3
<1>5. EmptySlice \in Header
  BY DEF EmptySlice, Header
<1> HIDE DEF EmptySlice
<1>5a. client'[c] = [at |-> at, base |-> EmptySlice, found |-> 0,
                     copied |-> client[c].copied]
  BY <1>1, <1>3 DEF ClientRecord
<1>6. client'[c] \in ClientRecord
  BY <1>1, <1>5, <1>5a DEF ClientRecord
<1>7. QED
  BY <1>1, <1>3, <1>4, <1>6 DEF ClientRecord, Only

\* A request that has read the slice to shorten it remembers it.
LEMMA MovedClient ==
    ASSUME client \in [Clients -> ClientRecord], NEW c \in Clients,
           listeners \in Header,
           client' = [client EXCEPT ![c].at = "store", ![c].base = listeners]
    PROVE  /\ client' \in [Clients -> ClientRecord]
           /\ Only(c)
           /\ client'[c].at = "store"
           /\ client'[c].base = listeners
           /\ client'[c].found = client[c].found
           /\ client'[c].copied = client[c].copied
<1>1. client[c] \in ClientRecord
  OBVIOUS
<1>2. client'[c] = [client[c] EXCEPT !.at = "store", !.base = listeners]
  OBVIOUS
<1>3. client' = [client EXCEPT ![c] = client'[c]]
  BY <1>2
<1>4. client'[c] \in ClientRecord
  BY <1>1, <1>2 DEF ClientRecord, Places
<1>5. QED
  BY <1>1, <1>2, <1>3, <1>4 DEF ClientRecord, Only

\* Subscribe remembers the slice it has read.
LEMMA SubscribeClient ==
    ASSUME client \in [Clients -> ClientRecord], NEW c \in Clients,
           Subscribe(c), listeners \in Header
    PROVE  /\ client' \in [Clients -> ClientRecord]
           /\ Only(c)
           /\ client'[c].at = "append"
           /\ client'[c].base = listeners
           /\ client'[c].found = client[c].found
           /\ client'[c].copied = client[c].copied
<1>1. client[c] \in ClientRecord
  OBVIOUS
<1>2. client' = [client EXCEPT ![c].at = "append", ![c].base = listeners]
  BY DEF Subscribe
<1>3. client'[c] = [client[c] EXCEPT !.at = "append", !.base = listeners]
  BY <1>2
<1>4. client' = [client EXCEPT ![c] = client'[c]]
  BY <1>2, <1>3
<1>5. client'[c] \in ClientRecord
  BY <1>1, <1>3 DEF ClientRecord, Places
<1>6. QED
  BY <1>1, <1>3, <1>4, <1>5 DEF ClientRecord, Only

\* CopyHistory remembers how long the history was.
LEMMA CopyHistoryClient ==
    ASSUME client \in [Clients -> ClientRecord], NEW c \in Clients,
           CopyHistory(c), Len(statusHistory) \in Nat
    PROVE  /\ client' \in [Clients -> ClientRecord]
           /\ Only(c)
           /\ client'[c].at = "replay"
           /\ client'[c].base = client[c].base
           /\ client'[c].copied = Len(statusHistory)
<1>1. client[c] \in ClientRecord
  OBVIOUS
<1>2. client' = [client EXCEPT ![c].at = "replay",
                               ![c].copied = Len(statusHistory)]
  BY DEF CopyHistory
<1>3. client'[c] = [client[c] EXCEPT !.at = "replay",
                                     !.copied = Len(statusHistory)]
  BY <1>2
<1>4. client' = [client EXCEPT ![c] = client'[c]]
  BY <1>2, <1>3
<1>5. client'[c] \in ClientRecord
  BY <1>1, <1>3 DEF ClientRecord, Places
<1>6. QED
  BY <1>1, <1>3, <1>4, <1>5 DEF ClientRecord, Only

\* A request that looks for its channel finds it, at a first place, or ends.
LEMMA FindListenerClient ==
    ASSUME client \in [Clients -> ClientRecord], NEW c \in Clients,
           FindListener(c), listeners \in Header
    PROVE  /\ client' \in [Clients -> ClientRecord]
           /\ Only(c)
           /\ client'[c].copied = client[c].copied
           /\ client'[c].base = client[c].base
           /\ \/ /\ client'[c].at = "gone"
                 /\ \A i \in 1..listeners.len : Elem(mem, listeners, i) # c
              \/ /\ client'[c].at = "remove"
                 /\ client'[c].found \in 1..listeners.len
                 /\ Elem(mem, listeners, client'[c].found) = c
<1> DEFINE found == {i \in 1..listeners.len : Elem(mem, listeners, i) = c}
           first == CHOOSE i \in found : \A j \in found : i <= j
<1>1. client[c] \in ClientRecord /\ listeners.len \in Nat
  BY DEF Header
<1>2. CASE found = {}
  <2>1. client' = [client EXCEPT ![c].at = "gone"]
    BY <1>2 DEF FindListener
  <2>2. client'[c] = [client[c] EXCEPT !.at = "gone"]
    BY <2>1
  <2>3. client' = [client EXCEPT ![c] = client'[c]]
    BY <2>1, <2>2
  <2>4. client'[c] \in ClientRecord
    BY <1>1, <2>2 DEF ClientRecord, Places
  <2>5. QED
    BY <1>1, <1>2, <2>2, <2>3, <2>4 DEF ClientRecord, Only
<1>3. CASE found # {}
  <2>1. first \in found
    <3>1. found \in SUBSET Nat
      BY <1>1
    <3>2. \E i \in found : \A j \in found : i <= j
      BY <1>3, <3>1, LeastExists
    <3>3. QED
      BY <3>2
  <2>2. client' = [client EXCEPT ![c].at = "remove", ![c].found = first]
    BY <1>3 DEF FindListener
  <2> HIDE DEF first
  <2>3. /\ first \in 1..listeners.len /\ first \in Nat
        /\ Elem(mem, listeners, first) = c
    BY <1>1, <2>1
  <2> HIDE DEF found
  <2>4. client'[c] = [client[c] EXCEPT !.at = "remove", !.found = first]
    BY <2>2
  <2>5. client' = [client EXCEPT ![c] = client'[c]]
    BY <2>2, <2>4
  <2>6. client'[c] \in ClientRecord
    <3>1. "remove" \in Places
      BY DEF Places
    <3> HIDE DEF found
    <3>2. QED
      BY <1>1, <2>3, <2>4, <3>1 DEF ClientRecord
  <2>7. /\ client'[c].at = "remove"
        /\ client'[c].base = client[c].base
        /\ client'[c].found = first
        /\ client'[c].copied = client[c].copied
    BY <1>1, <2>4 DEF ClientRecord
  <2>8. QED
    BY <2>3, <2>5, <2>6, <2>7 DEF Only
<1>4. QED
  BY <1>2, <1>3

-----------------------------------------------------------------------------
(* Every step keeps the types.                                             *)

\* Statuses of a history are statuses of a longer one.
LEMMA LongerHistory ==
    ASSUME NEW n \in Nat, NEW m \in Nat, n <= m, NEW s \in Seq(1..n)
    PROVE  s \in Seq(1..m)
OBVIOUS

\* The variables have their types in the beginning.
LEMMA InitTyped == Init => Typed
<1>1. SUFFICES ASSUME Init PROVE Typed
  OBVIOUS
<1>2. /\ mem = <<>> /\ listeners = EmptySlice /\ statusHistory = <<>>
      /\ state = "" /\ raced = FALSE /\ skipped = {} /\ doubled = {}
  BY <1>1 DEF Init
<1>2b. /\ emitter = [at |-> "start", view |-> EmptySlice, next |-> 1]
       /\ emitter.at = "start" /\ emitter.view = EmptySlice
  BY <1>1 DEF Init
<1>2c. Len(<<>>) = 0 /\ \A S : <<>> \in Seq(S)
  BY EmptySeq
<1>2a. /\ client = [c \in Clients |-> [at |-> "idle", base |-> EmptySlice,
                                        found |-> 0, copied |-> 0]]
       /\ chan = [c \in Clients |-> <<>>]
       /\ written = [c \in Clients |-> <<>>]
  BY <1>1 DEF Init
<1>3. EmptySlice \in Header /\ EmptySlice.array = 0 /\ EmptySlice.len = 0
  BY DEF EmptySlice, Header
<1>4. IsMem(mem) /\ Len(mem) = 0
  BY <1>2, <1>2c DEF IsMem
<1>5. IsSlice(mem, EmptySlice)
  BY <1>3, <1>4, HeaderIsSlice DEF Capacity
<1>6. MemType
  BY <1>2, <1>4, <1>5 DEF MemType
<1>7. EmitterType
  <2>1. emitter \in EmitterRecord
    BY <1>2b, <1>3 DEF EmitterRecord
  <2>2. QED
    BY <1>2b, <1>5, <2>1 DEF EmitterType
<1>8. ClientType
  <2>1. ASSUME NEW c \in Clients
        PROVE  client[c] \in ClientRecord /\ client[c].base = EmptySlice
               /\ client[c].copied = 0 /\ client[c].at = "idle"
    BY <1>2a, <1>3 DEF ClientRecord, Places
  <2>2. Len(statusHistory) = 0
    BY <1>2
  <2>3. QED
    BY <1>2a, <1>5, <2>1, <2>2 DEF ClientType
<1>9. StreamType /\ PlainType
  <2>1. statusHistory \in Seq(Statuses) /\ <<>> \in Seq(1..Len(statusHistory))
    BY <1>2, <1>2c
  <2>2. QED
    BY <1>2, <1>2a, <2>1 DEF StreamType, PlainType, Pairs
<1>10. QED
  BY <1>6, <1>7, <1>8, <1>9 DEF Typed

\* The emitter keeps the types.
LEMMA EmitterTyped == Typed /\ Emitter => Typed'
<1>1. SUFFICES ASSUME Typed, Emitter PROVE Typed'
  OBVIOUS
<1>2. /\ emitter \in EmitterRecord /\ IsSlice(mem, emitter.view)
      /\ emitter.at \in {"range", "send"} => 1 <= Len(statusHistory)
  BY <1>1 DEF Typed, EmitterType
<1>3. IsMem(mem) /\ IsSlice(mem, listeners) /\ Len(mem) \in Nat
  BY <1>1 DEF Typed, MemType, IsMem
<1>4. UNCHANGED <<mem, listeners, client, written, raced, skipped>>
  BY <1>1 DEF Emitter, Attach, StartRange, Send, EndRange, HandleLine, aux
<1>4a. \A c \in Clients : Shortened(c)' = Shortened(c)
  BY <1>4 DEF Shortened
<1>5. MemType'
  BY <1>3, <1>4 DEF MemType
<1>6. StreamType
  BY <1>1 DEF Typed
<1>7. CASE Attach \/ EndRange
  <2>1. EmitterType'
    BY <1>2, <1>4, <1>7 DEF Attach, EndRange, EmitterType, EmitterRecord
  <2>2. ClientType' /\ StreamType' /\ PlainType'
    BY <1>1, <1>4, <1>4a, <1>7
       DEF Attach, EndRange, Typed, ClientType, StreamType, PlainType, Pairs, aux
  <2>3. QED
    BY <1>5, <2>1, <2>2 DEF Typed
<1>8. CASE StartRange
  <2>1. listeners \in Header
    BY <1>3, SliceIsHeader
  <2>2. EmitterType'
    BY <1>2, <1>3, <1>4, <1>8, <2>1 DEF StartRange, EmitterType, EmitterRecord
  <2>3. Twice' \subseteq Pairs'
    <3>1. Len(statusHistory') = Len(statusHistory) /\ 1 <= Len(statusHistory)
          /\ Len(statusHistory) \in Nat
      BY <1>2, <1>6, <1>8 DEF StartRange, StreamType
    <3>2. Len(statusHistory') \in 1..Len(statusHistory')
      BY <3>1
    <3>3. QED
      BY <3>2 DEF Twice, Pairs
  <2>3a. ClientType' /\ StreamType' /\ PlainType'
    BY <1>1, <1>4, <1>4a, <1>8, <2>3
       DEF StartRange, Typed, ClientType, StreamType, PlainType, Pairs
  <2>4. QED
    BY <1>5, <2>2, <2>3a DEF Typed
<1>9. CASE Send
  <2>1. EmitterType'
    BY <1>2, <1>4, <1>9 DEF Send, EmitterType, EmitterRecord
  <2>2. ClientType' /\ PlainType'
    BY <1>1, <1>4, <1>4a, <1>9
       DEF Send, Typed, ClientType, PlainType, Pairs, aux
  <2>3. StreamType'
    <3>1. Receiver \in Clients /\ UNCHANGED statusHistory
          /\ chan' = [chan EXCEPT ![Receiver] =
                        Append(chan[Receiver], Len(statusHistory))]
      BY <1>9 DEF Send
    <3>2. Len(statusHistory) \in 1..Len(statusHistory)
      BY <1>1, <1>6, <1>9 DEF Send, Typed, EmitterType, StreamType
    <3>3. Append(chan[Receiver], Len(statusHistory)) \in Seq(1..Len(statusHistory))
      BY <1>6, <3>1, <3>2 DEF StreamType
    <3>4. QED
      BY <1>4, <1>6, <3>1, <3>3 DEF StreamType
  <2>4. QED
    BY <1>5, <2>1, <2>2, <2>3 DEF Typed
<1>10. ASSUME NEW status \in Statuses, HandleLine(status) PROVE Typed'
  <2>1. EmitterType'
    BY <1>2, <1>4, <1>10 DEF HandleLine, EmitterType, EmitterRecord
  <2>2. /\ Len(statusHistory) \in Nat
        /\ Len(statusHistory') = Len(statusHistory) + 1
        /\ statusHistory' \in Seq(Statuses)
        /\ chan' = chan
    BY <1>6, <1>10 DEF HandleLine, StreamType
  <2>3. ClientType'
    BY <1>1, <1>4, <1>4a, <2>2 DEF Typed, ClientType, ClientRecord
  <2>4. StreamType'
    BY <1>4, <1>6, <2>2, LongerHistory DEF StreamType
  <2>5. PlainType'
    <3>1. Pairs \subseteq Pairs'
      BY <2>2 DEF Pairs
    <3>2. QED
      BY <1>1, <1>4, <1>10, <3>1 DEF HandleLine, Typed, PlainType, aux
  <2>6. QED
    BY <1>5, <2>1, <2>3, <2>4, <2>5 DEF Typed
<1>11. QED
  BY <1>1, <1>7, <1>8, <1>9, <1>10 DEF Emitter

\* What request c has written, and found.  Nothing is written before the
\* history, which comes first and in order; what is written has a newest
\* status.
Ledger(c) ==
    /\ client[c].at \in {"idle", "append", "copy", "replay"} => written[c] = <<>>
    /\ \A i \in 1..Len(written[c]) :
         i <= client[c].copied => written[c][i] = i
    /\ client[c].at = "stream" => client[c].copied <= Len(written[c])
    /\ written[c] # <<>> =>
         \E i \in 1..Len(written[c]) :
           \A j \in 1..Len(written[c]) : written[c][j] <= written[c][i]
    /\ client[c].at = "remove" => client[c].found \in Nat \ {0}

Ledgers == \A c \in Clients : Ledger(c)

\* The slices of the others stay slices when the memory grows.
LEMMA ClientTypeKept ==
    ASSUME ClientType, NEW c \in Clients, Only(c),
           client' \in [Clients -> ClientRecord],
           IsSlice(mem', client'[c].base),
           client'[c].at = "store" => IsSlice(mem', Shortened(c)'),
           client'[c].copied <= Len(statusHistory), UNCHANGED statusHistory,
           Grows(mem, mem'), Len(mem) \in Nat, Len(mem') \in Nat
    PROVE  ClientType'
<1>1. \A d \in Clients :
        /\ IsSlice(mem, client[d].base)
        /\ client[d].at = "store" => IsSlice(mem, Shortened(d))
        /\ client[d].copied <= Len(statusHistory)
  BY DEF ClientType
<1>2. \A d \in Clients :
        /\ IsSlice(mem', client[d].base)
        /\ client[d].at = "store" => IsSlice(mem', Shortened(d))
  BY <1>1, SliceOfGrown
<1>3. \A d \in Clients \ {c} : Shortened(d)' = Shortened(d)
  BY DEF Only, Shortened
<1>4. QED
  BY <1>1, <1>2, <1>3 DEF ClientType, Only

\* What the emitter ranges over stays a slice when the memory grows.
LEMMA EmitterTypeKept ==
    ASSUME EmitterType, UNCHANGED <<emitter, statusHistory>>,
           Grows(mem, mem'), Len(mem) \in Nat, Len(mem') \in Nat
    PROVE  EmitterType'
<1>1. IsSlice(mem', emitter.view)
  BY SliceOfGrown DEF EmitterType
<1>2. QED
  BY <1>1 DEF EmitterType

\* A memory that does not change grows.
LEMMA SameMemory ==
    ASSUME Typed, UNCHANGED mem
    PROVE  Grows(mem, mem') /\ Len(mem) \in Nat /\ Len(mem') \in Nat
BY DEF Typed, MemType, IsMem, Grows

\* A written sequence that grows by one status has a newest one again.
LEMMA NewestOfLonger ==
    ASSUME NEW s \in Seq(Nat), NEW x \in Nat, NEW t, t = Append(s, x),
           s # <<>> => \E i \in 1..Len(s) : \A j \in 1..Len(s) : s[j] <= s[i]
    PROVE  \E i \in 1..Len(t) : \A j \in 1..Len(t) : t[j] <= t[i]
<1> DEFINE n == Len(s)
<1>1. /\ Len(t) = n + 1 /\ n \in Nat
      /\ t[n + 1] = x
      /\ \A j \in 1..n : t[j] = s[j] /\ t[j] \in Nat
  OBVIOUS
<1>2. n > 0 => \E i \in 1..n : \A j \in 1..n : t[j] <= t[i]
  <2>1. n > 0 => s # <<>>
    OBVIOUS
  <2>2. QED
    BY <1>1, <2>1
<1> HIDE DEF n
<1>3. CASE \A j \in 1..n : t[j] <= x
  <2>1. n + 1 \in 1..Len(t) /\ \A j \in 1..Len(t) : t[j] <= t[n + 1]
    BY <1>1, <1>3
  <2>2. QED
    BY <2>1
<1>4. CASE ~\A j \in 1..n : t[j] <= x
  <2>1. n > 0
    BY <1>1, <1>4
  <2>2. PICK i \in 1..n : \A j \in 1..n : t[j] <= t[i]
    BY <1>2, <2>1
  <2>3. x <= t[i]
    BY <1>1, <1>4, <2>2
  <2>4. ASSUME NEW j \in 1..Len(t) PROVE t[j] <= t[i]
    <3>1. j \in 1..n \/ j = n + 1
      BY <1>1
    <3>2. QED
      BY <1>1, <2>2, <2>3, <3>1
  <2>5. i \in 1..Len(t)
    BY <1>1
  <2>6. QED
    BY <2>4, <2>5
<1>5. QED
  BY <1>3, <1>4

\* A step that leaves what c has written.
LEMMA LedgerKept ==
    ASSUME NEW c \in Clients, Ledger(c), written'[c] = written[c],
           \/ client'[c] = client[c]
           \/ /\ client'[c].copied = client[c].copied
              /\ client'[c].at # "stream"
              /\ client'[c].at \in {"append", "copy", "replay"} =>
                   client[c].at \in {"idle", "append", "copy", "replay"}
              /\ client'[c].at \notin {"idle", "remove"}
    PROVE  Ledger(c)'
BY DEF Ledger

\* What Replay writes: the history that was copied, up to its first Done.
LEMMA ReplayWrites ==
    ASSUME NEW c \in Clients, Replay(c), client[c].copied \in Nat
    PROVE  \E n \in 0..client[c].copied :
             /\ written' = [written EXCEPT ![c] = [k \in 1..n |-> k]]
             /\ \A k \in 1..(n - 1) : statusHistory[k] # "Done"
             /\ \/ /\ Goto(c, "stream")
                   /\ n = client[c].copied
                   /\ \A k \in 1..n : statusHistory[k] # "Done"
                \/ Goto(c, "cancel")
<1> DEFINE copy == 1..client[c].copied
           done == {k \in copy : statusHistory[k] = "Done"}
           last == CHOOSE k \in done : \A j \in done : k <= j
<1>1. CASE done = {}
  <2>1. /\ written' = [written EXCEPT ![c] = [k \in copy |-> k]]
        /\ Goto(c, "stream")
    BY <1>1 DEF Replay
  <2>2. \A k \in copy : statusHistory[k] # "Done"
    BY <1>1
  <2>3. client[c].copied \in 0..client[c].copied
    OBVIOUS
  <2> WITNESS client[c].copied \in 0..client[c].copied
  <2>4. QED
    BY <2>1, <2>2
<1>2. CASE done # {}
  <2>1. /\ written' = [written EXCEPT ![c] = [k \in 1..last |-> k]]
        /\ Goto(c, "cancel")
    BY <1>2 DEF Replay
  <2>2. last \in done /\ \A j \in done : last <= j
    <3>1. done \subseteq Nat
      OBVIOUS
    <3>2. \E k \in done : \A j \in done : k <= j
      BY <1>2, <3>1, LeastExists
    <3>3. QED
      BY <3>2
  <2> HIDE DEF last
  <2>3. last \in 1..client[c].copied
    BY <2>2
  <2>4. \A k \in 1..(last - 1) : statusHistory[k] # "Done"
    <3>1. ASSUME NEW k \in 1..(last - 1), statusHistory[k] = "Done" PROVE FALSE
      <4>1. k \in done
        BY <2>3, <3>1
      <4>2. QED
        BY <2>2, <2>3, <3>1, <4>1
    <3>2. QED
      BY <3>1
  <2>5. last \in 0..client[c].copied
    BY <2>3
  <2> WITNESS last \in 0..client[c].copied
  <2>6. QED
    BY <2>1, <2>4
<1>3. QED
  BY <1>1, <1>2

\* A slice that is cut at i, or shortened by one when i is not behind it.
LEMMA ShorterSlice ==
    ASSUME NEW m, IsMem(m), NEW s, IsSlice(m, s), NEW i \in Nat \ {0},
           i >= s.len => i - 1 <= Capacity(m, s),
           NEW t, t = [s EXCEPT !.len = IF i >= s.len THEN i - 1
                                        ELSE s.len - 1]
    PROVE  /\ IsSlice(m, t)
           /\ t.array = s.array
           /\ t.len = IF i >= s.len THEN i - 1 ELSE s.len - 1
<1>0. Len(m) \in Nat
  BY DEF IsMem
<1>1. /\ s \in Header /\ s.array <= Len(m) /\ s.len <= Capacity(m, s)
      /\ Capacity(m, s) \in Nat
  BY <1>0, SliceIsHeader DEF IsSlice, IsMem, Capacity, Header
<1>2. /\ t \in Header
      /\ t.array = s.array
      /\ t.len = IF i >= s.len THEN i - 1 ELSE s.len - 1
  BY <1>1 DEF Header
<1>3. s.len \in Nat /\ Capacity(m, t) = Capacity(m, s)
  BY <1>1, <1>2 DEF Header, Capacity
<1>4. t.len <= Capacity(m, t)
  BY <1>1, <1>2, <1>3
<1>5. QED
  BY <1>0, <1>1, <1>2, <1>4, HeaderIsSlice

\* What a removal does to the arrays, and what it will make of the slice.
LEMMA MovedListeners ==
    ASSUME NEW c \in Clients, MoveListeners(c), IsMem(mem),
           IsSlice(mem, listeners), client[c].found \in Nat \ {0},
           client \in [Clients -> ClientRecord], IsSlice(mem, client[c].base)
    PROVE  /\ IsMem(mem') /\ Grows(mem, mem') /\ Len(mem') \in Nat
           /\ client' \in [Clients -> ClientRecord]
           /\ Only(c)
           /\ client'[c].copied = client[c].copied
           /\ IsSlice(mem', client'[c].base)
           /\ \/ client[c].found >= listeners.len /\ UNCHANGED mem
              \/ /\ client[c].found < listeners.len
                 /\ mem' = MemRemoved(mem, listeners, client[c].found)
           /\ \/ /\ client'[c].at = "gone"
                 /\ client[c].found - 1 > Capacity(mem, listeners)
                 /\ client'[c].base = client[c].base
              \/ /\ client'[c].at = "store"
                 /\ client'[c].base = listeners
                 /\ client'[c].found = client[c].found
                 /\ IsSlice(mem', Shortened(c)')
<1>1. /\ listeners \in Header /\ listeners.array <= Len(mem)
      /\ listeners.len \in Nat /\ Len(mem) \in Nat
      /\ Capacity(mem, listeners) \in Nat
  BY SliceIsHeader DEF IsMem, Header, Capacity, IsSlice
<1> DEFINE i == client[c].found
<1>2. /\ i \in Nat \ {0}
      /\ \/ i >= listeners.len /\ UNCHANGED mem
         \/ i < listeners.len /\ mem' = MemRemoved(mem, listeners, i)
  BY <1>1 DEF MoveListeners
<1>3. IsMem(mem') /\ Grows(mem, mem') /\ Len(mem') \in Nat
  <2>1. CASE i >= listeners.len /\ UNCHANGED mem
    BY <1>1, <2>1 DEF Grows
  <2>2. CASE i < listeners.len /\ mem' = MemRemoved(mem, listeners, i)
    <3>1. i \in 1..(listeners.len - 1)
      BY <1>1, <1>2, <2>2
    <3>2. QED
      BY <1>1, <2>2, <3>1, RemovedSlice
  <2>3. QED
    BY <1>2, <2>1, <2>2
<1>4. IsSlice(mem', listeners) /\ IsSlice(mem', client[c].base)
  BY <1>1, <1>3, SliceOfGrown
<1>5. Capacity(mem', listeners) = Capacity(mem, listeners)
  BY <1>1, <1>3 DEF Capacity, Grows, Header
<1>6. CASE client' = [client EXCEPT ![c].at = "gone"]
           /\ i >= listeners.len /\ i - 1 > Capacity(mem, listeners)
  <2>1. Goto(c, "gone") /\ "gone" \in Places
    BY <1>6 DEF Goto, Places
  <2>2. QED
    BY <1>2, <1>3, <1>4, <1>6, <2>1, GotoClient
<1>7. CASE client' = [client EXCEPT ![c].at = "store", ![c].base = listeners]
           /\ (i >= listeners.len => i - 1 <= Capacity(mem, listeners))
  <2>1. /\ client' \in [Clients -> ClientRecord] /\ Only(c)
        /\ client'[c].at = "store" /\ client'[c].base = listeners
        /\ client'[c].found = i /\ client'[c].copied = client[c].copied
    BY <1>1, <1>7, MovedClient
  <2>2. Shortened(c)' = [listeners EXCEPT !.len = IF i >= listeners.len
                                                  THEN i - 1
                                                  ELSE listeners.len - 1]
    BY <2>1 DEF Shortened
  <2>3. IsSlice(mem', Shortened(c)')
    BY <1>2, <1>3, <1>4, <1>5, <1>7, <2>2, ShorterSlice
  <2>4. QED
    BY <1>2, <1>3, <1>4, <2>1, <2>3
<1>8. QED
  <2>1. \/ /\ i >= listeners.len
           /\ client' = IF i - 1 <= Capacity(mem, listeners)
                        THEN [client EXCEPT ![c].at = "store",
                                            ![c].base = listeners]
                        ELSE [client EXCEPT ![c].at = "gone"]
        \/ /\ i < listeners.len
           /\ client' = [client EXCEPT ![c].at = "store", ![c].base = listeners]
    BY DEF MoveListeners
  <2>2. QED
    BY <1>1, <1>2, <1>6, <1>7, <2>1

\* Every step of a request keeps the types.
LEMMA RequestTyped ==
    ASSUME Typed, NEW c \in Clients, Ledger(c),
           Subscribe(c) \/ Stall(c) \/ Request(c)
    PROVE  Typed'
<1>1. /\ IsMem(mem) /\ Len(mem) \in Nat /\ IsSlice(mem, listeners)
      /\ listeners \in Header
      /\ client \in [Clients -> ClientRecord]
      /\ IsSlice(mem, client[c].base)
      /\ Len(statusHistory) \in Nat
      /\ client[c] \in ClientRecord
      /\ client[c].copied \in 0..Len(statusHistory)
  BY SliceIsHeader
     DEF Typed, MemType, IsMem, ClientType, StreamType, ClientRecord
<1>2. Grows(mem, mem) /\ EmitterType /\ ClientType /\ StreamType /\ PlainType
  BY DEF Grows, Typed
<1>3. UNCHANGED <<emitter, statusHistory, state>>
  BY DEF Subscribe, Stall, Request, AppendListener, CopyHistory, Replay,
         Receive, FindListener, MoveListeners, StoreListeners
<1>4. ASSUME UNCHANGED <<mem, listeners, aux>>
      PROVE  MemType' /\ EmitterType' /\ PlainType'
             /\ Grows(mem, mem') /\ Len(mem') \in Nat
  BY <1>1, <1>2, <1>3, <1>4, SameMemory
     DEF Typed, MemType, EmitterType, PlainType, Pairs, aux
<1>5. CASE Subscribe(c)
  <2>1. UNCHANGED <<mem, listeners, chan, written, aux>>
    BY <1>5 DEF Subscribe
  <2>2. ClientType'
    BY <1>1, <1>2, <1>3, <1>4, <1>5, <2>1, SubscribeClient, ClientTypeKept
  <2>3. StreamType'
    BY <1>2, <1>3, <2>1 DEF StreamType
  <2>4. QED
    BY <1>4, <2>1, <2>2, <2>3 DEF Typed
<1>6. ASSUME NEW at \in Places, Goto(c, at), at # "store",
             UNCHANGED <<mem, listeners, aux>>
      PROVE  ClientType'
  BY <1>1, <1>2, <1>3, <1>4, <1>6, GotoClient, ClientTypeKept
<1>7. CASE Stall(c)
  <2>1. UNCHANGED <<mem, listeners, chan, written, aux>> /\ Goto(c, "stalled")
        /\ "stalled" \in Places
    BY <1>7 DEF Stall, Places
  <2>2. StreamType'
    BY <1>2, <1>3, <2>1 DEF StreamType
  <2>3. QED
    BY <1>4, <1>6, <2>1, <2>2 DEF Typed
<1>8a. Lost(c) \subseteq Pairs
  <2>1. emitter.at = "send" => Len(statusHistory) \in 1..Len(statusHistory)
    BY <1>1, <1>2 DEF EmitterType
  <2>2. emitter.at # "send" => Due(mem) = {}
    BY DEF Due, Left
  <2>3. Due(mem) \subseteq Clients
    BY DEF Due
  <2>4. QED
    BY <2>1, <2>2, <2>3 DEF Lost, Pairs
<1>8b. Twice' \subseteq Pairs
  <2>1. emitter.at = "send" => Len(statusHistory) \in 1..Len(statusHistory)
    BY <1>1, <1>2 DEF EmitterType
  <2>2. emitter.at # "send" => Twice' = {}
    BY <1>3 DEF Twice, Left
  <2>3. QED
    BY <1>3, <2>1, <2>2 DEF Twice, Pairs
<1>8. CASE AppendListener(c)
  <2>1. /\ mem' = MemAppended(mem, client[c].base, c)
        /\ listeners' = Appended(mem, client[c].base, c)
        /\ Updated(c, "copy") /\ "copy" \in Places
        /\ UNCHANGED <<chan, written>>
        /\ raced' = (raced \/ Disturbs(c))
        /\ skipped' = skipped \cup Lost(c) /\ doubled' = doubled
        /\ c \in Cells
    BY <1>8 DEF AppendListener, Places, Cells
  <2>2. IsMem(mem') /\ Grows(mem, mem') /\ IsSlice(mem', listeners')
    BY <1>1, <2>1, AppendedSlice, SMT
  <2>3. Len(mem') \in Nat /\ IsSlice(mem', EmptySlice)
    BY <2>2 DEF IsMem, IsSlice, EmptySlice, Capacity
  <2>4. MemType' /\ EmitterType'
    BY <1>1, <1>2, <1>3, <2>2, <2>3, EmitterTypeKept DEF MemType
  <2>5. ClientType'
    BY <1>1, <1>2, <1>3, <2>1, <2>2, <2>3, UpdatedClient, ClientTypeKept
  <2>6. StreamType' /\ PlainType'
    BY <1>2, <1>3, <1>8a, <2>1 DEF StreamType, PlainType, Pairs
  <2>7. QED
    BY <2>4, <2>5, <2>6 DEF Typed
<1>9. CASE CopyHistory(c)
  <2>1. UNCHANGED <<mem, listeners, chan, written, aux>>
    BY <1>9 DEF CopyHistory
  <2>2. ClientType'
    BY <1>1, <1>2, <1>3, <1>4, <1>9, <2>1, CopyHistoryClient, ClientTypeKept
  <2>3. StreamType'
    BY <1>2, <1>3, <2>1 DEF StreamType
  <2>4. QED
    BY <1>4, <2>1, <2>2, <2>3 DEF Typed
<1>10. CASE Replay(c)
  <2>1. UNCHANGED <<mem, listeners, chan, aux>>
    BY <1>10 DEF Replay
  <2>2. \E at \in Places : Goto(c, at) /\ at # "store"
    BY <1>10 DEF Replay, Places
  <2>3. PICK n \in 0..Len(statusHistory) :
          written' = [written EXCEPT ![c] = [k \in 1..n |-> k]]
    BY <1>1, <1>10, ReplayWrites DEF Ledger
  <2>4. [k \in 1..n |-> k] \in Seq(1..Len(statusHistory))
    BY <1>1, <2>3
  <2>5. StreamType'
    BY <1>2, <1>3, <2>1, <2>3, <2>4 DEF StreamType
  <2>6. QED
    BY <1>4, <1>6, <2>1, <2>2, <2>5 DEF Typed
<1>11. CASE Receive(c)
  <2>1. /\ UNCHANGED <<mem, listeners, aux>> /\ chan[c] # <<>>
        /\ chan' = [chan EXCEPT ![c] = Tail(chan[c])]
        /\ written' = [written EXCEPT ![c] = Append(written[c], Head(chan[c]))]
    BY <1>11 DEF Receive
  <2>2. ClientType'
    <3>1. CASE UNCHANGED client
      BY <1>2, <1>3, <2>1, <3>1 DEF ClientType, Shortened
    <3>2. CASE Goto(c, "cancel")
      BY <1>6, <2>1, <3>2 DEF Places
    <3>3. QED
      BY <1>11, <3>1, <3>2 DEF Receive
  <2>3. /\ Tail(chan[c]) \in Seq(1..Len(statusHistory))
        /\ Append(written[c], Head(chan[c])) \in Seq(1..Len(statusHistory))
    BY <1>2, <2>1 DEF StreamType
  <2>4. StreamType'
    BY <1>2, <1>3, <2>1, <2>3 DEF StreamType
  <2>5. QED
    BY <1>4, <2>1, <2>2, <2>4 DEF Typed
<1>12. CASE FindListener(c)
  <2>1. UNCHANGED <<mem, listeners, chan, written, aux>>
    BY <1>12 DEF FindListener
  <2>2. ClientType'
    BY <1>1, <1>2, <1>3, <1>4, <1>12, <2>1, FindListenerClient, ClientTypeKept
  <2>3. StreamType'
    BY <1>2, <1>3, <2>1 DEF StreamType
  <2>4. QED
    BY <1>4, <2>1, <2>2, <2>3 DEF Typed
<1>13. CASE MoveListeners(c)
  <2>1. /\ client[c].found \in Nat \ {0}
        /\ UNCHANGED <<listeners, chan, written>>
        /\ raced' \in BOOLEAN
        /\ skipped' = skipped \cup Lost(c) /\ doubled' = doubled \cup Twice'
    BY <1>2, <1>13 DEF MoveListeners, Ledger, PlainType
  <2>2. /\ IsMem(mem') /\ Grows(mem, mem') /\ Len(mem') \in Nat
        /\ client' \in [Clients -> ClientRecord] /\ Only(c)
        /\ client'[c].copied = client[c].copied
        /\ IsSlice(mem', client'[c].base)
        /\ client'[c].at = "store" => IsSlice(mem', Shortened(c)')
    BY <1>1, <1>13, <2>1, MovedListeners
  <2>3. MemType' /\ EmitterType'
    BY <1>1, <1>2, <1>3, <2>1, <2>2, EmitterTypeKept, SliceOfGrown DEF MemType
  <2>4. ClientType'
    BY <1>1, <1>2, <1>3, <2>2, ClientTypeKept
  <2>5. StreamType' /\ PlainType'
    BY <1>2, <1>3, <1>8a, <1>8b, <2>1 DEF StreamType, PlainType, Pairs
  <2>6. QED
    BY <2>3, <2>4, <2>5 DEF Typed
<1>14. CASE StoreListeners(c)
  <2>1. /\ listeners' = Shortened(c) /\ client[c].at = "store"
        /\ UNCHANGED <<mem, chan, written, skipped, doubled>>
        /\ raced' \in BOOLEAN
        /\ Updated(c, "gone") /\ "gone" \in Places
    BY <1>2, <1>14 DEF StoreListeners, PlainType, Places
  <2>2. IsSlice(mem, EmptySlice) /\ IsSlice(mem, Shortened(c))
    BY <1>1, <1>2, <2>1 DEF IsSlice, EmptySlice, Capacity, ClientType
  <2>3. MemType' /\ EmitterType' /\ Grows(mem, mem') /\ Len(mem') \in Nat
    BY <1>1, <1>2, <1>3, <2>1, <2>2, SameMemory DEF MemType, EmitterType
  <2>4. ClientType'
    BY <1>1, <1>2, <1>3, <2>1, <2>2, <2>3, UpdatedClient, ClientTypeKept
  <2>5. StreamType' /\ PlainType'
    BY <1>2, <1>3, <2>1 DEF StreamType, PlainType, Pairs
  <2>6. QED
    BY <2>3, <2>4, <2>5 DEF Typed
<1>15. QED
  BY <1>5, <1>7, <1>8, <1>9, <1>10, <1>11, <1>12, <1>13, <1>14 DEF Request

-----------------------------------------------------------------------------
(* Every step keeps what the requests have written in order.               *)

\* Emitter steps leave what has been written.
LEMMA EmitterLedgers == Ledgers /\ Emitter => Ledgers'
<1>1. SUFFICES ASSUME Ledgers, Emitter PROVE Ledgers'
  OBVIOUS
<1>2. UNCHANGED <<client, written>>
  BY <1>1 DEF Emitter, Attach, StartRange, Send, EndRange, HandleLine, aux
<1>3. QED
  BY <1>1, <1>2 DEF Ledgers, Ledger

\* What is replayed is the beginning of the history.
LEMMA ReplayLedger ==
    ASSUME Typed, NEW c \in Clients, Ledger(c), Replay(c)
    PROVE  Ledger(c)'
<1>1. /\ client \in [Clients -> ClientRecord] /\ client[c] \in ClientRecord
      /\ client[c].copied \in Nat
      /\ written \in [Clients -> Seq(1..Len(statusHistory))]
  BY DEF Typed, ClientType, ClientRecord, StreamType
<1>2. PICK n \in 0..client[c].copied :
        /\ written' = [written EXCEPT ![c] = [k \in 1..n |-> k]]
        /\ \/ Goto(c, "stream") /\ n = client[c].copied
           \/ Goto(c, "cancel")
  BY <1>1, ReplayWrites
<1>3. /\ written'[c] = [k \in 1..n |-> k]
      /\ n \in Nat /\ Len(written'[c]) = n
      /\ \A k \in 1..n : written'[c][k] = k
  BY <1>1, <1>2
<1>4. /\ client'[c].at \in {"stream", "cancel"}
      /\ client'[c].at = "stream" => n = client[c].copied
      /\ client'[c].copied = client[c].copied
  BY <1>1, <1>2, GotoClient DEF Places
<1>5. written'[c] # <<>> => n \in 1..n
  BY <1>3
<1>6. QED
  <2>1. written'[c] # <<>> =>
         \E i \in 1..Len(written'[c]) :
           \A j \in 1..Len(written'[c]) : written'[c][j] <= written'[c][i]
    BY <1>3, <1>5
  <2>2. \A i \in 1..Len(written'[c]) : written'[c][i] = i
    BY <1>3
  <2>3. client'[c].at = "stream" => client'[c].copied <= Len(written'[c])
    BY <1>1, <1>3, <1>4
  <2> HIDE <1>3
  <2>4. QED
    BY <1>4, <2>1, <2>2, <2>3 DEF Ledger

\* What is received comes behind the history.
LEMMA ReceiveLedger ==
    ASSUME Typed, NEW c \in Clients, Ledger(c), Receive(c)
    PROVE  Ledger(c)'
<1>1. /\ client \in [Clients -> ClientRecord] /\ client[c] \in ClientRecord
      /\ client[c].copied \in Nat
      /\ written \in [Clients -> Seq(1..Len(statusHistory))]
      /\ chan \in [Clients -> Seq(1..Len(statusHistory))]
      /\ Len(statusHistory) \in Nat
  BY DEF Typed, ClientType, ClientRecord, StreamType
<1>2. client[c].at = "stream" /\ client[c].copied <= Len(written[c])
  BY DEF Receive, Ledger
<1>3. PICK h \in Nat : written'[c] = Append(written[c], h)
  <2>1. Head(chan[c]) \in Nat
    BY <1>1 DEF Receive
  <2>2. QED
    BY <1>1, <2>1 DEF Receive
<1>4. /\ client'[c].at \in {"stream", "cancel"}
      /\ client'[c].copied = client[c].copied
  BY <1>1, <1>2, GotoClient DEF Receive, Places
<1>5. written[c] \in Seq(Nat)
  BY <1>1
<1>6. /\ Len(written'[c]) = Len(written[c]) + 1 /\ Len(written[c]) \in Nat
      /\ \A i \in 1..Len(written[c]) : written'[c][i] = written[c][i]
  BY <1>3, <1>5
<1>7. \E i \in 1..Len(written'[c]) :
        \A j \in 1..Len(written'[c]) : written'[c][j] <= written'[c][i]
  BY <1>3, <1>5, NewestOfLonger DEF Ledger
<1>8. ASSUME NEW i \in 1..Len(written'[c]), i <= client'[c].copied
      PROVE  written'[c][i] = i
  <2>1. i \in 1..Len(written[c]) /\ i <= client[c].copied
    BY <1>1, <1>2, <1>4, <1>6, <1>8
  <2>2. written[c][i] = i
    BY <2>1 DEF Ledger
  <2>3. QED
    BY <1>6, <2>1, <2>2
<1>9. /\ client'[c].at \notin {"idle", "append", "copy", "replay", "remove"}
      /\ client'[c].copied <= Len(written'[c])
  BY <1>1, <1>2, <1>4, <1>6
<1>10. QED
  BY <1>7, <1>8, <1>9 DEF Ledger

\* Each request keeps its own ledger, and the others theirs.
LEMMA RequestLedgers ==
    ASSUME Typed, Ledgers, NEW c \in Clients,
           Subscribe(c) \/ Stall(c) \/ Request(c)
    PROVE  Ledgers'
<1>1. /\ client \in [Clients -> ClientRecord] /\ listeners \in Header
      /\ client[c] \in ClientRecord
      /\ Len(statusHistory) \in Nat
      /\ written \in [Clients -> Seq(1..Len(statusHistory))]
      /\ Ledger(c)
  <2>1. IsSlice(mem, listeners) /\ Len(mem) \in Nat
    BY DEF Typed, MemType, IsMem
  <2>2. QED
    BY <2>1, SliceIsHeader DEF Typed, ClientType, StreamType, Ledgers
<1>2. ASSUME Only(c), \A d \in Clients \ {c} : written'[d] = written[d],
             Ledger(c)'
      PROVE  Ledgers'
  <2>1. ASSUME NEW d \in Clients \ {c} PROVE Ledger(d)'
    BY <1>2, LedgerKept DEF Ledgers, Only
  <2>2. QED
    BY <1>2, <2>1 DEF Ledgers
<1>3. CASE Subscribe(c)
  <2>1. /\ Only(c) /\ client'[c].at = "append"
        /\ client'[c].copied = client[c].copied
        /\ client[c].at = "idle" /\ written' = written
    BY <1>1, <1>3, SubscribeClient DEF Subscribe
  <2>2. QED
    BY <1>1, <1>2, <2>1, LedgerKept
<1>4. CASE Stall(c)
  <2>1. /\ Only(c) /\ client'[c].at = "stalled"
        /\ client'[c].copied = client[c].copied /\ written' = written
    BY <1>1, <1>4, GotoClient DEF Stall, Places
  <2>2. QED
    BY <1>1, <1>2, <2>1, LedgerKept
<1>5. CASE AppendListener(c)
  <2>1. /\ Only(c) /\ client'[c].at = "copy" /\ client[c].at = "append"
        /\ client'[c].copied = client[c].copied /\ written' = written
    BY <1>1, <1>5, UpdatedClient DEF AppendListener, Places
  <2>2. QED
    BY <1>1, <1>2, <2>1, LedgerKept
<1>6. CASE CopyHistory(c)
  <2>1. /\ Only(c) /\ client'[c].at = "replay" /\ written' = written
        /\ written[c] = <<>>
    BY <1>1, <1>6, CopyHistoryClient DEF CopyHistory, Ledger
  <2>2. Ledger(c)'
    BY <2>1 DEF Ledger
  <2>3. QED
    BY <1>2, <2>1, <2>2
<1>7. CASE Replay(c)
  <2>1. Only(c) /\ \A d \in Clients \ {c} : written'[d] = written[d]
    <3>1. \E at \in Places : Goto(c, at)
      BY <1>7 DEF Replay, Places
    <3>2. Only(c)
      BY <1>1, <3>1, GotoClient
    <3>3. \E w : written' = [written EXCEPT ![c] = w]
      BY <1>7 DEF Replay
    <3>4. QED
      BY <1>1, <3>2, <3>3
  <2>2. QED
    BY <1>1, <1>2, <1>7, <2>1, ReplayLedger
<1>8. CASE Receive(c)
  <2>1. Only(c)
    BY <1>1, <1>8, GotoClient DEF Receive, Places, Only
  <2>2. \A d \in Clients \ {c} : written'[d] = written[d]
    BY <1>1, <1>8 DEF Receive
  <2>3. QED
    BY <1>1, <1>2, <1>8, <2>1, <2>2, ReceiveLedger
<1>9. CASE FindListener(c)
  <2>1. /\ Only(c) /\ written' = written
        /\ client'[c].copied = client[c].copied
        /\ \/ client'[c].at = "gone"
           \/ /\ client'[c].at = "remove"
              /\ client'[c].found \in 1..listeners.len
    BY <1>1, <1>9, FindListenerClient DEF FindListener
  <2>2. Ledger(c)'
    BY <1>1, <2>1 DEF Ledger
  <2>3. QED
    BY <1>2, <2>1, <2>2
<1>10. CASE MoveListeners(c)
  <2>1. /\ IsMem(mem) /\ IsSlice(mem, listeners) /\ IsSlice(mem, client[c].base)
        /\ client[c].found \in Nat \ {0} /\ written' = written
    BY <1>1, <1>10 DEF MoveListeners, Ledger, Typed, MemType, ClientType
  <2>2. /\ Only(c) /\ client'[c].at \in {"gone", "store"}
        /\ client'[c].copied = client[c].copied
    BY <1>1, <1>10, <2>1, MovedListeners
  <2>3. QED
    BY <1>1, <1>2, <2>1, <2>2, LedgerKept
<1>11. CASE StoreListeners(c)
  <2>1. /\ Only(c) /\ client'[c].at = "gone"
        /\ client'[c].copied = client[c].copied /\ written' = written
    BY <1>1, <1>11, UpdatedClient DEF StoreListeners, Places
  <2>2. QED
    BY <1>1, <1>2, <2>1, LedgerKept
<1>12. QED
  BY <1>3, <1>4, <1>5, <1>6, <1>7, <1>8, <1>9, <1>10, <1>11 DEF Request

-----------------------------------------------------------------------------
(* As long as updates have not overlapped, the slice holds the channel of  *)
(* each request that listens, once.  While a request that has moved cells  *)
(* has yet to write its header, the last cell is one too many.             *)

Enrolled == {"copy", "replay", "stream", "stalled", "cancel", "remove"}

Storing == \E c \in Clients : client[c].at = "store"

\* How much of the slice is in use.
Settled == IF Storing THEN listeners.len - 1 ELSE listeners.len

\* One request at a time is about to write its header, the right one.
OneStores ==
    /\ \A c, d \in Clients :
         client[c].at = "store" /\ client[d].at = "store" => c = d
    /\ \A c \in Clients : client[c].at = "store" =>
         /\ client[c].base = listeners
         /\ client[c].found \in 1..listeners.len

\* The slice holds channels of requests that listen or are about to leave.
Channels ==
    \A i \in 1..listeners.len :
      /\ Elem(mem, listeners, i) \in Clients
      /\ client[Elem(mem, listeners, i)].at \in Enrolled \cup {"store"}

\* What is in use of it holds each request that listens, once.
Once ==
    /\ \A i, j \in 1..Settled :
         Elem(mem, listeners, i) = Elem(mem, listeners, j) => i = j
    /\ \A i \in 1..Settled :
         /\ Elem(mem, listeners, i) \in Clients
         /\ client[Elem(mem, listeners, i)].at \in Enrolled
    /\ \A c \in Clients : client[c].at \in Enrolled =>
         \E i \in 1..Settled : Elem(mem, listeners, i) = c

Listed == OneStores /\ Channels /\ Once

(* The emitter visits channels of requests that listen or have listened,   *)
(* and one twice only after a removal has doubled it.                      *)
Viewed ==
    emitter.at = "send" =>
      /\ emitter.view.array <= listeners.array
      /\ \A i \in 1..emitter.view.len :
           /\ Elem(mem, emitter.view, i) \in Clients
           /\ client[Elem(mem, emitter.view, i)].at \notin {"idle", "append"}
      /\ \A i, j \in Left :
           i < j /\ Elem(mem, emitter.view, i) = Elem(mem, emitter.view, j) =>
             <<Elem(mem, emitter.view, i), Len(statusHistory)>> \in doubled

Orderly == ~raced => Listed /\ Viewed

\* The emission in progress has yet to reach c.
Awaits(c) ==
    \/ emitter.at = "range" /\ c \in Elems(mem, listeners)
    \/ c \in Due(mem)

\* No request listens in the beginning.
LEMMA InitOrderly == Init => Orderly
<1>1. SUFFICES ASSUME Init PROVE Orderly
  OBVIOUS
<1>2. listeners.len = 0 /\ emitter.at = "start"
  BY <1>1 DEF Init, EmptySlice
<1>3. \A c \in Clients : client[c].at = "idle"
  BY <1>1 DEF Init
<1>4. Settled = 0
  BY <1>2, <1>3 DEF Settled, Storing
<1>5. Listed
  BY <1>2, <1>3, <1>4 DEF Listed, OneStores, Channels, Once, Enrolled
<1>6. QED
  BY <1>2, <1>5 DEF Orderly, Viewed

\* The places that the emission has yet to visit are places of its slice.
LEMMA LeftIsOf ==
    ASSUME Typed
    PROVE  /\ Left \subseteq 1..emitter.view.len
           /\ emitter.at # "send" => Left = {}
           /\ emitter \in EmitterRecord
           /\ emitter.view.len \in Nat
<1>1. emitter \in EmitterRecord
  BY DEF Typed, EmitterType
<1>2. emitter.next \in Nat \ {0} /\ emitter.view.len \in Nat
  BY <1>1 DEF EmitterRecord, Header
<1>3. QED
  BY <1>1, <1>2 DEF Left

\* The emitter does not touch the slice, and ranges over what it is.
LEMMA EmitterOrderly ==
    ASSUME Typed, Orderly, Emitter
    PROVE  Orderly'
<1>1. UNCHANGED <<mem, listeners, client, raced>>
  BY DEF Emitter, Attach, StartRange, Send, EndRange, HandleLine, aux
<1>2. SUFFICES ASSUME ~raced PROVE Listed' /\ Viewed'
  BY <1>1 DEF Orderly
<1>3. Listed /\ Viewed
  BY <1>2 DEF Orderly
<1>4. Listed'
  BY <1>1, <1>3 DEF Listed, OneStores, Channels, Once, Settled, Storing
<1>5. /\ emitter \in EmitterRecord
      /\ emitter.next \in Nat \ {0} /\ emitter.view.len \in Nat
  BY DEF Typed, EmitterType, EmitterRecord, Header
<1>6. CASE StartRange
  <2>1. /\ emitter'.view = listeners /\ emitter'.at = "send"
        /\ emitter'.next = 1
        /\ doubled' = doubled \cup Twice' /\ UNCHANGED statusHistory
    BY <1>6 DEF StartRange
  <2>2. listeners \in Header
    BY SliceIsHeader DEF Typed, MemType, IsMem
  <2>3. /\ emitter'.view.array <= listeners'.array
        /\ \A i \in 1..emitter'.view.len :
             /\ Elem(mem', emitter'.view, i) \in Clients
             /\ client'[Elem(mem', emitter'.view, i)].at
                  \notin {"idle", "append"}
    BY <1>1, <1>3, <2>1, <2>2 DEF Listed, Channels, Enrolled, Header
  <2>4. Left' = 1..listeners.len /\ listeners.len \in Nat
    BY <2>1, <2>2 DEF Left, Header
  <2>5. ASSUME NEW i \in Left', NEW j \in Left', i < j,
               Elem(mem', emitter'.view, i) = Elem(mem', emitter'.view, j)
        PROVE  <<Elem(mem', emitter'.view, i), Len(statusHistory')>> \in doubled'
    <3>1. Elem(mem', emitter'.view, i) \in Clients
      BY <2>1, <2>3, <2>4
    <3>2. <<Elem(mem', emitter'.view, i), Len(statusHistory')>> \in Twice'
      BY <2>5, <3>1 DEF Twice
    <3>3. QED
      BY <2>1, <3>2
  <2>6. QED
    BY <1>4, <2>3, <2>5 DEF Viewed
<1>7. CASE Send
  <2>1. /\ emitter'.view = emitter.view /\ emitter.at = "send"
        /\ emitter'.next = emitter.next + 1 /\ emitter'.at = "send"
        /\ UNCHANGED <<doubled, statusHistory>>
    BY <1>5, <1>7 DEF Send, EmitterRecord, aux
  <2>2. Left' \subseteq Left
    BY <1>5, <2>1 DEF Left
  <2>3. QED
    BY <1>1, <1>3, <1>4, <2>1, <2>2 DEF Viewed
<1>8. CASE Attach \/ EndRange \/ \E status \in Statuses : HandleLine(status)
  <2>1. emitter'.at # "send"
    BY <1>5, <1>8 DEF Attach, EndRange, HandleLine, EmitterRecord
  <2>2. QED
    BY <1>4, <2>1 DEF Viewed
<1>9. QED
  BY <1>6, <1>7, <1>8 DEF Emitter

\* A request that neither joins nor leaves.
LEMMA OrderlyKept ==
    ASSUME Orderly, NEW c \in Clients, Only(c),
           UNCHANGED <<mem, listeners, emitter, statusHistory, aux>>,
           client[c].at # "store", client'[c].at # "store",
           client'[c].at \in Enrolled <=> client[c].at \in Enrolled,
           client'[c].at \in {"idle", "append"} =>
             client[c].at \in {"idle", "append"}
    PROVE  Orderly' /\ \A d \in Clients : Awaits(d)' <=> Awaits(d)
<1>0. UNCHANGED <<raced, skipped, doubled>>
  BY DEF aux
<1>1. ASSUME ~raced PROVE Listed' /\ Viewed'
  <2>1. Listed /\ Viewed
    BY <1>1 DEF Orderly
  <2>2. \A d \in Clients :
          /\ client'[d].at \in Enrolled <=> client[d].at \in Enrolled
          /\ client'[d].at = "store" <=> client[d].at = "store"
          /\ client'[d].at = "store" => client'[d] = client[d]
          /\ client'[d].at \in {"idle", "append"} =>
               client[d].at \in {"idle", "append"}
    BY DEF Only
  <2>3. Settled' = Settled
    BY <2>2 DEF Settled, Storing
  <2>4. Listed'
    <3>1. OneStores'
      BY <2>1, <2>2 DEF Listed, OneStores
    <3>2. Channels'
      BY <2>1, <2>2 DEF Listed, Channels
    <3>3. Once'
      BY <2>1, <2>2, <2>3 DEF Listed, Once
    <3>4. QED
      BY <3>1, <3>2, <3>3 DEF Listed
  <2>5. Left' = Left
    BY DEF Left
  <2>6. Viewed'
    BY <1>0, <2>1, <2>2, <2>5 DEF Viewed
  <2>7. QED
    BY <2>4, <2>6
<1>2. Orderly'
  BY <1>0, <1>1 DEF Orderly
<1>3. QED
  BY <1>2 DEF Awaits, Due, Left

\* What the types say of the slices.
LEMMA TypedSlices ==
    ASSUME Typed
    PROVE  /\ IsMem(mem) /\ Len(mem) \in Nat
           /\ IsSlice(mem, listeners) /\ listeners \in Header
           /\ listeners.array <= Len(mem)
           /\ IsSlice(mem, emitter.view) /\ emitter.view \in Header
           /\ emitter.view.array <= Len(mem)
           /\ listeners.len \in Nat /\ emitter.view.len \in Nat
<1>1. IsMem(mem) /\ IsSlice(mem, listeners) /\ Len(mem) \in Nat
      /\ IsSlice(mem, emitter.view)
  BY DEF Typed, MemType, IsMem, EmitterType
<1>2. QED
  BY <1>1, SliceIsHeader DEF Header

\* An append that does not overlap: the slice grows by c.
LEMMA AppendedListeners ==
    ASSUME Typed, Orderly, NEW c \in Clients, AppendListener(c), ~raced'
    PROVE  /\ ~raced /\ client[c].at = "append" /\ ~Storing
           /\ listeners'.len = listeners.len + 1
           /\ listeners.array <= listeners'.array /\ listeners'.array \in Nat
           /\ \A i \in 1..listeners.len :
                Elem(mem', listeners', i) = Elem(mem, listeners, i)
           /\ Elem(mem', listeners', listeners.len + 1) = c
<1>1. /\ IsMem(mem) /\ IsSlice(mem, listeners) /\ listeners \in Header
      /\ listeners.array <= Len(mem) /\ Len(mem) \in Nat
  BY TypedSlices
<1>2. /\ ~raced /\ listeners = client[c].base /\ client[c].at = "append"
      /\ ~Overlaps(c)
      /\ mem' = MemAppended(mem, listeners, c)
      /\ listeners' = Appended(mem, listeners, c)
      /\ c \in Cells
  BY DEF AppendListener, Disturbs, Cells
<1>3. ~Storing
  BY <1>2 DEF Storing, Overlaps
<1>4. /\ listeners'.len = listeners.len + 1
      /\ listeners'.array = listeners.array \/ listeners'.array = Len(mem) + 1
      /\ \A i \in 1..listeners.len :
           Elem(mem', listeners', i) = Elem(mem, listeners, i)
      /\ Elem(mem', listeners', listeners'.len) = c
  BY <1>1, <1>2, AppendedSlice, SMT
<1>5. QED
  BY <1>1, <1>2, <1>3, <1>4 DEF Header

\* The emitter sees at most one cell of its slice change, to c.
LEMMA AppendedView ==
    ASSUME Typed, Orderly, NEW c \in Clients, AppendListener(c), ~raced'
    PROVE  \E k \in Nat : \A i \in 1..emitter.view.len :
             Elem(mem', emitter.view, i) =
               IF i = k THEN c ELSE Elem(mem, emitter.view, i)
<1> DEFINE v == emitter.view
           s == listeners
<1>1. /\ IsMem(mem) /\ IsSlice(mem, s) /\ s \in Header
      /\ s.array <= Len(mem) /\ Len(mem) \in Nat /\ s.len \in Nat
      /\ IsSlice(mem, v) /\ v \in Header /\ v.len \in Nat
  BY TypedSlices
<1>2. mem' = MemAppended(mem, s, c) /\ c \in Cells
  BY DEF AppendListener, Disturbs, Cells
<1>3. \A i \in 1..v.len : v.array \in 1..Len(mem) /\ i \in 1..Len(mem[v.array])
  BY <1>1, CellsOfSlice
<1> HIDE DEF v, s
<1>4. CASE HasRoom(mem, s)
  <2>1. /\ mem'[s.array][s.len + 1] = c
        /\ \A a \in 1..Len(mem) : \A i \in 1..Len(mem[a]) :
             a # s.array \/ i # s.len + 1 => mem'[a][i] = mem[a][i]
    BY <1>1, <1>2, <1>4, AppendedInPlace, SMT
  <2>2. CASE v.array = s.array
    <3>1. \A i \in 1..v.len :
            Elem(mem', v, i) = IF i = s.len + 1 THEN c ELSE Elem(mem, v, i)
      BY <1>3, <2>1, <2>2 DEF Elem
    <3>2. s.len + 1 \in Nat
      BY <1>1
    <3>3. QED
      BY <3>1, <3>2 DEF v
  <2>3. CASE v.array # s.array
    <3>1. \A i \in 1..v.len :
            Elem(mem', v, i) = IF i = 0 THEN c ELSE Elem(mem, v, i)
      BY <1>3, <2>1, <2>3 DEF Elem
    <3>2. QED
      BY <3>1 DEF v
  <2>4. QED
    BY <2>2, <2>3
<1>5. CASE ~HasRoom(mem, s)
  <2>1. \A a \in 1..Len(mem) : mem'[a] = mem[a]
    BY <1>1, <1>2, <1>5, AppendedElsewhere, SMT
  <2>2. \A i \in 1..v.len :
          Elem(mem', v, i) = IF i = 0 THEN c ELSE Elem(mem, v, i)
    BY <1>3, <2>1 DEF Elem
  <2>3. QED
    BY <2>2 DEF v
<1>6. QED
  BY <1>4, <1>5

\* A removal that does not overlap: the cells behind c move down by one.
LEMMA MovedCells ==
    ASSUME Typed, Ledgers, Orderly, NEW c \in Clients, MoveListeners(c),
           ~raced'
    PROVE  /\ ~raced /\ client[c].at = "remove" /\ ~Storing
           /\ client[c].found \in 1..listeners.len
           /\ Elem(mem, listeners, client[c].found) = c
           /\ Only(c) /\ client'[c].at = "store"
           /\ client'[c].base = listeners
           /\ client'[c].found = client[c].found
           /\ client'[c].copied = client[c].copied
           /\ UNCHANGED <<listeners, emitter, statusHistory, chan, written>>
           /\ skipped' = skipped \cup Lost(c)
           /\ doubled' = doubled \cup Twice'
<1> DEFINE k == client[c].found
<1>1. /\ IsMem(mem) /\ IsSlice(mem, listeners) /\ listeners \in Header
      /\ listeners.len \in Nat
      /\ client \in [Clients -> ClientRecord] /\ IsSlice(mem, client[c].base)
  BY TypedSlices DEF Typed, ClientType
<1>2. /\ client[c].at = "remove" /\ ~raced /\ ~Overlaps(c)
      /\ k <= listeners.len /\ Elem(mem, listeners, k) = c
      /\ UNCHANGED <<listeners, emitter, statusHistory, chan, written>>
      /\ skipped' = skipped \cup Lost(c)
      /\ doubled' = doubled \cup Twice'
  BY DEF MoveListeners, Misplaced
<1>3. k \in Nat \ {0} /\ k \in 1..listeners.len
  BY <1>1, <1>2 DEF Ledgers, Ledger
<1>4. ~Storing
  BY <1>2 DEF Storing, Overlaps
<1>5. k - 1 <= Capacity(mem, listeners) /\ Capacity(mem, listeners) \in Nat
  <2>1. listeners.len <= Capacity(mem, listeners)
    BY <1>1 DEF IsSlice
  <2>2. Capacity(mem, listeners) \in Nat
    BY <1>1 DEF Capacity, IsMem, Header, IsSlice
  <2>3. QED
    BY <1>1, <1>3, <2>1, <2>2
<1>6. /\ Only(c) /\ client'[c].copied = client[c].copied
      /\ \/ /\ client'[c].at = "gone"
            /\ k - 1 > Capacity(mem, listeners)
         \/ /\ client'[c].at = "store"
            /\ client'[c].base = listeners
            /\ client'[c].found = k
  BY <1>1, <1>3, MovedListeners
<1>7. QED
  BY <1>2, <1>3, <1>4, <1>5, <1>6

\* What such a removal leaves in the cells of a slice.
LEMMA MovedElem ==
    ASSUME Typed, Ledgers, Orderly, NEW c \in Clients, MoveListeners(c),
           ~raced', NEW s, IsSlice(mem, s), NEW i \in 1..s.len
    PROVE  Elem(mem', s, i) =
             IF s.array = listeners.array
                /\ i \in client[c].found..(listeners.len - 1)
             THEN Elem(mem, listeners, i + 1) ELSE Elem(mem, s, i)
<1> DEFINE k == client[c].found
           n == listeners.len
<1>1. IsMem(mem) /\ IsSlice(mem, listeners) /\ n \in Nat /\ Len(mem) \in Nat
  BY TypedSlices
<1>2. k \in 1..n
  BY MovedCells
<1>3. s.array \in 1..Len(mem) /\ i \in 1..Len(mem[s.array])
  BY <1>1, CellsOfSlice
<1>4. \/ k >= n /\ UNCHANGED mem
      \/ k < n /\ mem' = MemRemoved(mem, listeners, k)
  BY DEF MoveListeners
<1>5. CASE k >= n /\ UNCHANGED mem
  <2>1. ~(i \in k..(n - 1))
    BY <1>1, <1>2, <1>5
  <2>2. QED
    BY <1>5, <2>1
<1>6. CASE k < n /\ mem' = MemRemoved(mem, listeners, k)
  <2>1. k \in 1..(n - 1)
    BY <1>1, <1>2, <1>6
  <2>2. /\ \A j \in 1..Len(mem[listeners.array]) :
             mem'[listeners.array][j] =
               IF j \in k..(n - 1) THEN mem[listeners.array][j + 1]
               ELSE mem[listeners.array][j]
        /\ \A a \in 1..Len(mem) : a # listeners.array => mem'[a] = mem[a]
    BY <1>1, <1>6, <2>1, RemovedSlice
  <2>3. QED
    BY <1>3, <2>2 DEF Elem
<1>7. QED
  BY <1>4, <1>5, <1>6

\* A request joins the slice.
LEMMA AppendOrderly ==
    ASSUME Typed, Orderly, NEW c \in Clients, AppendListener(c), ~raced'
    PROVE  Listed' /\ Viewed'
<1> DEFINE n == listeners.len
<1>1. /\ ~raced /\ client[c].at = "append" /\ ~Storing
      /\ listeners'.len = n + 1
      /\ listeners.array <= listeners'.array /\ listeners'.array \in Nat
      /\ \A i \in 1..n : Elem(mem', listeners', i) = Elem(mem, listeners, i)
      /\ Elem(mem', listeners', n + 1) = c
  BY AppendedListeners
<1>2. Listed /\ Viewed
  BY <1>1 DEF Orderly
<1>3. /\ Only(c) /\ client'[c].at = "copy"
      /\ UNCHANGED <<emitter, statusHistory, doubled>>
      /\ client \in [Clients -> ClientRecord]
  BY UpdatedClient DEF AppendListener, Typed, ClientType, Places
<1>4. n \in Nat /\ listeners \in Header /\ emitter.view \in Header
  BY TypedSlices
<1>5. \A i \in 1..(n + 1) : i \in 1..n \/ i = n + 1
  BY <1>4
<1>6. ~Storing' /\ Settled = n /\ Settled' = n + 1
  BY <1>1, <1>3 DEF Storing, Settled, Only
<1>7. /\ \A i, j \in 1..n :
           Elem(mem, listeners, i) = Elem(mem, listeners, j) => i = j
      /\ \A i \in 1..n : /\ Elem(mem, listeners, i) \in Clients
                         /\ client[Elem(mem, listeners, i)].at \in Enrolled
      /\ \A d \in Clients : client[d].at \in Enrolled =>
           \E i \in 1..n : Elem(mem, listeners, i) = d
  BY <1>2, <1>6 DEF Listed, Once
<1>8. \A i \in 1..n : Elem(mem, listeners, i) # c
  BY <1>1, <1>7 DEF Enrolled
<1>9. OneStores'
  BY <1>6 DEF OneStores, Storing
<1>10. ASSUME NEW i \in 1..(n + 1)
       PROVE  /\ Elem(mem', listeners', i) \in Clients
              /\ client'[Elem(mem', listeners', i)].at \in Enrolled
  <2>1. CASE i \in 1..n
    BY <1>1, <1>3, <1>7, <1>8, <2>1 DEF Only
  <2>2. CASE i = n + 1
    BY <1>1, <1>3, <2>2 DEF Enrolled
  <2>3. QED
    BY <1>5, <2>1, <2>2
<1>11. Channels'
  BY <1>1, <1>10 DEF Channels
<1>12. Once'
  <2>1. ASSUME NEW i \in 1..(n + 1), NEW j \in 1..(n + 1),
               Elem(mem', listeners', i) = Elem(mem', listeners', j)
        PROVE  i = j
    <3>1. CASE i \in 1..n /\ j \in 1..n
      BY <1>1, <1>7, <2>1, <3>1
    <3>2. CASE ~(i \in 1..n /\ j \in 1..n)
      BY <1>1, <1>5, <1>8, <2>1, <3>2
    <3>3. QED
      BY <3>1, <3>2
  <2>2. ASSUME NEW d \in Clients, client'[d].at \in Enrolled
        PROVE  \E i \in 1..(n + 1) : Elem(mem', listeners', i) = d
    <3>1. CASE d = c
      <4>1. n + 1 \in 1..(n + 1)
        BY <1>4
      <4>2. QED
        BY <1>1, <3>1, <4>1
    <3>2. CASE d # c
      <4>1. PICK i \in 1..n : Elem(mem, listeners, i) = d
        BY <1>3, <1>7, <2>2, <3>2 DEF Only
      <4>2. i \in 1..(n + 1)
        BY <1>4
      <4>3. QED
        BY <1>1, <4>1, <4>2
    <3>3. QED
      BY <3>1, <3>2
  <2>3. QED
    BY <1>6, <1>10, <2>1, <2>2 DEF Once
<1>13. Viewed'
  <2>1. SUFFICES ASSUME emitter.at = "send" PROVE Viewed'
    BY <1>3 DEF Viewed
  <2> DEFINE v == emitter.view
             old(i) == Elem(mem, v, i)
             new(i) == Elem(mem', v, i)
  <2>2. PICK k \in Nat : \A i \in 1..v.len : new(i) = IF i = k THEN c ELSE old(i)
    BY AppendedView
  <2>3. /\ v.array <= listeners.array
        /\ \A i \in 1..v.len : /\ old(i) \in Clients
                               /\ client[old(i)].at \notin {"idle", "append"}
        /\ \A i, j \in Left : i < j /\ old(i) = old(j) =>
             <<old(i), Len(statusHistory)>> \in doubled
    BY <1>2, <2>1 DEF Viewed
  <2>4. Left' = Left /\ Left \subseteq 1..v.len
    BY <1>3, LeftIsOf DEF Left
  <2>5. v.array <= listeners'.array
    BY <1>1, <1>3, <1>4, <2>3 DEF Header
  <2> HIDE DEF old, new, v
  <2>6. \A i \in 1..v.len : old(i) # c
    BY <1>1, <2>3
  <2>7. ASSUME NEW i \in 1..v.len
        PROVE  /\ new(i) \in Clients
               /\ client'[new(i)].at \notin {"idle", "append"}
    BY <1>3, <2>2, <2>3, <2>6 DEF Only
  <2>8. ASSUME NEW i \in Left, NEW j \in Left, i < j, new(i) = new(j)
        PROVE  <<new(i), Len(statusHistory)>> \in doubled
    <3>1. i \in 1..v.len /\ j \in 1..v.len
      BY <2>4
    <3>2. i # k /\ j # k
      BY <2>2, <2>6, <2>8, <3>1
    <3>3. QED
      BY <2>2, <2>3, <2>8, <3>1, <3>2
  <2>9. QED
    BY <1>3, <2>4, <2>5, <2>7, <2>8 DEF Viewed, new, v
<1>14. QED
  BY <1>9, <1>11, <1>12, <1>13 DEF Listed

\* A request has moved the cells behind its channel.
LEMMA MoveOrderly ==
    ASSUME Typed, Ledgers, Orderly, NEW c \in Clients, MoveListeners(c),
           ~raced'
    PROVE  Listed' /\ Viewed'
<1> DEFINE k == client[c].found
           n == listeners.len
           old(i) == Elem(mem, listeners, i)
           new(i) == Elem(mem', listeners, i)
<1>1. /\ ~raced /\ client[c].at = "remove" /\ ~Storing
      /\ k \in 1..n /\ old(k) = c
      /\ Only(c) /\ client'[c].at = "store"
      /\ client'[c].base = listeners /\ client'[c].found = k
      /\ UNCHANGED <<listeners, emitter, statusHistory>>
      /\ doubled' = doubled \cup Twice'
  BY MovedCells
<1>2. Listed /\ Viewed
  BY <1>1 DEF Orderly
<1>3. n \in Nat /\ IsSlice(mem, listeners) /\ IsSlice(mem, emitter.view)
  BY TypedSlices
<1>4. \A i \in 1..n : new(i) = IF i \in k..(n - 1) THEN old(i + 1) ELSE old(i)
  BY <1>3, MovedElem
<1>5. Settled = n /\ Storing' /\ Settled' = n - 1
  BY <1>1 DEF Settled, Storing
<1>6. /\ \A i, j \in 1..n : old(i) = old(j) => i = j
      /\ \A i \in 1..n : old(i) \in Clients /\ client[old(i)].at \in Enrolled
      /\ \A d \in Clients : client[d].at \in Enrolled =>
           \E i \in 1..n : old(i) = d
  BY <1>2, <1>5 DEF Listed, Once
<1>7. OneStores'
  BY <1>1 DEF OneStores, Storing, Only
<1>8. \A d \in Clients : client[d].at \in Enrolled =>
        client'[d].at \in Enrolled \cup {"store"}
  BY <1>1 DEF Only
<1> HIDE DEF old, new, k, n
<1>9. Channels'
  <2>1. ASSUME NEW i \in 1..n
        PROVE  new(i) \in Clients /\ client[new(i)].at \in Enrolled
    <3>1. i \in k..(n - 1) => i + 1 \in 1..n
      BY <1>1, <1>3 DEF n
    <3>2. QED
      BY <1>4, <1>6, <3>1
  <2>2. \A i \in 1..n : /\ new(i) \in Clients
                        /\ client'[new(i)].at \in Enrolled \cup {"store"}
    BY <1>8, <2>1
  <2>3. QED
    BY <1>1, <2>2 DEF Channels, new, n
<1>10. Once'
  <2>1. \A i \in 1..(n - 1) :
          \E j \in 1..n : /\ new(i) = old(j) /\ j # k
                          /\ j = IF i < k THEN i ELSE i + 1
    <3>1. ASSUME NEW i \in 1..(n - 1)
          PROVE  \E j \in 1..n : /\ new(i) = old(j) /\ j # k
                                 /\ j = IF i < k THEN i ELSE i + 1
      <4>1. CASE i < k
        <5>1. i \in 1..n /\ ~(i \in k..(n - 1)) /\ i # k
          BY <1>1, <1>3, <4>1 DEF n
        <5>2. QED
          BY <1>4, <4>1, <5>1
      <4>2. CASE ~(i < k)
        <5>1. i \in 1..n /\ i + 1 \in 1..n /\ i \in k..(n - 1) /\ i + 1 # k
          BY <1>1, <1>3, <4>2 DEF n
        <5>2. QED
          BY <1>4, <4>2, <5>1
      <4>3. QED
        BY <4>1, <4>2
    <3>2. QED
      BY <3>1
  <2>2. \A j \in 1..n : j # k => \E i \in 1..(n - 1) : new(i) = old(j)
    <3>1. ASSUME NEW j \in 1..n, j < k
          PROVE  \E i \in 1..(n - 1) : new(i) = old(j)
      <4>1. j \in 1..(n - 1) /\ ~(j \in k..(n - 1))
        BY <1>1, <1>3, <3>1 DEF n
      <4>2. QED
        BY <1>4, <4>1, <3>1
    <3>2. ASSUME NEW j \in 1..n, j > k
          PROVE  \E i \in 1..(n - 1) : new(i) = old(j)
      <4>1. j - 1 \in 1..(n - 1) /\ j - 1 \in k..(n - 1) /\ (j - 1) + 1 = j
            /\ j - 1 \in 1..n
        BY <1>1, <1>3, <3>2 DEF n
      <4>2. QED
        BY <1>4, <4>1
    <3>3. QED
      BY <1>1, <1>3, <3>1, <3>2 DEF n
  <2>3. ASSUME NEW i \in 1..(n - 1), NEW j \in 1..(n - 1), new(i) = new(j)
        PROVE  i = j
    <3>1. PICK p \in 1..n : new(i) = old(p) /\ p = IF i < k THEN i ELSE i + 1
      BY <2>1
    <3>2. PICK q \in 1..n : new(j) = old(q) /\ q = IF j < k THEN j ELSE j + 1
      BY <2>1
    <3>3. p = q
      BY <1>6, <2>3, <3>1, <3>2
    <3>4. QED
      BY <1>1, <1>3, <3>1, <3>2, <3>3 DEF n
  <2>4. ASSUME NEW i \in 1..(n - 1)
        PROVE  new(i) \in Clients /\ client'[new(i)].at \in Enrolled
    <3>1. new(i) \in Clients \ {c} /\ client[new(i)].at \in Enrolled
      BY <1>1, <1>6, <2>1
    <3>2. QED
      BY <1>1, <3>1 DEF Only
  <2>5. ASSUME NEW d \in Clients, client'[d].at \in Enrolled
        PROVE  \E i \in 1..(n - 1) : new(i) = d
    <3>1. d # c /\ client[d].at \in Enrolled
      BY <1>1, <2>5 DEF Only, Enrolled
    <3>2. PICK j \in 1..n : old(j) = d
      BY <1>6, <3>1
    <3>3. QED
      BY <1>1, <2>2, <3>1, <3>2
  <2>6. QED
    BY <1>1, <1>5, <2>3, <2>4, <2>5 DEF Once, new
<1>11. Viewed'
  <2>1. SUFFICES ASSUME emitter.at = "send" PROVE Viewed'
    BY <1>1 DEF Viewed
  <2>2. /\ emitter.view.array <= listeners.array
        /\ \A i \in 1..emitter.view.len :
             /\ Elem(mem, emitter.view, i) \in Clients
             /\ client[Elem(mem, emitter.view, i)].at \notin {"idle", "append"}
    BY <1>2, <2>1 DEF Viewed
  <2>3. ASSUME NEW i \in 1..emitter.view.len
        PROVE  /\ Elem(mem', emitter.view, i) \in Clients
               /\ client'[Elem(mem', emitter.view, i)].at
                    \notin {"idle", "append"}
    <3>1. Elem(mem', emitter.view, i) =
            IF emitter.view.array = listeners.array /\ i \in k..(n - 1)
            THEN old(i + 1) ELSE Elem(mem, emitter.view, i)
      BY <1>3, MovedElem DEF k, n, old
    <3>2. i \in k..(n - 1) => i + 1 \in 1..n
      BY <1>1, <1>3 DEF n
    <3>3. \A d \in Clients : client[d].at \notin {"idle", "append"} =>
            client'[d].at \notin {"idle", "append"}
      BY <1>1 DEF Only
    <3>4. \A d \in Clients : client[d].at \in Enrolled =>
            client[d].at \notin {"idle", "append"}
      BY DEF Enrolled
    <3>5. QED
      BY <1>6, <2>2, <3>1, <3>2, <3>3, <3>4
  <2>4. ASSUME NEW i \in Left', NEW j \in Left', i < j,
               Elem(mem', emitter'.view, i) = Elem(mem', emitter'.view, j)
        PROVE  <<Elem(mem', emitter'.view, i), Len(statusHistory')>> \in doubled'
    <3>1. i \in 1..emitter.view.len
      BY <1>1, LeftIsOf DEF Left
    <3>2. Elem(mem', emitter'.view, i) \in Clients
      BY <1>1, <2>3, <3>1
    <3>3. <<Elem(mem', emitter'.view, i), Len(statusHistory')>> \in Twice'
      BY <2>4, <3>2 DEF Twice
    <3>4. QED
      BY <1>1, <3>3
  <2>5. QED
    BY <1>1, <2>2, <2>3, <2>4 DEF Viewed
<1>12. QED
  BY <1>7, <1>9, <1>10, <1>11 DEF Listed

\* A request writes its header: the slice is what is in use of it.
LEMMA StoredListeners ==
    ASSUME Typed, Orderly, NEW c \in Clients, StoreListeners(c), ~raced'
    PROVE  /\ ~raced /\ client[c].at = "store"
           /\ Only(c) /\ client'[c].at = "gone"
           /\ client'[c].copied = client[c].copied
           /\ listeners'.array = listeners.array
           /\ listeners'.len = listeners.len - 1
           /\ Settled = listeners.len - 1 /\ Settled' = listeners.len - 1
           /\ Settled \in Nat
           /\ ~Storing'
           /\ UNCHANGED <<mem, emitter, statusHistory, chan, written, skipped,
                          doubled>>
<1>1. /\ client[c].at = "store" /\ ~raced /\ ~Overlaps(c)
      /\ listeners = client[c].base /\ listeners' = Shortened(c)
      /\ Updated(c, "gone")
      /\ UNCHANGED <<mem, emitter, statusHistory, chan, written, skipped,
                     doubled>>
  BY DEF StoreListeners, Disturbs
<1>2. /\ Only(c) /\ client'[c].at = "gone"
      /\ client'[c].copied = client[c].copied
  BY <1>1, UpdatedClient DEF Typed, ClientType, Places
<1>3. client[c].found \in 1..listeners.len /\ listeners.len \in Nat
      /\ listeners \in Header
  BY <1>1, TypedSlices DEF Orderly, Listed, OneStores
<1>4. /\ listeners'.array = listeners.array
      /\ listeners'.len = listeners.len - 1
  <2>1. listeners' = [listeners EXCEPT !.len =
                        IF client[c].found >= listeners.len
                        THEN client[c].found - 1 ELSE listeners.len - 1]
    BY <1>1 DEF Shortened
  <2>2. QED
    BY <1>3, <2>1 DEF Header
<1>5. Storing /\ ~Storing'
  BY <1>1, <1>2 DEF Storing, Overlaps, Only
<1>6. Settled = listeners.len - 1 /\ Settled' = listeners.len - 1
      /\ Settled \in Nat
  BY <1>3, <1>4, <1>5 DEF Settled
<1>7. QED
  BY <1>1, <1>2, <1>4, <1>5, <1>6

\* ... and stays in order.
LEMMA StoreOrderly ==
    ASSUME Typed, Orderly, NEW c \in Clients, StoreListeners(c), ~raced'
    PROVE  Listed' /\ Viewed'
<1>1. /\ ~raced /\ client[c].at = "store"
      /\ Only(c) /\ client'[c].at = "gone"
      /\ listeners'.array = listeners.array
      /\ listeners'.len = listeners.len - 1
      /\ Settled = listeners.len - 1 /\ Settled' = listeners.len - 1
      /\ Settled \in Nat /\ ~Storing'
      /\ UNCHANGED <<mem, emitter, statusHistory, doubled>>
  BY StoredListeners
<1>2. Listed /\ Viewed
  BY <1>1 DEF Orderly
<1>3. \A i : Elem(mem', listeners', i) = Elem(mem, listeners, i)
  BY <1>1 DEF Elem
<1>4. \A d \in Clients : client'[d].at \in Enrolled <=> client[d].at \in Enrolled
  BY <1>1 DEF Only, Enrolled
<1>5. OneStores'
  BY <1>1 DEF OneStores, Storing
<1>6. Once'
  BY <1>1, <1>2, <1>3, <1>4 DEF Listed, Once
<1>7. Channels'
  BY <1>1, <1>6 DEF Channels, Once
<1>8. Viewed'
  <2>1. \A i \in 1..emitter.view.len : emitter.at = "send" =>
          /\ Elem(mem, emitter.view, i) \in Clients
          /\ client'[Elem(mem, emitter.view, i)].at \notin {"idle", "append"}
    BY <1>1, <1>2 DEF Viewed, Only
  <2>2. Left' = Left
    BY <1>1 DEF Left
  <2>3. QED
    BY <1>1, <1>2, <2>1, <2>2 DEF Viewed
<1>9. QED
  BY <1>5, <1>6, <1>7, <1>8 DEF Listed

-----------------------------------------------------------------------------
(* What the updates of the slice do to the emission in progress.           *)

\* While the emission has not begun, it awaits what the slice holds.
LEMMA AwaitsInSend ==
    ASSUME Typed, NEW c \in Clients
    PROVE  /\ emitter.at = "send" =>
                (Awaits(c) <=> \E i \in Left : Elem(mem, emitter.view, i) = c)
           /\ emitter.at = "range" =>
                (Awaits(c) <=> \E i \in 1..listeners.len :
                                 Elem(mem, listeners, i) = c)
           /\ emitter.at \notin {"send", "range"} => ~Awaits(c)
<1>1. emitter.at # "send" => Due(mem) = {}
  BY DEF Due, Left
<1>2. c \in Due(mem) <=> \E i \in Left : Elem(mem, emitter.view, i) = c
  BY DEF Due
<1>3. QED
  BY <1>1, <1>2 DEF Awaits, Elems

\* What an update does to d: the emission goes on to await it, or d lost the
\* status in emission, or it awaits d again, whom it has sent nothing yet.
Spares(d) ==
    /\ Awaits(d) /\ ~Awaits(d)' =>
         <<d, Len(statusHistory)>> \in skipped'
    /\ ~Awaits(d) /\ Awaits(d)' =>
         \A i \in 1..Len(Sent(d)) : Sent(d)[i] < Len(statusHistory)

\* c is lost to no other than itself.
LEMMA LostIsRecorded ==
    ASSUME NEW c \in Clients, NEW d \in Clients \ {c}, UNCHANGED emitter,
           emitter.at = "send", Awaits(d), ~Awaits(d)',
           skipped' = skipped \cup Lost(c)
    PROVE  <<d, Len(statusHistory)>> \in skipped'
<1>1. d \in Due(mem)
  BY DEF Awaits
<1>2. d \notin Due(mem')
  BY DEF Awaits, Due, Left
<1>3. QED
  BY <1>1, <1>2 DEF Lost

\* An append may write over the last cells of the emission.
LEMMA AppendSpares ==
    ASSUME Typed, Orderly, NEW c \in Clients, AppendListener(c), ~raced',
           NEW d \in Clients \ {c}
    PROVE  Spares(d) /\ (Awaits(d)' => Awaits(d))
<1>1. UNCHANGED <<emitter, statusHistory>> /\ skipped' = skipped \cup Lost(c)
  BY DEF AppendListener
<1>2. CASE emitter.at = "range"
  <2>1. /\ listeners'.len = listeners.len + 1
        /\ \A i \in 1..listeners.len :
             Elem(mem', listeners', i) = Elem(mem, listeners, i)
        /\ Elem(mem', listeners', listeners.len + 1) = c
        /\ listeners.len \in Nat
    BY AppendedListeners, TypedSlices
  <2>2. \A i \in 1..(listeners.len + 1) :
          i \in 1..listeners.len \/ i = listeners.len + 1
    BY <2>1
  <2>3. \A i \in 1..listeners.len : i \in 1..(listeners.len + 1)
    BY <2>1
  <2>4. d \in Elems(mem', listeners') <=> d \in Elems(mem, listeners)
    BY <2>1, <2>2, <2>3 DEF Elems
  <2>5. Due(mem) = {} /\ Due(mem)' = {}
    BY <1>1, <1>2 DEF Due, Left
  <2>6. Awaits(d)' <=> Awaits(d)
    BY <1>1, <1>2, <2>4, <2>5 DEF Awaits
  <2>7. QED
    BY <2>6 DEF Spares
<1>3. CASE emitter.at = "send"
  <2>1. PICK k \in Nat : \A i \in 1..emitter.view.len :
          Elem(mem', emitter.view, i) =
            IF i = k THEN c ELSE Elem(mem, emitter.view, i)
    BY AppendedView
  <2>2. Left' = Left /\ Left \subseteq 1..emitter.view.len
    BY <1>1, LeftIsOf DEF Left
  <2>3. d \in Due(mem)' => d \in Due(mem)
    BY <1>1, <2>1, <2>2 DEF Due
  <2>4. Awaits(d)' => Awaits(d)
    BY <1>1, <1>3, <2>3 DEF Awaits
  <2>5. QED
    BY <1>1, <1>3, <2>4, LostIsRecorded DEF Spares
<1>4. CASE emitter.at \notin {"range", "send"}
  <2>1. ~Awaits(d) /\ ~Awaits(d)'
    BY <1>1, <1>4 DEF Awaits, Due, Left
  <2>2. QED
    BY <2>1 DEF Spares
<1>5. QED
  BY <1>2, <1>3, <1>4

(* The channels behind what the emitter ranges over joined the slice after *)
(* the emission began, and have not been sent its status.                  *)
Unsent ==
    emitter.at = "send" /\ emitter.view.array = listeners.array =>
      \A i \in (emitter.view.len + 1)..Settled, d \in Clients :
        Elem(mem, listeners, i) = d =>
          \A j \in 1..Len(Sent(d)) : Sent(d)[j] < Len(statusHistory)

\* A removal moves a channel out of what is left of the emission, or one into
\* it that joined after the emission began.
LEMMA MoveSpares ==
    ASSUME Typed, Ledgers, Orderly, Unsent, NEW c \in Clients,
           MoveListeners(c), ~raced', NEW d \in Clients
    PROVE  /\ d # c => Spares(d)
           /\ Awaits(d)' => Awaits(d) \/ d \in Elems(mem, listeners)
           /\ Awaits(c)' => Awaits(c)
           /\ Awaits(c) /\ c \in Elems(mem, listeners)' => Awaits(c)'
<1> DEFINE k == client[c].found
           n == listeners.len
           old(i) == Elem(mem, listeners, i)
           new(i) == Elem(mem', listeners, i)
<1>1. /\ ~raced /\ client[c].at = "remove" /\ ~Storing
      /\ k \in 1..n /\ old(k) = c
      /\ UNCHANGED <<listeners, emitter, statusHistory>>
      /\ skipped' = skipped \cup Lost(c)
  BY MovedCells
<1>2. n \in Nat /\ IsSlice(mem, listeners) /\ IsSlice(mem, emitter.view)
      /\ emitter.view.len \in Nat
  BY TypedSlices
<1>3. \A i \in 1..n : new(i) = IF i \in k..(n - 1) THEN old(i + 1) ELSE old(i)
  BY <1>2, MovedElem
<1>4. \A i, j \in 1..n : old(i) = old(j) => i = j
  BY <1>1 DEF Orderly, Listed, Once, Settled
<1>5. \A i \in k..(n - 1) : i \in 1..n /\ i + 1 \in 1..n /\ i + 1 # k
  BY <1>1, <1>2
<1>6. k < n => \A i \in 1..n : new(i) # c
  <2>1. SUFFICES ASSUME k < n, NEW i \in 1..n PROVE new(i) # c
    OBVIOUS
  <2>2. CASE i \in k..(n - 1)
    BY <1>1, <1>3, <1>4, <1>5, <2>2
  <2>3. CASE ~(i \in k..(n - 1))
    <3>1. i # k
      BY <1>1, <1>2, <2>1, <2>3
    <3>2. QED
      BY <1>1, <1>3, <1>4, <2>3, <3>1
  <2>4. QED
    BY <2>2, <2>3
<1>7. c \in Elems(mem, listeners)' => k = n /\ UNCHANGED mem
  <2>1. c \in Elems(mem, listeners)' => \E i \in 1..n : new(i) = c
    BY <1>1 DEF Elems
  <2>2. ~(k < n) => k = n /\ UNCHANGED mem
    BY <1>1, <1>2 DEF MoveListeners
  <2>3. QED
    BY <1>6, <2>1, <2>2
<1>8. Awaits(c) /\ c \in Elems(mem, listeners)' => Awaits(c)'
  BY <1>1, <1>7 DEF Awaits, Due, Left
<1>9. CASE emitter.at = "range"
  <2>1. Due(mem) = {} /\ Due(mem)' = {}
    BY <1>1, <1>9 DEF Due, Left
  <2>2. Awaits(d)' => Awaits(d)
    <3>1. ASSUME NEW i \in 1..n PROVE \E j \in 1..n : new(i) = old(j)
      BY <1>3, <1>5
    <3>2. QED
      BY <1>1, <1>9, <2>1, <3>1 DEF Awaits, Elems
  <2>3. d # c /\ Awaits(d) => Awaits(d)'
    <3>1. ASSUME NEW j \in 1..n, old(j) # c
          PROVE  \E i \in 1..n : new(i) = old(j)
      <4>1. CASE j < k
        BY <1>1, <1>2, <1>3, <4>1
      <4>2. CASE j > k
        <5>1. j - 1 \in 1..n /\ j - 1 \in k..(n - 1) /\ (j - 1) + 1 = j
          BY <1>1, <1>2, <4>2
        <5>2. QED
          BY <1>3, <5>1
      <4>3. QED
        BY <1>1, <1>2, <3>1, <4>1, <4>2
    <3>2. QED
      BY <1>1, <1>9, <2>1, <3>1 DEF Awaits, Elems
  <2>4. Awaits(c)' => Awaits(c)
    <3>1. Awaits(c)' => c \in Elems(mem, listeners)'
      BY <1>1, <1>9, <2>1 DEF Awaits
    <3>2. QED
      BY <1>1, <1>7, <1>9, <2>1, <3>1 DEF Awaits
  <2>5. QED
    BY <1>8, <2>2, <2>3, <2>4 DEF Spares
<1>10. CASE emitter.at = "send"
  <2> DEFINE v == emitter.view
  <2>1. Left' = Left /\ Left \subseteq 1..v.len
    BY <1>1, LeftIsOf DEF Left
  <2>2. \A i \in 1..v.len :
          Elem(mem', v, i) =
            IF v.array = listeners.array /\ i \in k..(n - 1)
            THEN old(i + 1) ELSE Elem(mem, v, i)
    BY <1>2, MovedElem
  <2>3. ASSUME NEW e \in Clients, Awaits(e)', ~Awaits(e)
        PROVE  /\ v.array = listeners.array
               /\ v.len \in k..(n - 1) /\ old(v.len + 1) = e
    <3>1. PICK i \in Left : Elem(mem', v, i) = e
      BY <1>1, <1>10, <2>1, <2>3 DEF Awaits, Due
    <3>2. Elem(mem, v, i) # e /\ i \in 1..v.len
      BY <1>10, <2>1, <2>3, <3>1 DEF Awaits, Due
    <3>3. v.array = listeners.array /\ i \in k..(n - 1) /\ old(i + 1) = e
      BY <2>2, <3>1, <3>2
    <3>4. CASE i = v.len
      BY <3>3, <3>4
    <3>5. CASE i # v.len
      <4>1. i + 1 \in Left
        <5>1. emitter.next \in Nat
          BY DEF Typed, EmitterType, EmitterRecord
        <5>2. i \in emitter.next..v.len
          BY <1>10, <3>1 DEF Left
        <5>3. QED
          BY <1>2, <1>10, <3>5, <5>1, <5>2 DEF Left
      <4>2. Elem(mem, v, i + 1) = e
        BY <3>3 DEF Elem
      <4>3. QED
        BY <2>3, <4>1, <4>2 DEF Awaits, Due
    <3>6. QED
      BY <3>4, <3>5
  <2>4. Awaits(c)' => Awaits(c)
    BY <1>1, <1>4, <1>5, <2>3
  <2>5. ASSUME Awaits(d)', ~Awaits(d)
        PROVE  \A j \in 1..Len(Sent(d)) : Sent(d)[j] < Len(statusHistory)
    <3>1. /\ v.array = listeners.array
          /\ v.len \in k..(n - 1) /\ old(v.len + 1) = d
      BY <2>3, <2>5
    <3>2. v.len + 1 \in (v.len + 1)..Settled
      BY <1>1, <1>2, <3>1 DEF Settled
    <3>3. QED
      BY <1>10, <3>1, <3>2 DEF Unsent
  <2>6. d # c => Spares(d)
    BY <1>1, <1>10, <2>5, LostIsRecorded DEF Spares
  <2>7. Awaits(d)' => Awaits(d) \/ d \in Elems(mem, listeners)
    <3>1. \A i \in k..(n - 1) : i + 1 \in 1..n
      BY <1>5
    <3>2. QED
      BY <2>3, <3>1 DEF Elems
  <2>8. QED
    BY <1>8, <2>4, <2>6, <2>7
<1>11. CASE emitter.at \notin {"range", "send"}
  <2>1. \A e \in Clients : ~Awaits(e) /\ ~Awaits(e)'
    BY <1>1, <1>11 DEF Awaits, Due, Left
  <2>2. QED
    BY <2>1 DEF Spares
<1>12. QED
  BY <1>9, <1>10, <1>11

\* The header takes nothing from the emission but c.
LEMMA StoreSpares ==
    ASSUME Typed, Orderly, NEW c \in Clients, StoreListeners(c), ~raced',
           NEW d \in Clients
    PROVE  /\ d # c => (Awaits(d)' <=> Awaits(d))
           /\ Awaits(c)' => Awaits(c)
<1>1. /\ ~raced /\ client[c].at = "store"
      /\ listeners'.array = listeners.array
      /\ listeners'.len = listeners.len - 1
      /\ Settled = listeners.len - 1
      /\ Settled \in Nat
      /\ UNCHANGED <<mem, emitter>>
  BY StoredListeners
<1>2. Due(mem)' = Due(mem)
  BY <1>1 DEF Due, Left
<1>3. \A i \in 1..Settled : i \in 1..listeners.len
  BY <1>1, TypedSlices
<1>4. Elems(mem, listeners)' \subseteq Elems(mem, listeners)
  BY <1>1, <1>3 DEF Elems, Elem
<1>5. ASSUME d # c, d \in Elems(mem, listeners)
      PROVE  d \in Elems(mem, listeners)'
  <2>1. PICK i \in 1..listeners.len : Elem(mem, listeners, i) = d
    BY <1>5 DEF Elems
  <2>2. client[d].at \in Enrolled
    BY <1>1, <1>5, <2>1 DEF Orderly, Listed, OneStores, Channels
  <2>3. PICK j \in 1..Settled : Elem(mem, listeners, j) = d
    BY <1>1, <2>2 DEF Orderly, Listed, Once
  <2>4. QED
    BY <1>1, <2>3 DEF Elems, Elem
<1>6. QED
  BY <1>1, <1>2, <1>4, <1>5 DEF Awaits

-----------------------------------------------------------------------------
(* What has been sent to a channel.                                        *)

Rest(w, k, ch) == SubSeq(w, k + 1, Len(w)) \o ch

\* How much of w is behind its first k elements.
Behind(w, k) == IF k <= Len(w) THEN Len(w) - k ELSE 0

\* The elements of the rest r of w and ch, one by one.
IsRest(r, w, k, ch) ==
    LET m == Behind(w, k)
    IN /\ m \in Nat /\ Len(w) \in Nat /\ Len(ch) \in Nat
       /\ r \in Seq(Nat)
       /\ Len(r) = m + Len(ch)
       /\ \A i \in 1..m : r[i] = w[k + i]
       /\ \A i \in 1..Len(ch) : r[m + i] = ch[i]

\* Rest has them.
LEMMA RestElements ==
    ASSUME NEW w \in Seq(Nat), NEW ch \in Seq(Nat), NEW k \in Nat
    PROVE  IsRest(Rest(w, k, ch), w, k, ch)
<1> DEFINE s == SubSeq(w, k + 1, Len(w))
           m == Behind(w, k)
<1>0. m = IF k <= Len(w) THEN Len(w) - k ELSE 0
  BY DEF Behind
<1>1. m \in Nat /\ Len(w) \in Nat /\ Len(ch) \in Nat
  BY <1>0
<1>2. /\ \A i \in (k + 1)..Len(w) : w[i] \in Nat
      /\ k + 1 \in Int /\ Len(w) \in Int
  OBVIOUS
<1> HIDE DEF m
<1>3. /\ s \in Seq(Nat)
      /\ Len(s) = IF k + 1 <= Len(w) THEN Len(w) - (k + 1) + 1 ELSE 0
      /\ \A i \in 1..(Len(w) - (k + 1) + 1) : s[i] = w[(k + 1) + i - 1]
  BY <1>2, SubSeqProperties
<1> HIDE DEF s
<1>4. Len(s) = m /\ \A i \in 1..m : s[i] = w[k + i]
  BY <1>0, <1>1, <1>3
<1>5. /\ s \o ch \in Seq(Nat)
      /\ Len(s \o ch) = Len(s) + Len(ch)
      /\ \A i \in 1..Len(s) + Len(ch) :
           (s \o ch)[i] = IF i <= Len(s) THEN s[i] ELSE ch[i - Len(s)]
  BY <1>3, ConcatProperties
<1>6. Rest(w, k, ch) = s \o ch
  BY DEF Rest, s
<1> DEFINE t == s \o ch
<1>7. /\ t \in Seq(Nat) /\ Len(t) = m + Len(ch)
      /\ \A i \in 1..(m + Len(ch)) : t[i] = IF i <= m THEN s[i] ELSE ch[i - m]
  BY <1>4, <1>5
<1> HIDE DEF t
<1>8. \A i \in 1..m : t[i] = w[k + i]
  <2>1. ASSUME NEW i \in 1..m PROVE t[i] = w[k + i]
    <3>1. i \in 1..(m + Len(ch)) /\ i <= m
      BY <1>1
    <3>2. QED
      BY <1>4, <1>7, <3>1
  <2>2. QED
    BY <2>1
<1>9. \A i \in 1..Len(ch) : t[m + i] = ch[i]
  <2>1. ASSUME NEW i \in 1..Len(ch) PROVE t[m + i] = ch[i]
    <3>1. m + i \in 1..(m + Len(ch)) /\ ~(m + i <= m) /\ (m + i) - m = i
      BY <1>1
    <3>2. QED
      BY <1>7, <3>1
  <2>2. QED
    BY <2>1
<1>10. Rest(w, k, ch) = t
  BY <1>6 DEF t
<1>11. QED
  BY <1>1, <1>7, <1>8, <1>9, <1>10 DEF IsRest, m

\* While nothing is written behind the history, it is what the channel holds.
LEMMA RestOfChannel ==
    ASSUME NEW w \in Seq(Nat), NEW ch \in Seq(Nat), NEW k \in Nat, Len(w) <= k
    PROVE  Rest(w, k, ch) = ch
<1>1. SubSeq(w, k + 1, Len(w)) = <<>>
  BY SubSeqEmpty
<1>2. QED
  BY <1>1, ConcatEmptySeq DEF Rest

\* A send adds to it.
LEMMA RestOfSent ==
    ASSUME NEW w \in Seq(Nat), NEW ch \in Seq(Nat), NEW k \in Nat, NEW h \in Nat
    PROVE  Rest(w, k, Append(ch, h)) = Append(Rest(w, k, ch), h)
<1> DEFINE s == SubSeq(w, k + 1, Len(w))
<1>1. s \in Seq(Nat)
  <2>1. \A i \in (k + 1)..Len(w) : w[i] \in Nat
    OBVIOUS
  <2>2. QED
    BY <2>1, SubSeqProperties
<1> HIDE DEF s
<1>2. s \o Append(ch, h) = s \o (ch \o <<h>>)
  BY AppendIsConcat
<1>3. s \o (ch \o <<h>>) = (s \o ch) \o <<h>>
  <2>1. <<h>> \in Seq(Nat)
    OBVIOUS
  <2>2. QED
    BY <1>1, <2>1, ConcatAssociative
<1>4. s \o ch \in Seq(Nat)
  BY <1>1, ConcatProperties
<1>5. (s \o ch) \o <<h>> = Append(s \o ch, h)
  BY <1>4, AppendIsConcat
<1>6. QED
  BY <1>2, <1>3, <1>5 DEF Rest, s

\* Concatenation of sequences of numbers.
LEMMA ThreeParts ==
    ASSUME NEW s \in Seq(Nat), NEW v \in Seq(Nat), NEW u \in Seq(Nat)
    PROVE  (s \o v) \o u = s \o (v \o u)
OBVIOUS

\* What is received moves from the channel behind what is written.
LEMMA RestOfReceived ==
    ASSUME NEW w \in Seq(Nat), NEW ch \in Seq(Nat), NEW k \in Nat,
           k <= Len(w), ch # <<>>
    PROVE  Rest(Append(w, Head(ch)), k, Tail(ch)) = Rest(w, k, ch)
<1> DEFINE h == Head(ch)
           n == Len(w)
           x == Append(w, h)
           s == SubSeq(w, k + 1, n)
<1>1. /\ n \in Nat /\ k + 1 \in Int /\ n \in Int
      /\ h \in Nat /\ h = ch[1]
      /\ Len(ch) \in 1..Len(ch) /\ 1 \in 1..Len(ch)
      /\ <<h>> \in Seq(Nat)
  OBVIOUS
<1>2. /\ x \in Seq(Nat) /\ Len(x) = n + 1
      /\ x[n + 1] = h
      /\ x = w \o <<h>>
  BY <1>1, AppendProperties, AppendIsConcat
<1>3. Tail(ch) \in Seq(Nat)
  BY HeadTailProperties
<1>4. <<h>> \o Tail(ch) = ch
  <2>1. SubSeq(ch, 1, Len(ch)) = <<ch[1]>> \o SubSeq(ch, 1 + 1, Len(ch))
    BY <1>1, SubSeqRecursiveFirst
  <2>2. SubSeq(ch, 1, Len(ch)) = ch
    BY SubSeqFull
  <2>3. SubSeq(ch, 2, Len(ch)) = Tail(ch)
    BY TailIsSubSeq
  <2>4. 1 + 1 = 2
    OBVIOUS
  <2>5. QED
    BY <1>1, <2>1, <2>2, <2>3, <2>4
<1>5. s \in Seq(Nat)
  <2>1. \A i \in (k + 1)..n : w[i] \in Nat
    OBVIOUS
  <2>2. QED
    BY <1>1, <2>1, SubSeqProperties
<1>6. SubSeq(x, k + 1, n) = s
  <2>1. CASE k = n
    <3>1. n < k + 1
      BY <1>1, <2>1
    <3>2. QED
      BY <1>1, <3>1, SubSeqEmpty
  <2>2. CASE k < n
    <3>1. k + 1 \in 1..n /\ n \in 1..n
      BY <1>1, <2>2
    <3>2. SubSeq(w \o <<h>>, k + 1, n) = SubSeq(w, k + 1, n)
      BY <1>1, <3>1, SubSeqOfConcat1
    <3>3. QED
      BY <1>2, <3>2
  <2>3. QED
    BY <1>1, <2>1, <2>2
<1>7. SubSeq(x, k + 1, n + 1) = s \o <<h>>
  <2> HIDE DEF x, s
  <2>1. k + 1 \in 1..Len(x) /\ n + 1 \in (k + 1)..Len(x)
    BY <1>1, <1>2
  <2>2. SubSeq(x, k + 1, n + 1) = SubSeq(x, k + 1, (n + 1) - 1) \o <<x[n + 1]>>
    BY <1>2, <2>1, SubSeqRecursiveSecond
  <2>3. (n + 1) - 1 = n
    BY <1>1
  <2>4. QED
    BY <1>2, <1>6, <2>2, <2>3
<1>8. (s \o <<h>>) \o Tail(ch) = s \o (<<h>> \o Tail(ch))
  BY <1>1, <1>3, <1>5, ThreeParts
<1>9. Rest(x, k, Tail(ch)) = SubSeq(x, k + 1, n + 1) \o Tail(ch)
  BY <1>2 DEF Rest
<1>10. QED
  BY <1>4, <1>7, <1>8, <1>9 DEF Rest

-----------------------------------------------------------------------------
(* The channels get every status in turn, but for those that were lost.    *)

Past == {"replay", "stream", "stalled", "cancel", "remove", "store", "gone"}

\* The newest status that c has been sent, if it listens from the start.
Upto(c) == IF Awaits(c) THEN Len(statusHistory) - 1 ELSE Len(statusHistory)

\* Emissions reach c, or the one in progress still does.
Active(c) ==
    \/ client[c].at \in Enrolled \/ Awaits(c)
    \/ client[c].at = "store" /\ c \in Elems(mem, listeners)

\* The statuses from j to k were lost to c.
Missed(c, j, k) == \A m \in j..k : <<c, m>> \in skipped

\* What is sent to c goes up, and leaves out or repeats only what the updates
\* of others made it.
Rising(c) ==
    /\ \A i \in 1..(Len(Sent(c)) - 1) :
         LET j == Sent(c)[i]
             k == Sent(c)[i + 1]
         IN \/ k = j /\ <<c, j>> \in doubled
            \/ k > j /\ Missed(c, j + 1, k - 1)
    /\ \A i, j \in 1..Len(Sent(c)) : i < j => Sent(c)[i] <= Sent(c)[j]

\* It goes on to the newest status.
Current(c) ==
    Active(c) /\ Sent(c) # <<>> =>
      LET last == Sent(c)[Len(Sent(c))]
      IN /\ \/ last <= Upto(c)
            \/ last = Len(statusHistory) /\ <<c, last>> \in doubled
         /\ Missed(c, last + 1, Upto(c))

\* It leaves no gap behind the history that c copied.
Joined(c) ==
    client[c].at \in Past =>
      /\ \A i \in 1..Len(Sent(c)) :
           \A k \in (client[c].copied + 1)..Sent(c)[i] :
             <<c, k>> \in skipped \/ \E j \in 1..Len(Sent(c)) : Sent(c)[j] = k
      /\ Active(c) /\ Sent(c) = <<>> =>
           Missed(c, client[c].copied + 1, Upto(c))

Track(c) ==
    /\ client[c].at \in {"idle", "append"} => Sent(c) = <<>>
    /\ Rising(c) /\ Current(c) /\ Joined(c)

Tracks == ~raced => Unsent /\ \A c \in Clients : Track(c)

\* Sent, as an operator of what it is made of.
LEMMA SentIsRest ==
    ASSUME NEW c
    PROVE  Sent(c) = Rest(written[c], client[c].copied, chan[c])
BY DEF Sent, Rest

\* The types of what Sent is made of, and of Sent.
LEMMA SentType ==
    ASSUME Typed, NEW c \in Clients
    PROVE  /\ written[c] \in Seq(Nat) /\ chan[c] \in Seq(Nat)
           /\ client[c].copied \in Nat
           /\ Len(statusHistory) \in Nat
           /\ Sent(c) \in Seq(Nat)
<1>1. /\ client[c] \in ClientRecord /\ Len(statusHistory) \in Nat
      /\ written[c] \in Seq(1..Len(statusHistory))
      /\ chan[c] \in Seq(1..Len(statusHistory))
  BY DEF Typed, ClientType, StreamType
<1>2. 1..Len(statusHistory) \subseteq Nat
  BY <1>1
<1>3. written[c] \in Seq(Nat) /\ chan[c] \in Seq(Nat)
  BY <1>1, <1>2, SeqMonotonic
<1>4. client[c].copied \in Nat
  BY <1>1 DEF ClientRecord
<1>5. QED
  BY <1>1, <1>3, <1>4, SentIsRest, RestElements DEF IsRest

\* The elements of what is sent to c.
LEMMA SentElements ==
    ASSUME Typed, NEW c \in Clients
    PROVE  IsRest(Sent(c), written[c], client[c].copied, chan[c])
BY SentType, SentIsRest, RestElements

\* What is sent has been emitted.
LEMMA SentInHistory ==
    ASSUME Typed, NEW c \in Clients, NEW i \in 1..Len(Sent(c))
    PROVE  Sent(c)[i] \in 1..Len(statusHistory)
<1> DEFINE w == written[c]
           k == client[c].copied
           ch == chan[c]
           r == Sent(c)
           m == Behind(w, k)
<1>1. /\ w \in Seq(1..Len(statusHistory)) /\ ch \in Seq(1..Len(statusHistory))
      /\ Len(w) \in Nat /\ Len(ch) \in Nat /\ k \in Nat
  BY SentType DEF Typed, StreamType
<1>2. /\ m \in Nat /\ Len(r) = m + Len(ch)
      /\ \A j \in 1..m : r[j] = w[k + j]
      /\ \A j \in 1..Len(ch) : r[m + j] = ch[j]
  BY SentElements DEF IsRest
<1> HIDE DEF w, k, ch, r
<1>3. i \in 1..(m + Len(ch))
  BY <1>2 DEF r
<1>4. CASE i <= m
  <2>1. i \in 1..m /\ k + i \in 1..Len(w)
    BY <1>1, <1>2, <1>3, <1>4 DEF Behind
  <2>2. w[k + i] \in 1..Len(statusHistory)
    BY <1>1, <2>1
  <2>3. QED
    BY <1>2, <2>1, <2>2 DEF r
<1>5. CASE i > m
  <2>1. i - m \in 1..Len(ch) /\ m + (i - m) = i
    BY <1>1, <1>2, <1>3, <1>5
  <2>2. ch[i - m] \in 1..Len(statusHistory)
    BY <1>1, <2>1
  <2>3. QED
    BY <1>2, <2>1, <2>2 DEF r
<1>6. QED
  BY <1>2, <1>3, <1>4, <1>5

\* Nothing is sent in the beginning.
LEMMA InitTracks == Init => Tracks
<1>1. SUFFICES ASSUME Init PROVE Tracks
  OBVIOUS
<1>2. emitter = [at |-> "start", view |-> EmptySlice, next |-> 1]
  BY <1>1 DEF Init
<1>3. emitter.at = "start"
  BY <1>2
<1>4. Unsent
  BY <1>3 DEF Unsent
<1>5. <<>> \in Seq(Nat) /\ Len(<<>>) = 0
  BY EmptySeq
<1>6. ASSUME NEW c \in Clients PROVE Track(c)
  <2>1. /\ client[c].at = "idle" /\ client[c].copied = 0
        /\ chan[c] = <<>> /\ written[c] = <<>>
    BY <1>1 DEF Init
  <2>2. Sent(c) = <<>>
    <3>1. Sent(c) = Rest(<<>>, 0, <<>>)
      BY <2>1, SentIsRest
    <3>2. 0 \in Nat /\ Len(<<>>) <= 0
      BY <1>5
    <3>3. Rest(<<>>, 0, <<>>) = <<>>
      BY <1>5, <3>2, RestOfChannel
    <3>4. QED
      BY <3>1, <3>3
  <2>3. Rising(c)
    BY <1>5, <2>2 DEF Rising
  <2>4. Current(c)
    BY <2>2 DEF Current
  <2>5. Joined(c)
    BY <2>1 DEF Joined, Past
  <2>6. QED
    BY <2>2, <2>3, <2>4, <2>5 DEF Track
<1>7. QED
  BY <1>4, <1>6 DEF Tracks

(* A step that sends nothing to d, while the history stays: what others do *)
(* to the slice may cost d the status in emission, or bring it back.       *)
LEMMA TrackMoves ==
    ASSUME Typed, NEW d \in Clients, Track(d), Sent(d)' = Sent(d),
           UNCHANGED statusHistory,
           skipped \subseteq skipped', doubled \subseteq doubled',
           Active(d)' => Active(d) /\ Spares(d),
           client'[d].at \in {"idle", "append"} =>
             client[d].at \in {"idle", "append"},
           client'[d].at \in Past =>
             client[d].at \in Past /\ client'[d].copied = client[d].copied
    PROVE  Track(d)'
<1>1. PICK s \in Seq(Nat) : s = Sent(d)
  BY SentType
<1>2. PICK h \in Nat : h = Len(statusHistory)
  BY SentType
<1>3. PICK k \in Nat : k = client[d].copied
  BY SentType
<1>4. /\ Sent(d)' = s /\ Len(statusHistory') = h
      /\ client'[d].at \in Past => client[d].at \in Past /\ client'[d].copied = k
  BY <1>1, <1>2, <1>3
<1> DEFINE up == Upto(d)
           upNext == Upto(d)'
           last == s[Len(s)]
<1>5. Rising(d)'
  <2>1. /\ \A i \in 1..(Len(s) - 1) :
             \/ s[i + 1] = s[i] /\ <<d, s[i]>> \in doubled'
             \/ /\ s[i + 1] > s[i]
                /\ \A m \in (s[i] + 1)..(s[i + 1] - 1) : <<d, m>> \in skipped'
        /\ \A i, j \in 1..Len(s) : i < j => s[i] <= s[j]
    BY <1>1 DEF Track, Rising, Missed
  <2>2. QED
    BY <1>4, <2>1 DEF Rising, Missed
<1>6. Active(d)' =>
        \/ upNext = up
        \/ up = h - 1 /\ upNext = h /\ <<d, h>> \in skipped'
        \/ up = h /\ upNext = h - 1 /\ \A i \in 1..Len(s) : s[i] < h
  BY <1>1, <1>2, <1>4 DEF Upto, Spares
<1>7. up \in {h, h - 1}
  BY <1>2 DEF Upto
<1> HIDE DEF up, upNext
<1>8. ASSUME NEW j \in Nat, Active(d)', \A m \in j..up : <<d, m>> \in skipped
      PROVE  \A m \in j..upNext : <<d, m>> \in skipped'
  <2>1. CASE upNext = up
    BY <1>8, <2>1
  <2>2. CASE up = h - 1 /\ upNext = h /\ <<d, h>> \in skipped'
    <3>1. \A m \in j..h : m \in j..(h - 1) \/ m = h
      OBVIOUS
    <3>2. QED
      BY <1>8, <2>2, <3>1
  <2>3. CASE up = h /\ upNext = h - 1
    <3>1. \A m \in j..(h - 1) : m \in j..h
      OBVIOUS
    <3>2. QED
      BY <1>8, <2>3, <3>1
  <2>4. QED
    BY <1>6, <1>8, <2>1, <2>2, <2>3
<1>9. Current(d)'
  <2>1. SUFFICES ASSUME Active(d)', s # <<>>
                 PROVE  /\ \/ last <= upNext
                           \/ last = h /\ <<d, last>> \in doubled'
                        /\ \A m \in (last + 1)..upNext : <<d, m>> \in skipped'
    BY <1>4 DEF Current, Missed, upNext
  <2>2. /\ \/ last <= up
           \/ last = h /\ <<d, last>> \in doubled
        /\ \A m \in (last + 1)..up : <<d, m>> \in skipped
    BY <1>1, <1>2, <2>1 DEF Track, Current, Missed, up
  <2>3. Len(s) \in 1..Len(s) /\ last \in Nat /\ last + 1 \in Nat
    BY <2>1, EmptySeq
  <2>4. \A m \in (last + 1)..upNext : <<d, m>> \in skipped'
    BY <1>8, <2>1, <2>2, <2>3
  <2>5. \/ last <= upNext
        \/ last = h /\ <<d, last>> \in doubled'
    <3>1. CASE upNext = up
      BY <2>2, <3>1
    <3>2. CASE up = h - 1 /\ upNext = h
      BY <2>2, <2>3, <3>2
    <3>3. CASE up = h /\ upNext = h - 1 /\ \A i \in 1..Len(s) : s[i] < h
      BY <2>3, <3>3
    <3>4. QED
      BY <1>6, <2>1, <3>1, <3>2, <3>3
  <2>6. QED
    BY <2>4, <2>5
<1>10. Joined(d)'
  <2>1. SUFFICES ASSUME client'[d].at \in Past
                 PROVE  /\ \A i \in 1..Len(s) : \A m \in (k + 1)..s[i] :
                             \/ <<d, m>> \in skipped'
                             \/ \E j \in 1..Len(s) : s[j] = m
                        /\ Active(d)' /\ s = <<>> =>
                             \A m \in (k + 1)..upNext : <<d, m>> \in skipped'
    BY <1>4 DEF Joined, Missed, upNext
  <2>2. /\ \A i \in 1..Len(s) : \A m \in (k + 1)..s[i] :
             <<d, m>> \in skipped \/ \E j \in 1..Len(s) : s[j] = m
        /\ Active(d) /\ s = <<>> =>
             \A m \in (k + 1)..up : <<d, m>> \in skipped
    BY <1>1, <1>3, <1>4, <2>1 DEF Track, Joined, Missed, up
  <2>3. Active(d)' /\ s = <<>> =>
          \A m \in (k + 1)..upNext : <<d, m>> \in skipped'
    BY <1>8, <2>2
  <2>4. QED
    BY <2>2, <2>3
<1>11. client'[d].at \in {"idle", "append"} => s = <<>>
  BY <1>1 DEF Track
<1>12. QED
  BY <1>4, <1>5, <1>9, <1>10, <1>11 DEF Track

\* The emission in progress reaches c: its status comes behind the last one.
LEMMA SentOneMore ==
    ASSUME Typed, NEW c \in Clients, Track(c), Awaits(c),
           client[c].at \notin {"idle", "append"},
           UNCHANGED <<statusHistory, client, skipped, doubled>>,
           Sent(c)' = Append(Sent(c), Len(statusHistory)),
           Awaits(c)' => <<c, Len(statusHistory)>> \in doubled
    PROVE  Track(c)'
<1>1. PICK s \in Seq(Nat) : s = Sent(c)
  BY SentType
<1>2. PICK h \in Nat : h = Len(statusHistory)
  BY SentType
<1>3. PICK k \in Nat : k = client[c].copied
  BY SentType
<1>4. PICK n \in Nat : n = Len(s)
  OBVIOUS
<1>5. n = 0 <=> s = <<>>
  BY <1>4, EmptySeq
<1>6. PICK t \in Seq(Nat) : t = Append(s, h)
  BY <1>1, <1>2, AppendProperties
<1>7. /\ Len(t) = n + 1 /\ t[n + 1] = h
      /\ \A i \in 1..n : t[i] = s[i]
  BY <1>1, <1>2, <1>4, <1>6, AppendProperties
<1>8. \A i \in 1..n : s[i] \in 1..h
  BY <1>1, <1>2, <1>4, SentInHistory
<1>9. Upto(c) = h - 1 /\ Active(c)
  BY <1>2 DEF Upto, Active
<1>10. /\ Sent(c)' = t /\ Len(statusHistory') = h /\ client'[c] = client[c]
       /\ skipped' = skipped /\ doubled' = doubled
       /\ Awaits(c)' => <<c, h>> \in doubled
  BY <1>1, <1>2, <1>6
<1>11. /\ \A i \in 1..(n - 1) :
            \/ s[i + 1] = s[i] /\ <<c, s[i]>> \in doubled
            \/ /\ s[i + 1] > s[i]
               /\ \A m \in (s[i] + 1)..(s[i + 1] - 1) : <<c, m>> \in skipped
       /\ \A i, j \in 1..n : i < j => s[i] <= s[j]
  BY <1>1, <1>4 DEF Track, Rising, Missed
<1>12. n # 0 => /\ \/ s[n] <= h - 1
                   \/ s[n] = h /\ <<c, h>> \in doubled
                /\ \A m \in (s[n] + 1)..(h - 1) : <<c, m>> \in skipped
  BY <1>1, <1>2, <1>4, <1>5, <1>9 DEF Track, Current, Missed
<1>13. client[c].at \in Past =>
         /\ \A i \in 1..n : \A m \in (k + 1)..s[i] :
              <<c, m>> \in skipped \/ \E j \in 1..n : s[j] = m
         /\ n = 0 => \A m \in (k + 1)..(h - 1) : <<c, m>> \in skipped
  BY <1>1, <1>3, <1>4, <1>5, <1>9 DEF Track, Joined, Missed
<1>14. \A i \in 1..(n + 1) : i \in 1..n \/ i = n + 1
  OBVIOUS
<1>15. Rising(c)'
  <2>1. ASSUME NEW i \in 1..n
        PROVE  \/ t[i + 1] = t[i] /\ <<c, t[i]>> \in doubled
               \/ /\ t[i + 1] > t[i]
                  /\ \A m \in (t[i] + 1)..(t[i + 1] - 1) : <<c, m>> \in skipped
    <3>1. CASE i = n
      <4>1. t[i] = s[n] /\ t[i + 1] = h /\ s[n] \in Nat /\ n # 0
        BY <1>7, <1>8, <3>1
      <4>2. CASE s[n] = h /\ <<c, h>> \in doubled
        BY <4>1, <4>2
      <4>3. CASE s[n] <= h - 1
        <5>1. \A m \in (s[n] + 1)..(h - 1) : <<c, m>> \in skipped
          BY <1>12, <4>1
        <5>2. t[i + 1] > t[i]
          BY <4>1, <4>3
        <5>3. QED
          BY <4>1, <5>1, <5>2
      <4>4. QED
        BY <1>12, <4>1, <4>2, <4>3
    <3>2. CASE i # n
      <4>1. i \in 1..(n - 1) /\ i + 1 \in 1..n
        BY <3>2
      <4>2. t[i] = s[i] /\ t[i + 1] = s[i + 1]
        BY <1>7, <4>1
      <4>3. QED
        BY <1>11, <4>1, <4>2
    <3>3. QED
      BY <3>1, <3>2
  <2>2. ASSUME NEW i \in 1..(n + 1), NEW j \in 1..(n + 1), i < j
        PROVE  t[i] <= t[j]
    <3>1. i \in 1..n
      BY <2>2
    <3>2. CASE j = n + 1
      BY <1>7, <1>8, <3>1, <3>2
    <3>3. CASE j \in 1..n
      BY <1>7, <1>11, <2>2, <3>1, <3>3
    <3>4. QED
      BY <1>14, <3>2, <3>3
  <2>3. Len(t) - 1 = n
    BY <1>7
  <2>4. QED
    BY <1>7, <1>10, <2>1, <2>2, <2>3 DEF Rising, Missed
<1>16. Current(c)'
  <2>1. Upto(c)' = IF Awaits(c)' THEN h - 1 ELSE h
    BY <1>10 DEF Upto
  <2>2. Sent(c)'[Len(Sent(c)')] = h
    BY <1>7, <1>10
  <2>3. \A m \in (h + 1)..Upto(c)' : FALSE
    BY <2>1
  <2>4. \/ h <= Upto(c)'
        \/ h = Len(statusHistory') /\ <<c, h>> \in doubled'
    BY <1>10, <2>1
  <2>5. QED
    BY <2>2, <2>3, <2>4 DEF Current, Missed
<1>17. Joined(c)'
  <2>1. SUFFICES ASSUME client[c].at \in Past
                 PROVE  \A i \in 1..(n + 1) : \A m \in (k + 1)..t[i] :
                          \/ <<c, m>> \in skipped
                          \/ \E j \in 1..(n + 1) : t[j] = m
    <3>1. t # <<>>
      BY <1>7, EmptySeq
    <3>2. QED
      BY <1>3, <1>7, <1>10, <3>1 DEF Joined, Missed
  <2>2. ASSUME NEW i \in 1..n, NEW m \in (k + 1)..s[i]
        PROVE  <<c, m>> \in skipped \/ \E j \in 1..(n + 1) : t[j] = m
    <3>1. <<c, m>> \in skipped \/ \E j \in 1..n : s[j] = m
      BY <1>13, <2>1, <2>2
    <3>2. \A j \in 1..n : j \in 1..(n + 1)
      OBVIOUS
    <3>3. QED
      BY <1>7, <3>1, <3>2
  <2>3. ASSUME NEW m \in (k + 1)..h
        PROVE  <<c, m>> \in skipped \/ \E j \in 1..(n + 1) : t[j] = m
    <3>1. CASE m = h
      <4>1. n + 1 \in 1..(n + 1)
        OBVIOUS
      <4>2. QED
        BY <1>7, <3>1, <4>1
    <3>2. CASE m # h /\ n = 0
      <4>1. m \in (k + 1)..(h - 1)
        BY <3>2
      <4>2. QED
        BY <1>13, <2>1, <3>2, <4>1
    <3>3. CASE m # h /\ n # 0
      <4>1. n \in 1..n /\ s[n] \in Nat
        BY <1>8, <3>3
      <4>2. m \in (k + 1)..s[n] \/ m \in (s[n] + 1)..(h - 1)
        BY <3>3, <4>1
      <4>3. QED
        BY <1>12, <2>2, <3>3, <4>1, <4>2
    <3>4. QED
      BY <3>1, <3>2, <3>3
  <2>4. ASSUME NEW i \in 1..(n + 1), NEW m \in (k + 1)..t[i]
        PROVE  <<c, m>> \in skipped \/ \E j \in 1..(n + 1) : t[j] = m
    <3>1. CASE i = n + 1
      <4>1. t[i] = h
        BY <1>7, <3>1
      <4>2. m \in (k + 1)..h
        BY <2>4, <4>1
      <4>3. QED
        BY <2>3, <4>2
    <3>2. CASE i \in 1..n
      <4>1. t[i] = s[i]
        BY <1>7, <3>2
      <4>2. m \in (k + 1)..s[i]
        BY <2>4, <4>1
      <4>3. QED
        BY <2>2, <3>2, <4>2
    <3>3. QED
      BY <1>14, <3>1, <3>2
  <2>5. QED
    BY <2>4
<1>18. QED
  BY <1>10, <1>15, <1>16, <1>17 DEF Track

\* Only the receiver of a status notices that it is sent.
LEMMA SentTo ==
    ASSUME Typed, Send
    PROVE  /\ emitter.at = "send" /\ emitter.next \in Left
           /\ emitter.next \in Nat \ {0} /\ emitter.view.len \in Nat
           /\ emitter'.at = "send" /\ emitter'.view = emitter.view
           /\ emitter'.next = emitter.next + 1
           /\ UNCHANGED <<mem, listeners, statusHistory, client, raced, skipped,
                          doubled>>
           /\ \E r \in Clients :
                /\ Elem(mem, emitter.view, emitter.next) = r
                /\ \A d \in Clients \ {r} : Sent(d)' = Sent(d)
                /\ Sent(r)' = Append(Sent(r), Len(statusHistory))
<1> DEFINE h == Len(statusHistory)
<1>1. PICK r \in Clients : r = Receiver
  BY DEF Send
<1>2. /\ emitter.at = "send" /\ emitter.next <= emitter.view.len
      /\ chan' = [chan EXCEPT ![r] = Append(@, h)]
      /\ emitter' = [emitter EXCEPT !.next = @ + 1]
      /\ UNCHANGED <<mem, listeners, statusHistory, client, written, raced,
                     skipped, doubled>>
  BY <1>1 DEF Send, aux
<1>3. /\ emitter \in EmitterRecord /\ h \in Nat /\ emitter.next \in Nat \ {0}
      /\ emitter.view.len \in Nat
      /\ DOMAIN chan = Clients
  BY DEF Typed, EmitterType, EmitterRecord, Header, StreamType
<1>4. /\ emitter'.at = "send" /\ emitter'.next = emitter.next + 1
      /\ emitter'.view = emitter.view
  BY <1>2, <1>3 DEF EmitterRecord
<1>5. /\ chan'[r] = Append(chan[r], h)
      /\ \A d \in Clients \ {r} : chan'[d] = chan[d]
  BY <1>2, <1>3
<1>6. \A d \in Clients \ {r} : Sent(d)' = Sent(d)
  BY <1>2, <1>5 DEF Sent
<1>7. Sent(r)' = Append(Sent(r), h)
  <2>1. /\ written[r] \in Seq(Nat) /\ chan[r] \in Seq(Nat)
        /\ client[r].copied \in Nat
    BY SentType
  <2> DEFINE w == written[r]
             k == client[r].copied
             ch == chan[r]
  <2>2. Sent(r)' = Rest(w, k, Append(ch, h))
    BY <1>2, <1>5 DEF Sent, Rest
  <2>3. Sent(r) = Rest(w, k, ch)
    BY SentIsRest
  <2>4. w \in Seq(Nat) /\ ch \in Seq(Nat) /\ k \in Nat /\ h \in Nat
    BY <1>3, <2>1
  <2> HIDE DEF w, k, ch, h
  <2>5. Rest(w, k, Append(ch, h)) = Append(Rest(w, k, ch), h)
    BY <2>4, RestOfSent
  <2>6. QED
    BY <2>2, <2>3, <2>5
<1>8. emitter.next \in Left
  BY <1>2, <1>3 DEF Left
<1>9. Elem(mem, emitter.view, emitter.next) = r
  BY <1>1 DEF Receiver
<1>10. QED
  BY <1>1, <1>2, <1>3, <1>4, <1>6, <1>7, <1>8, <1>9

\* The emission reaches one more request.
LEMMA SendTracks ==
    ASSUME Typed, Orderly, Unsent, ~raced, Send,
           \A d \in Clients : Track(d)
    PROVE  Unsent' /\ \A d \in Clients : Track(d)'
<1> DEFINE n == emitter.next
           v == emitter.view
           h == Len(statusHistory)
           x(i) == Elem(mem, v, i)
<1>1. /\ emitter.at = "send" /\ n \in Left /\ n \in Nat \ {0} /\ v.len \in Nat
      /\ emitter'.at = "send" /\ emitter'.view = v /\ emitter'.next = n + 1
      /\ UNCHANGED <<mem, listeners, statusHistory, client, raced, skipped,
                     doubled>>
  BY SentTo
<1>2. PICK r \in Clients :
        /\ x(n) = r
        /\ \A d \in Clients \ {r} : Sent(d)' = Sent(d)
        /\ Sent(r)' = Append(Sent(r), h)
  BY SentTo
<1>3. Listed /\ Viewed
  BY DEF Orderly
<1>4. Left = n..v.len /\ Left' = (n + 1)..v.len
  BY <1>1 DEF Left
<1>5. /\ n \in 1..v.len
      /\ \A i \in (n + 1)..v.len : i \in Left /\ n < i
      /\ \A i \in Left : i # n => i \in (n + 1)..v.len
  BY <1>1, <1>4
<1>6. \A d \in Clients : Awaits(d) <=> \E i \in Left : x(i) = d
  BY <1>1, AwaitsInSend
<1>7. \A d \in Clients : Awaits(d)' <=> \E i \in (n + 1)..v.len : x(i) = d
  BY <1>1, <1>4 DEF Awaits, Due, Elem
<1> HIDE DEF x, n, v, h
<1>8. Track(r)'
  <2>1. Awaits(r)
    BY <1>1, <1>2, <1>6
  <2>2. client[r].at \notin {"idle", "append"}
    BY <1>1, <1>2, <1>3, <1>5 DEF Viewed, x, n, v
  <2>3. ASSUME Awaits(r)' PROVE <<r, h>> \in doubled
    <3>1. PICK i \in (n + 1)..v.len : x(i) = r
      BY <1>7, <2>3
    <3>2. i \in Left /\ n < i
      BY <1>5, <3>1
    <3>3. QED
      BY <1>1, <1>2, <1>3, <3>1, <3>2 DEF Viewed, x, n, v, h
  <2>4. QED
    BY <1>1, <1>2, <2>1, <2>2, <2>3, SentOneMore DEF h
<1>9. ASSUME NEW d \in Clients \ {r} PROVE Track(d)'
  <2>1. Awaits(d)' <=> Awaits(d)
    BY <1>2, <1>5, <1>6, <1>7
  <2>2. Active(d)' <=> Active(d)
    BY <1>1, <2>1 DEF Active
  <2>3. Spares(d)
    BY <2>1 DEF Spares
  <2>4. QED
    BY <1>1, <1>2, <2>2, <2>3, TrackMoves
<1>10. Unsent'
  <2>1. SUFFICES ASSUME v.array = listeners.array, NEW i \in (v.len + 1)..Settled,
                        NEW d \in Clients, Elem(mem, listeners, i) = d
                 PROVE  \A j \in 1..Len(Sent(d)') : Sent(d)'[j] < h
    <3>1. Settled' = Settled
      BY <1>1 DEF Settled, Storing
    <3>2. QED
      BY <1>1, <3>1 DEF Unsent, v, h
  <2>2. Settled \in Nat
    BY TypedSlices, <1>1, <1>3, <2>1 DEF Settled, Storing, Listed, OneStores
  <2>3. i \in 1..Settled /\ i # n /\ n \in 1..Settled
    BY <1>1, <1>5, <2>1, <2>2 DEF v
  <2>4. Elem(mem, listeners, n) = r
    BY <1>2, <2>1 DEF x, Elem
  <2>5. d # r
    BY <1>3, <2>1, <2>3, <2>4 DEF Listed, Once
  <2>6. \A j \in 1..Len(Sent(d)) : Sent(d)[j] < h
    BY <1>1, <2>1 DEF Unsent, v, h
  <2>7. QED
    BY <1>2, <2>5, <2>6
<1>11. QED
  BY <1>8, <1>9, <1>10

\* A new status is in emission: whoever listens awaits it.
LEMMA LineTracks ==
    ASSUME Typed, Orderly, ~raced, NEW status \in Statuses, HandleLine(status),
           NEW c \in Clients, Track(c)
    PROVE  Track(c)'
<1>1. PICK s \in Seq(Nat) : s = Sent(c)
  BY SentType
<1>2. PICK h \in Nat : h = Len(statusHistory)
  BY SentType
<1>3. PICK k \in Nat : k = client[c].copied
  BY SentType
<1>4. emitter \in EmitterRecord /\ statusHistory \in Seq(Statuses)
  BY DEF Typed, EmitterType, StreamType
<1>5. /\ emitter.at = "scan" /\ emitter'.at = "range"
      /\ statusHistory' = Append(statusHistory, status)
      /\ UNCHANGED <<mem, listeners, client, chan, written, skipped, doubled>>
  BY <1>4 DEF HandleLine, EmitterRecord, aux
<1>6. Len(statusHistory') = h + 1
  BY <1>2, <1>4, <1>5
<1>7. Sent(c)' = s /\ client'[c] = client[c]
  BY <1>1, <1>5 DEF Sent
<1>8. ~Awaits(c)
  BY <1>5, AwaitsInSend
<1>9. Awaits(c)' <=> c \in Elems(mem, listeners)
  BY <1>5 DEF Awaits, Due, Left
<1>10. Active(c)' => Active(c) /\ Awaits(c)'
  <2>1. c \in Elems(mem, listeners) =>
          client[c].at \in Enrolled \cup {"store"}
    BY DEF Orderly, Listed, Channels, Elems
  <2>2. client[c].at \in Enrolled => c \in Elems(mem, listeners)
    <3>1. \A i \in 1..Settled : i \in 1..listeners.len
      BY TypedSlices DEF Settled
    <3>2. QED
      BY <3>1 DEF Orderly, Listed, Once, Elems
  <2>3. QED
    BY <1>5, <1>9, <2>1, <2>2 DEF Active
<1>11. Upto(c) = h /\ (Active(c)' => Upto(c)' = h)
  BY <1>2, <1>6, <1>8, <1>10 DEF Upto
<1>12. Rising(c)'
  <2>1. /\ \A i \in 1..(Len(s) - 1) :
             \/ s[i + 1] = s[i] /\ <<c, s[i]>> \in doubled
             \/ /\ s[i + 1] > s[i]
                /\ \A m \in (s[i] + 1)..(s[i + 1] - 1) : <<c, m>> \in skipped
        /\ \A i, j \in 1..Len(s) : i < j => s[i] <= s[j]
    BY <1>1 DEF Track, Rising, Missed
  <2>2. QED
    BY <1>5, <1>7, <2>1 DEF Rising, Missed
<1>13. Current(c)'
  <2>1. Active(c)' /\ s # <<>> =>
          /\ s[Len(s)] <= h
          /\ \A m \in (s[Len(s)] + 1)..h : <<c, m>> \in skipped
    <3>1. Active(c)' /\ s # <<>> =>
            /\ s[Len(s)] <= h \/ s[Len(s)] = h
            /\ \A m \in (s[Len(s)] + 1)..h : <<c, m>> \in skipped
      BY <1>1, <1>2, <1>10, <1>11 DEF Track, Current, Missed
    <3>2. QED
      BY <3>1
  <2>2. QED
    BY <1>5, <1>7, <1>11, <2>1 DEF Current, Missed
<1>14. Joined(c)'
  <2>1. client[c].at \in Past =>
          /\ \A i \in 1..Len(s) : \A m \in (k + 1)..s[i] :
               <<c, m>> \in skipped \/ \E j \in 1..Len(s) : s[j] = m
          /\ Active(c) /\ s = <<>> => \A m \in (k + 1)..h : <<c, m>> \in skipped
    BY <1>1, <1>3, <1>11 DEF Track, Joined, Missed
  <2>2. QED
    BY <1>3, <1>5, <1>7, <1>10, <1>11, <2>1 DEF Joined, Missed
<1>15. QED
  BY <1>1, <1>7, <1>12, <1>13, <1>14 DEF Track

\* The emitter sends in order.
LEMMA EmitterTracks ==
    ASSUME Typed, Orderly, Tracks, Emitter
    PROVE  Tracks'
<1>1. SUFFICES ASSUME ~raced' PROVE Unsent' /\ \A c \in Clients : Track(c)'
  BY DEF Tracks
<1>2. ~raced
  BY <1>1 DEF Emitter, Attach, StartRange, Send, EndRange, HandleLine, aux
<1>3. Unsent /\ \A c \in Clients : Track(c)
  BY <1>2 DEF Tracks
<1>4. emitter \in EmitterRecord
  BY DEF Typed, EmitterType
<1>5. CASE Send
  BY <1>2, <1>3, <1>5, SendTracks
<1>6. ASSUME NEW status \in Statuses, HandleLine(status)
      PROVE  Unsent' /\ \A c \in Clients : Track(c)'
  <2>1. emitter'.at = "range"
    BY <1>4, <1>6 DEF HandleLine, EmitterRecord
  <2>2. QED
    BY <1>2, <1>3, <1>6, <2>1, LineTracks DEF Unsent
<1>7. CASE Attach \/ StartRange \/ EndRange
  <2>1. /\ UNCHANGED <<client, chan, written, mem, listeners, statusHistory,
                       skipped>>
        /\ doubled \subseteq doubled'
    BY <1>7 DEF Attach, StartRange, EndRange, aux
  <2>2. Unsent' /\ \A c \in Clients : Awaits(c)' <=> Awaits(c)
    <3>1. CASE Attach \/ EndRange
      <4>1. emitter'.at = "scan"
        BY <1>4, <3>1 DEF Attach, EndRange, EmitterRecord
      <4>2. Left = {}
        BY <1>4, <3>1 DEF Attach, EndRange, Left, EmitterRecord, Header
      <4>3. emitter.at # "range"
        BY <3>1 DEF Attach, EndRange
      <4>4. QED
        BY <4>1, <4>2, <4>3 DEF Unsent, Awaits, Due, Left
    <3>2. CASE StartRange
      <4>1. /\ emitter.at = "range" /\ emitter'.at = "send"
            /\ emitter'.view = listeners /\ emitter'.next = 1
        BY <3>2 DEF StartRange
      <4>2. \A c \in Clients : Awaits(c)' <=> Awaits(c)
        BY <2>1, <4>1 DEF Awaits, Due, Left, Elems, Elem
      <4>3. \A i \in (listeners.len + 1)..Settled : FALSE
        BY TypedSlices DEF Settled
      <4>4. Unsent'
        <5>1. Settled' = Settled
          BY <2>1 DEF Settled, Storing
        <5>2. QED
          BY <4>1, <4>3, <5>1 DEF Unsent
      <4>5. QED
        BY <4>2, <4>4
    <3>3. QED
      BY <1>7, <3>1, <3>2
  <2>3. ASSUME NEW c \in Clients PROVE Track(c)'
    <3>1. Sent(c)' = Sent(c)
      BY <2>1 DEF Sent
    <3>2. (Awaits(c)' <=> Awaits(c)) /\ Spares(c)
      BY <2>2 DEF Spares
    <3>3. Active(c)' => Active(c)
      BY <2>1, <3>2 DEF Active
    <3>4. QED
      BY <1>3, <2>1, <3>1, <3>2, <3>3, TrackMoves
  <2>4. QED
    BY <2>2, <2>3
<1>8. QED
  BY <1>5, <1>6, <1>7 DEF Emitter

\* What others do leaves what has been sent to d.
LEMMA SentKept ==
    ASSUME NEW d, written'[d] = written[d], chan'[d] = chan[d],
           client'[d].copied = client[d].copied
    PROVE  Sent(d)' = Sent(d)
BY DEF Sent

\* A request that joins has been sent nothing.
LEMMA AppendTracks ==
    ASSUME Typed, Orderly, Tracks, NEW c \in Clients, AppendListener(c)
    PROVE  Tracks'
<1> DEFINE n == listeners.len
           v == emitter.view
<1>1. SUFFICES ASSUME ~raced' PROVE Unsent' /\ \A d \in Clients : Track(d)'
  BY DEF Tracks
<1>2. /\ ~raced /\ client[c].at = "append" /\ ~Storing
      /\ listeners'.len = n + 1
      /\ listeners.array <= listeners'.array
      /\ \A i \in 1..n : Elem(mem', listeners', i) = Elem(mem, listeners, i)
      /\ Elem(mem', listeners', n + 1) = c
  BY <1>1, AppendedListeners
<1>3. /\ UNCHANGED <<written, chan, statusHistory, emitter, doubled>>
      /\ skipped \subseteq skipped'
  BY DEF AppendListener
<1>4. /\ Only(c) /\ client'[c].at = "copy"
      /\ client'[c].copied = client[c].copied
  BY UpdatedClient DEF AppendListener, Typed, ClientType, Places
<1>5. Unsent /\ \A d \in Clients : Track(d)
  BY <1>2 DEF Tracks
<1>6. Sent(c) = <<>> /\ \A d \in Clients : Sent(d)' = Sent(d)
  BY <1>2, <1>3, <1>4, <1>5, SentKept DEF Track, Only
<1>7. ASSUME NEW d \in Clients \ {c} PROVE Track(d)'
  <2>1. Spares(d) /\ (Awaits(d)' => Awaits(d))
    BY <1>1, AppendSpares
  <2>2. client'[d] = client[d] /\ client[d].at # "store"
    BY <1>2, <1>4 DEF Only, Storing
  <2>3. Active(d)' => Active(d)
    BY <2>1, <2>2 DEF Active
  <2>4. QED
    BY <1>3, <1>5, <1>6, <2>1, <2>2, <2>3, TrackMoves
<1>8. Track(c)'
  <2>1. Len(<<>>) = 0
    BY EmptySeq
  <2>2. Sent(c)' = <<>>
    BY <1>6
  <2>3. Rising(c)' /\ Current(c)'
    BY <2>1, <2>2 DEF Rising, Current
  <2>4. Joined(c)'
    BY <1>4 DEF Joined, Past
  <2>5. QED
    BY <2>2, <2>3, <2>4 DEF Track
<1>9. Unsent'
  <2>1. /\ n \in Nat /\ listeners.array \in Nat /\ v.array \in Nat
        /\ v.len \in Nat /\ listeners'.array \in Nat
    BY <1>1, TypedSlices, AppendedListeners DEF Header
  <2>2. Settled = n /\ Settled' = n + 1
    <3>1. ~Storing'
      BY <1>2, <1>4 DEF Storing, Only
    <3>2. QED
      BY <1>2, <2>1, <3>1 DEF Settled
  <2>3. SUFFICES ASSUME emitter.at = "send", v.array = listeners'.array,
                        NEW i \in (v.len + 1)..(n + 1), NEW d \in Clients,
                        Elem(mem', listeners', i) = d
                 PROVE  \A j \in 1..Len(Sent(d)) : Sent(d)[j] < Len(statusHistory)
    BY <1>3, <1>6, <2>2 DEF Unsent
  <2>4. v.array = listeners.array
    <3>1. v.array <= listeners.array
      BY <1>2, <2>3 DEF Orderly, Viewed
    <3>2. QED
      BY <1>2, <2>1, <2>3, <3>1
  <2>5. CASE i = n + 1
    <3>1. d = c
      BY <1>2, <2>3, <2>5
    <3>2. QED
      BY <1>6, <3>1, EmptySeq
  <2>6. CASE i # n + 1
    <3>1. i \in (v.len + 1)..n /\ i \in 1..n
      BY <2>1, <2>6
    <3>2. Elem(mem, listeners, i) = d
      BY <1>2, <2>3, <3>1
    <3>3. QED
      BY <1>5, <2>2, <2>3, <2>4, <3>1, <3>2 DEF Unsent
  <2>7. QED
    BY <2>5, <2>6
<1>10. QED
  BY <1>7, <1>8, <1>9

\* A removal costs the others the status in emission at most.
LEMMA MoveTracks ==
    ASSUME Typed, Ledgers, Orderly, Tracks, NEW c \in Clients, MoveListeners(c)
    PROVE  Tracks'
<1> DEFINE k == client[c].found
           n == listeners.len
           v == emitter.view
<1>1. SUFFICES ASSUME ~raced' PROVE Unsent' /\ \A d \in Clients : Track(d)'
  BY DEF Tracks
<1>2. /\ ~raced /\ client[c].at = "remove" /\ ~Storing
      /\ k \in 1..n
      /\ Only(c) /\ client'[c].at = "store"
      /\ client'[c].copied = client[c].copied
      /\ UNCHANGED <<listeners, emitter, statusHistory, chan, written>>
      /\ skipped \subseteq skipped' /\ doubled \subseteq doubled'
  BY <1>1, MovedCells
<1>3. Unsent /\ \A d \in Clients : Track(d)
  BY <1>2 DEF Tracks
<1>4. \A d \in Clients : Sent(d)' = Sent(d)
  BY <1>2, SentKept DEF Only
<1>5. ASSUME NEW d \in Clients \ {c} PROVE Track(d)'
  <2>1. Spares(d) /\ (Awaits(d)' => Awaits(d) \/ d \in Elems(mem, listeners))
    BY <1>1, <1>3, MoveSpares
  <2>2. client'[d] = client[d] /\ client[d].at # "store"
    BY <1>2 DEF Only, Storing
  <2>3. d \in Elems(mem, listeners) => client[d].at \in Enrolled
    BY <1>2, <2>2 DEF Orderly, Listed, Channels, Elems
  <2>4. Active(d)' => Active(d)
    BY <2>1, <2>2, <2>3 DEF Active
  <2>5. QED
    BY <1>2, <1>3, <1>4, <2>1, <2>2, <2>4, TrackMoves
<1>6. Track(c)'
  <2>1. /\ Awaits(c)' => Awaits(c)
        /\ Awaits(c) /\ c \in Elems(mem, listeners)' => Awaits(c)'
    BY <1>1, <1>3, MoveSpares
  <2>2. Active(c)' => Active(c) /\ Spares(c)
    BY <1>2, <2>1 DEF Active, Enrolled, Spares
  <2>3. QED
    BY <1>2, <1>3, <1>4, <2>2, TrackMoves DEF Past
<1>7. Unsent'
  <2>1. n \in Nat /\ v.len \in Nat /\ IsSlice(mem, listeners)
    BY TypedSlices
  <2>2. Settled = n /\ Settled' = n - 1
    BY <1>2, <2>1 DEF Settled, Storing
  <2>3. SUFFICES ASSUME emitter.at = "send", v.array = listeners.array,
                        NEW i \in (v.len + 1)..(n - 1), NEW d \in Clients,
                        Elem(mem', listeners, i) = d
                 PROVE  \A j \in 1..Len(Sent(d)) : Sent(d)[j] < Len(statusHistory)
    BY <1>2, <1>4, <2>2 DEF Unsent
  <2>4. i \in 1..n
    BY <2>1
  <2>5. d = IF i \in k..(n - 1) THEN Elem(mem, listeners, i + 1)
            ELSE Elem(mem, listeners, i)
    BY <1>1, <2>1, <2>3, <2>4, MovedElem
  <2>6. i \in (v.len + 1)..n /\ i + 1 \in (v.len + 1)..n
    BY <2>1
  <2>7. QED
    BY <1>3, <2>2, <2>3, <2>5, <2>6 DEF Unsent
<1>8. QED
  BY <1>5, <1>6, <1>7

\* The header of a removal costs nobody anything.
LEMMA StoreTracks ==
    ASSUME Typed, Orderly, Tracks, NEW c \in Clients, StoreListeners(c)
    PROVE  Tracks'
<1>1. SUFFICES ASSUME ~raced' PROVE Unsent' /\ \A d \in Clients : Track(d)'
  BY DEF Tracks
<1>2. /\ ~raced /\ client[c].at = "store"
      /\ Only(c) /\ client'[c].at = "gone"
      /\ client'[c].copied = client[c].copied
      /\ listeners'.array = listeners.array
      /\ Settled' = Settled
      /\ UNCHANGED <<mem, emitter, statusHistory, chan, written, skipped,
                     doubled>>
  BY <1>1, StoredListeners
<1>3. Unsent /\ \A d \in Clients : Track(d)
  BY <1>2 DEF Tracks
<1>4. \A d \in Clients : Sent(d)' = Sent(d)
  BY <1>2, SentKept DEF Only
<1>5. ASSUME NEW d \in Clients \ {c} PROVE Track(d)'
  <2>1. (Awaits(d)' <=> Awaits(d)) /\ Spares(d)
    BY <1>1, StoreSpares DEF Spares
  <2>2. client'[d] = client[d] /\ client[d].at # "store"
    BY <1>2 DEF Only, Orderly, Listed, OneStores
  <2>3. Active(d)' => Active(d)
    BY <2>1, <2>2 DEF Active
  <2>4. QED
    BY <1>2, <1>3, <1>4, <2>1, <2>2, <2>3, TrackMoves
<1>6. Track(c)'
  <2>1. Awaits(c)' => Awaits(c)
    BY <1>1, StoreSpares
  <2>2. Active(c)' => Active(c) /\ Spares(c)
    BY <1>2, <2>1 DEF Active, Enrolled, Spares
  <2>3. QED
    BY <1>2, <1>3, <1>4, <2>2, TrackMoves DEF Past
<1>7. \A i : Elem(mem', listeners', i) = Elem(mem, listeners, i)
  BY <1>2 DEF Elem
<1>8. Unsent'
  BY <1>2, <1>3, <1>4, <1>7 DEF Unsent
<1>9. QED
  BY <1>5, <1>6, <1>8

\* Some of what the types say.
LEMMA TypedFacts ==
    ASSUME Typed
    PROVE  /\ client \in [Clients -> ClientRecord] /\ listeners \in Header
           /\ Len(statusHistory) \in Nat
<1>1. Len(mem) \in Nat
  BY DEF Typed, MemType, IsMem
<1>2. listeners \in Header
  BY <1>1, SliceIsHeader DEF Typed, MemType
<1>3. Len(statusHistory) \in Nat
  BY DEF Typed, StreamType
<1>4. QED
  BY <1>2, <1>3 DEF Typed, ClientType

\* The other steps of a request leave the slice, and what is due.
LEMMA StayOrderly ==
    ASSUME Typed, Orderly, NEW c \in Clients, ~raced,
           \/ Subscribe(c) \/ Stall(c) \/ CopyHistory(c) \/ Replay(c)
           \/ Receive(c) \/ FindListener(c)
    PROVE  /\ Only(c) /\ Orderly'
           /\ \A d \in Clients : Awaits(d)' <=> Awaits(d)
           /\ UNCHANGED <<mem, listeners, emitter, statusHistory, aux>>
           /\ client[c].at # "store" /\ client'[c].at # "store"
           /\ client'[c].at \in Enrolled <=> client[c].at \in Enrolled
           /\ client'[c].at \in {"idle", "append"} =>
                client[c].at \in {"idle", "append"}
<1>1. UNCHANGED <<mem, listeners, emitter, statusHistory, aux>>
  BY DEF Subscribe, Stall, CopyHistory, Replay, Receive, FindListener
<1>2. /\ Only(c)
      /\ client[c].at # "store" /\ client'[c].at # "store"
      /\ client'[c].at \in Enrolled <=> client[c].at \in Enrolled
      /\ client'[c].at \in {"idle", "append"} =>
           client[c].at \in {"idle", "append"}
  <2>1. /\ client \in [Clients -> ClientRecord] /\ listeners \in Header
        /\ Len(statusHistory) \in Nat
    BY TypedFacts
  <2>2. CASE Subscribe(c)
    BY <2>1, <2>2, SubscribeClient DEF Subscribe, Enrolled
  <2>3. CASE Stall(c)
    <3>1. Goto(c, "stalled") /\ client[c].at \in {"replay", "stream"}
      BY <2>3 DEF Stall
    <3>2. QED
      BY <2>1, <3>1, GotoClient DEF Enrolled, Places
  <2>4. CASE CopyHistory(c)
    BY <2>1, <2>4, CopyHistoryClient DEF CopyHistory, Enrolled
  <2>5. CASE Replay(c)
    <3>1. client[c].at = "replay" /\ (Goto(c, "stream") \/ Goto(c, "cancel"))
      BY <2>5 DEF Replay
    <3>2. QED
      BY <2>1, <3>1, GotoClient DEF Enrolled, Places
  <2>6. CASE Receive(c)
    <3>1. client[c].at = "stream" /\ (Goto(c, "cancel") \/ UNCHANGED client)
      BY <2>6 DEF Receive
    <3>2. QED
      BY <2>1, <3>1, GotoClient DEF Enrolled, Places, Only
  <2>7. CASE FindListener(c)
    <3>1. client[c].at = "cancel"
      BY <2>7 DEF FindListener
    <3>2. \E i \in 1..listeners.len : Elem(mem, listeners, i) = c
      <4>1. \A i \in 1..Settled : i \in 1..listeners.len
        BY TypedSlices DEF Settled
      <4>2. QED
        BY <3>1, <4>1 DEF Orderly, Listed, Once, Enrolled
    <3>3. Only(c) /\ client'[c].at = "remove"
      BY <2>1, <2>7, <3>2, FindListenerClient
    <3>4. QED
      BY <3>1, <3>3 DEF Enrolled
  <2>8. QED
    BY <2>2, <2>3, <2>4, <2>5, <2>6, <2>7
<1>3. QED
  BY <1>1, <1>2, OrderlyKept

\* A copy of the history reaches up to what the channel begins with.
LEMMA CopyTrack ==
    ASSUME Typed, NEW c \in Clients, Ledger(c), Track(c), CopyHistory(c),
           Awaits(c)' <=> Awaits(c)
    PROVE  Track(c)' /\ Sent(c)' = Sent(c)
<1>1. PICK s \in Seq(Nat) : s = chan[c]
  BY SentType
<1>2. PICK h \in Nat : h = Len(statusHistory)
  BY SentType
<1>3. /\ client \in [Clients -> ClientRecord]
      /\ written[c] = <<>> /\ s \in Seq(1..h)
      /\ client[c].copied \in Nat
  BY <1>1, <1>2, SentType DEF Typed, ClientType, StreamType, Ledger, CopyHistory
<1>4. /\ client'[c].at = "replay" /\ client'[c].copied = h
      /\ client[c].at = "copy"
      /\ UNCHANGED <<mem, listeners, written, chan, statusHistory, emitter,
                     skipped, doubled>>
  BY <1>2, <1>3, SentType, CopyHistoryClient DEF CopyHistory, aux
<1>5. <<>> \in Seq(Nat) /\ \A k \in Nat : Len(<<>>) <= k
  BY EmptySeq
<1>6. \A k \in Nat : Rest(<<>>, k, s) = s
  BY <1>5, RestOfChannel
<1>7. Sent(c) = s
  BY <1>1, <1>3, <1>6, SentIsRest
<1>8. Sent(c)' = s
  <2>1. Sent(c)' = Rest(<<>>, h, s)
    BY <1>1, <1>3, <1>4 DEF Sent, Rest
  <2>2. QED
    BY <1>6, <2>1
<1>9. Upto(c)' = Upto(c) /\ Upto(c) \in {h, h - 1} /\ Active(c)
  BY <1>2, <1>4 DEF Upto, Active, Enrolled
<1>10. Rising(c)'
  BY <1>4, <1>7, <1>8 DEF Track, Rising, Missed
<1>11. Current(c)'
  BY <1>4, <1>7, <1>8, <1>9 DEF Track, Current, Missed
<1>12. Joined(c)'
  <2>1. \A i \in 1..Len(s) : s[i] \in 1..h
    BY <1>3
  <2>2. \A i \in 1..Len(s) : \A m \in (h + 1)..s[i] : FALSE
    BY <2>1
  <2>3. \A m \in (h + 1)..Upto(c)' : FALSE
    BY <1>9
  <2>4. QED
    BY <1>4, <1>8, <2>2, <2>3 DEF Joined, Missed
<1>13. QED
  BY <1>4, <1>7, <1>8, <1>10, <1>11, <1>12 DEF Track

\* A replay does not touch the channel.
LEMMA ReplaySent ==
    ASSUME Typed, NEW c \in Clients, Ledger(c), Replay(c)
    PROVE  /\ Sent(c)' = Sent(c)
           /\ client'[c].at \in {"stream", "cancel"}
           /\ client'[c].copied = client[c].copied
           /\ \A d \in Clients \ {c} : written'[d] = written[d]
<1> DEFINE k == client[c].copied
           s == chan[c]
<1>1. /\ client \in [Clients -> ClientRecord]
      /\ written[c] = <<>> /\ s \in Seq(Nat) /\ k \in Nat
      /\ DOMAIN written = Clients
      /\ UNCHANGED chan
  BY SentType DEF Typed, ClientType, StreamType, Ledger, Replay
<1>2. PICK n \in 0..k :
        /\ written' = [written EXCEPT ![c] = [j \in 1..n |-> j]]
        /\ Goto(c, "stream") \/ Goto(c, "cancel")
  BY <1>1, ReplayWrites
<1>3. /\ client'[c].at \in {"stream", "cancel"} /\ client'[c].copied = k
      /\ \A d \in Clients \ {c} : written'[d] = written[d]
      /\ written'[c] = [j \in 1..n |-> j]
  BY <1>1, <1>2, GotoClient DEF Places
<1> DEFINE w == [j \in 1..n |-> j]
<1>4. w \in Seq(Nat) /\ Len(w) <= k
  OBVIOUS
<1>5. Sent(c) = s
  <2>1. <<>> \in Seq(Nat) /\ Len(<<>>) <= k
    BY <1>1, EmptySeq
  <2>2. Rest(<<>>, k, s) = s
    BY <1>1, <2>1, RestOfChannel
  <2>3. QED
    BY <1>1, <2>2, SentIsRest
<1>6. Sent(c)' = s
  <2>1. Sent(c)' = Rest(w, k, s)
    BY <1>1, <1>3 DEF Sent, Rest
  <2> HIDE DEF w
  <2>2. QED
    BY <1>1, <1>4, <2>1, RestOfChannel
<1>7. QED
  BY <1>3, <1>5, <1>6

\* What is received has been sent.
LEMMA ReceiveSent ==
    ASSUME Typed, NEW c \in Clients, Ledger(c), Receive(c)
    PROVE  /\ Sent(c)' = Sent(c)
           /\ client'[c].at \in {"stream", "cancel"}
           /\ client'[c].copied = client[c].copied
           /\ \A d \in Clients \ {c} : /\ written'[d] = written[d]
                                       /\ chan'[d] = chan[d]
<1> DEFINE k == client[c].copied
           s == chan[c]
           w == written[c]
<1>1. /\ client \in [Clients -> ClientRecord]
      /\ w \in Seq(Nat) /\ s \in Seq(Nat) /\ k \in Nat /\ k <= Len(w)
      /\ DOMAIN written = Clients /\ DOMAIN chan = Clients
      /\ s # <<>>
  BY SentType DEF Typed, ClientType, StreamType, Ledger, Receive
<1>2. /\ client[c].at = "stream"
      /\ chan' = [chan EXCEPT ![c] = Tail(@)]
      /\ written' = [written EXCEPT ![c] = Append(@, Head(chan[c]))]
      /\ Goto(c, "cancel") \/ UNCHANGED client
  BY DEF Receive
<1>3. /\ client'[c].at \in {"stream", "cancel"} /\ client'[c].copied = k
  BY <1>1, <1>2, GotoClient DEF Places
<1>4. /\ \A d \in Clients \ {c} : written'[d] = written[d] /\ chan'[d] = chan[d]
      /\ written'[c] = Append(w, Head(s)) /\ chan'[c] = Tail(s)
  BY <1>1, <1>2
<1>5. Sent(c)' = Rest(Append(w, Head(s)), k, Tail(s))
  BY <1>3, <1>4 DEF Sent, Rest
<1>6. Sent(c) = Rest(w, k, s)
  BY SentIsRest
<1> HIDE DEF w, s, k
<1>7. Sent(c)' = Sent(c)
  BY <1>1, <1>5, <1>6, RestOfReceived
<1>8. QED
  BY <1>3, <1>4, <1>7 DEF k

\* A request that does not touch the slice changes nobody's track.
LEMMA StayTracks ==
    ASSUME Typed, Ledgers, Orderly, Tracks, NEW c \in Clients,
           \/ Subscribe(c) \/ Stall(c) \/ CopyHistory(c) \/ Replay(c)
           \/ Receive(c) \/ FindListener(c)
    PROVE  Tracks'
<1>1. SUFFICES ASSUME ~raced' PROVE Unsent' /\ \A d \in Clients : Track(d)'
  BY DEF Tracks
<1>2. ~raced
  BY <1>1 DEF Subscribe, Stall, CopyHistory, Replay, Receive, FindListener, aux
<1>3. Unsent /\ \A d \in Clients : Track(d) /\ Ledger(d)
  BY <1>2 DEF Tracks, Ledgers
<1>4. /\ Only(c) /\ \A e \in Clients : Awaits(e)' <=> Awaits(e)
      /\ UNCHANGED <<mem, listeners, emitter, statusHistory, aux>>
      /\ client[c].at # "store" /\ client'[c].at # "store"
      /\ client'[c].at \in Enrolled <=> client[c].at \in Enrolled
      /\ client'[c].at \in {"idle", "append"} =>
           client[c].at \in {"idle", "append"}
  BY <1>2, StayOrderly
<1>5. \A d \in Clients : Spares(d) /\ (Active(d)' => Active(d))
  BY <1>4 DEF Spares, Active, Only
<1>6. \A d \in Clients \ {c} : Sent(d)' = Sent(d)
  <2>1. ASSUME NEW d \in Clients \ {c}
        PROVE  written'[d] = written[d] /\ chan'[d] = chan[d]
    BY <1>3, ReplaySent, ReceiveSent
       DEF Subscribe, Stall, CopyHistory, Replay, FindListener
  <2>2. QED
    BY <1>4, <2>1, SentKept DEF Only
<1>7. Sent(c)' = Sent(c) /\ Track(c)'
  <2>1. CASE CopyHistory(c)
    BY <1>3, <1>4, <2>1, CopyTrack
  <2>2. CASE ~CopyHistory(c)
    <3>1. /\ Sent(c)' = Sent(c)
          /\ client'[c].at \in Past =>
               client[c].at \in Past /\ client'[c].copied = client[c].copied
      <4>1. CASE Replay(c) \/ Receive(c)
        <5>1. client[c].at \in Past
          BY <4>1 DEF Replay, Receive, Past
        <5>2. QED
          BY <1>3, <4>1, <5>1, ReplaySent, ReceiveSent
      <4>2. CASE Stall(c)
        <5>1. client \in [Clients -> ClientRecord]
          BY TypedFacts
        <5>2. client'[c].copied = client[c].copied
          BY <4>2, <5>1, GotoClient DEF Stall, Places
        <5>3. QED
          BY <4>2, <5>2, SentKept DEF Stall, Past
      <4>3. CASE Subscribe(c)
        <5>1. /\ client \in [Clients -> ClientRecord] /\ listeners \in Header
          BY TypedFacts
        <5>2. client'[c].at = "append" /\ client'[c].copied = client[c].copied
          BY <4>3, <5>1, SubscribeClient DEF Subscribe
        <5>3. QED
          BY <4>3, <5>2, SentKept DEF Subscribe, Past
      <4>4. CASE FindListener(c)
        <5>1. /\ client \in [Clients -> ClientRecord] /\ listeners \in Header
          BY TypedFacts
        <5>2. client'[c].copied = client[c].copied
          BY <4>4, <5>1, FindListenerClient
        <5>3. QED
          BY <4>4, <5>2, SentKept DEF FindListener, Past
      <4>5. QED
        BY <2>2, <4>1, <4>2, <4>3, <4>4
    <3>2. QED
      BY <1>3, <1>4, <1>5, <3>1, TrackMoves DEF aux
  <2>3. QED
    BY <2>1, <2>2
<1>8. ASSUME NEW d \in Clients \ {c} PROVE Track(d)'
  <2>1. client'[d] = client[d]
    BY <1>4 DEF Only
  <2>2. QED
    BY <1>3, <1>4, <1>5, <1>6, <2>1, TrackMoves DEF aux
<1>9. Unsent'
  <2>1. Settled' = Settled
    BY <1>4 DEF Settled, Storing, Only
  <2>2. QED
    BY <1>3, <1>4, <1>6, <1>7, <2>1 DEF Unsent
<1>10. QED
  BY <1>7, <1>8, <1>9

\* Every request keeps what it is sent in order.
LEMMA RequestTracks ==
    ASSUME Typed, Ledgers, Orderly, Tracks, NEW c \in Clients,
           Subscribe(c) \/ Stall(c) \/ Request(c)
    PROVE  Tracks'
BY AppendTracks, MoveTracks, StoreTracks, StayTracks DEF Request

-----------------------------------------------------------------------------
(* What follows for what clients are written.                              *)

\* A status that has been sent is written, behind the history, or waits in
\* the channel.
LEMMA SentIsSomewhere ==
    ASSUME Typed, NEW c \in Clients, NEW i \in 1..Len(Sent(c))
    PROVE  \/ /\ client[c].copied + i \in 1..Len(written[c])
              /\ written[c][client[c].copied + i] = Sent(c)[i]
           \/ \E j \in 1..Len(chan[c]) : chan[c][j] = Sent(c)[i]
<1>1. PICK w \in Seq(Nat) : w = written[c]
  BY SentType
<1>2. PICK s \in Seq(Nat) : s = Sent(c)
  BY SentType
<1>3. PICK ch \in Seq(Nat) : ch = chan[c]
  BY SentType
<1>4. PICK k \in Nat : k = client[c].copied
  BY SentType
<1>5. PICK m \in Nat :
        /\ m = Behind(w, k) /\ Len(s) = m + Len(ch)
        /\ \A j \in 1..m : s[j] = w[k + j]
        /\ \A j \in 1..Len(ch) : s[m + j] = ch[j]
  BY <1>1, <1>2, <1>3, <1>4, SentElements DEF IsRest
<1>6. i \in 1..(m + Len(ch)) /\ Len(ch) \in Nat /\ Len(w) \in Nat
  BY <1>2, <1>5
<1>7. CASE i <= m
  <2>1. i \in 1..m /\ k + i \in 1..Len(w)
    BY <1>5, <1>6, <1>7 DEF Behind
  <2>2. s[i] = w[k + i]
    BY <1>5, <2>1
  <2>3. QED
    BY <1>1, <1>2, <1>4, <2>1, <2>2
<1>8. CASE i > m
  <2>1. i - m \in 1..Len(ch) /\ m + (i - m) = i
    BY <1>6, <1>8
  <2>2. s[i] = ch[i - m]
    BY <1>5, <2>1
  <2>3. QED
    BY <1>2, <1>3, <2>1, <2>2
<1>9. QED
  BY <1>6, <1>7, <1>8

\* Nothing is written but after the status before it, if that was not lost.
LEMMA WrittenWithoutGap ==
    ASSUME Typed, NEW c \in Clients, Ledger(c), Track(c),
           NEW i \in 1..Len(written[c])
    PROVE  \/ written[c][i] = 1
           \/ <<c, written[c][i] - 1>> \in skipped
           \/ \E j \in 1..(i - 1) : written[c][j] = written[c][i] - 1
<1>1. PICK w \in Seq(Nat) : w = written[c]
  BY SentType
<1>2. PICK s \in Seq(Nat) : s = Sent(c)
  BY SentType
<1>3. PICK k \in Nat : k = client[c].copied
  BY SentType
<1>4. PICK m \in Nat :
        /\ m = Behind(w, k) /\ Len(s) = m + Len(chan[c])
        /\ Len(chan[c]) \in Nat /\ Len(w) \in Nat
        /\ \A j \in 1..m : s[j] = w[k + j]
  BY <1>1, <1>2, <1>3, SentElements DEF IsRest
<1>5. \A j \in 1..Len(w) : j <= k => w[j] = j
  BY <1>1, <1>3 DEF Ledger
<1>6. PICK v \in Nat : v = w[i]
  BY <1>1
<1>7. i \in Nat \ {0} /\ i <= Len(w) /\ i \in 1..Len(w)
  BY <1>1, <1>4
<1>8. v # 0
  <2>1. written[c] \in Seq(1..Len(statusHistory))
    BY DEF Typed, StreamType
  <2>2. written[c][i] \in 1..Len(statusHistory)
    BY <2>1
  <2>3. QED
    BY <1>1, <1>6, <2>2, SentType
<1>9. client[c].at \in Past
  <2>1. client[c].at \in Places
    BY DEF Typed, ClientType, ClientRecord
  <2>2. written[c] # <<>>
    BY <1>1, <1>4, <1>7, EmptySeq
  <2>3. QED
    BY <2>1, <2>2 DEF Ledger, Past, Places
<1>10. /\ \A a \in 1..Len(s) : \A x \in (k + 1)..s[a] :
            <<c, x>> \in skipped \/ \E j \in 1..Len(s) : s[j] = x
       /\ \A a, b \in 1..Len(s) : a < b => s[a] <= s[b]
  BY <1>2, <1>3, <1>9 DEF Track, Joined, Rising
<1>11. SUFFICES ASSUME v # 1, <<c, v - 1>> \notin skipped
                PROVE  \E j \in 1..(i - 1) : w[j] = v - 1
  BY <1>1, <1>6
<1>12. CASE v - 1 <= k /\ v <= i
  <2>1. v - 1 \in 1..(i - 1) /\ v - 1 \in 1..Len(w)
    BY <1>4, <1>7, <1>8, <1>11, <1>12
  <2>2. QED
    BY <1>5, <1>12, <2>1
<1>13. CASE i <= k
  BY <1>5, <1>6, <1>7, <1>12, <1>13
<1>14. CASE i > k /\ v - 1 <= k
  BY <1>7, <1>12, <1>14
<1>15. CASE i > k /\ v - 1 > k
  <2>1. PICK a \in Nat : a = i - k
    BY <1>7, <1>15
  <2>2. /\ a \in 1..m /\ k + a = i /\ a \in 1..Len(s)
        /\ m = Len(w) - k
    <3>1. m = Len(w) - k
      BY <1>4, <1>7, <1>15 DEF Behind
    <3>2. a \in 1..m /\ k + a = i
      BY <1>4, <1>7, <1>15, <2>1, <3>1
    <3>3. \A j \in 1..m : j \in 1..Len(s)
      BY <1>4
    <3>4. QED
      BY <3>1, <3>2, <3>3
  <2>3. s[a] = v
    BY <1>4, <1>6, <2>2
  <2>4. PICK j \in 1..Len(s) : s[j] = v - 1
    <3>1. v - 1 \in (k + 1)..s[a]
      BY <1>15, <2>3
    <3>2. QED
      BY <1>10, <1>11, <2>2, <3>1
  <2>5. j < a
    <3>1. CASE a < j
      BY <1>6, <1>10, <2>2, <2>3, <2>4, <3>1
    <3>2. CASE a = j
      BY <2>3, <2>4, <3>2
    <3>3. j \in Nat
      BY <1>2
    <3>4. QED
      BY <2>1, <3>1, <3>2, <3>3
  <2>6. j \in 1..m /\ k + j \in 1..(i - 1)
    BY <1>2, <2>2, <2>5
  <2>7. w[k + j] = v - 1
    BY <1>4, <2>4, <2>6
  <2>8. QED
    BY <2>6, <2>7
<1>16. QED
  BY <1>7, <1>13, <1>14, <1>15

\* Every status is before a streaming request, behind it or with it, or was
\* lost to it.
LEMMA EveryStatusReaches ==
    ASSUME Typed, NEW c \in Clients, Track(c),
           client[c].at \in {"replay", "stream"},
           NEW x \in 1..Len(statusHistory)
    PROVE  Reaches(c, x) \/ <<c, x>> \in skipped
<1>1. PICK s \in Seq(Nat) : s = Sent(c)
  BY SentType
<1>2. PICK h \in Nat : h = Len(statusHistory)
  BY SentType
<1>3. PICK k \in Nat : k = client[c].copied
  BY SentType
<1>4. Active(c) /\ client[c].at \in Past
  BY DEF Active, Enrolled, Past
<1>5. Upto(c) = IF Awaits(c) THEN h - 1 ELSE h
  BY <1>2 DEF Upto
<1>6. PICK u \in Int : u = Upto(c)
  BY <1>5
<1>7. x \in Nat \ {0} /\ x <= h
  BY <1>2
<1>8. CASE x <= k
  BY <1>3, <1>8 DEF Reaches
<1>9. CASE x = h /\ Awaits(c)
  <2>1. CASE emitter.at = "range"
    <3>1. c \in Elems(mem, listeners)
      BY <1>9, <2>1, AwaitsInSend DEF Elems
    <3>2. QED
      BY <1>2, <1>9, <2>1, <3>1 DEF Reaches, Coming
  <2>2. CASE emitter.at = "send"
    <3>1. \E i \in Left : Elem(mem, emitter.view, i) = c
      BY <1>9, <2>2, AwaitsInSend
    <3>2. QED
      BY <1>2, <1>9, <2>2, <3>1 DEF Reaches, Coming, Left
  <2>3. QED
    BY <1>9, <2>1, <2>2, AwaitsInSend
<1>10. CASE x > k /\ x <= u
  <2>1. CASE s = <<>>
    <3>1. \A m \in (k + 1)..u : <<c, m>> \in skipped
      BY <1>1, <1>3, <1>4, <1>6, <2>1 DEF Track, Joined, Missed
    <3>2. x \in (k + 1)..u
      BY <1>7, <1>10
    <3>3. QED
      BY <3>1, <3>2
  <2>2. CASE s # <<>>
    <3>1. PICK n \in Nat : n = Len(s) /\ n \in 1..Len(s)
      BY <2>2, EmptySeq
    <3>2. PICK last \in Nat : last = s[n]
      BY <3>1
    <3>3. \A m \in (last + 1)..u : <<c, m>> \in skipped
      BY <1>1, <1>4, <1>6, <2>2, <3>1, <3>2 DEF Track, Current, Missed
    <3>4. CASE x > last
      <4>1. x \in (last + 1)..u
        BY <1>7, <1>10, <3>4
      <4>2. QED
        BY <3>3, <4>1
    <3>5. CASE x <= last
      <4>1. x \in (k + 1)..s[n]
        BY <1>7, <1>10, <3>2, <3>5
      <4>2. <<c, x>> \in skipped \/ \E j \in 1..Len(s) : s[j] = x
        BY <1>1, <1>3, <1>4, <3>1, <4>1 DEF Track, Joined
      <4>3. ASSUME NEW j \in 1..Len(s), s[j] = x PROVE Reaches(c, x)
        BY <1>1, <4>3, SentIsSomewhere DEF Reaches
      <4>4. QED
        BY <4>2, <4>3
    <3>6. QED
      BY <1>7, <3>4, <3>5
  <2>3. QED
    BY <2>1, <2>2
<1>11. QED
  BY <1>5, <1>6, <1>7, <1>8, <1>9, <1>10

-----------------------------------------------------------------------------
(* The invariant, and what follows from it.                                *)

IInv == Typed /\ Ledgers /\ Orderly /\ Tracks

\* The invariant holds in the beginning.
LEMMA InitIInv == Init => IInv
<1>1. SUFFICES ASSUME Init PROVE IInv
  OBVIOUS
<1>2. Ledgers
  <2>1. ASSUME NEW c \in Clients PROVE Ledger(c)
    <3>1. client[c].at = "idle" /\ written[c] = <<>>
      BY <1>1 DEF Init
    <3>2. 1..Len(written[c]) = {}
      BY <3>1
    <3>3. QED
      BY <3>1, <3>2 DEF Ledger
  <2>2. QED
    BY <2>1 DEF Ledgers
<1>3. QED
  BY <1>1, <1>2, InitTyped, InitOrderly, InitTracks DEF IInv

\* The invariant depends on the variables alone.
LEMMA StutterIInv == IInv /\ UNCHANGED vars => IInv'
<1>1. SUFFICES ASSUME IInv, UNCHANGED vars PROVE IInv'
  OBVIOUS
<1>2. UNCHANGED <<mem, listeners, statusHistory, state, emitter, client, chan,
                  written, raced, skipped, doubled>>
  BY <1>1 DEF vars
<1>3. Typed'
  BY <1>1, <1>2 DEF IInv, Typed, MemType, EmitterType, ClientType, StreamType,
                    PlainType, Pairs, Shortened
<1>4. Ledgers'
  BY <1>1, <1>2 DEF IInv, Ledgers, Ledger
<1>5. Settled' = Settled /\ Left' = Left
  BY <1>2 DEF Settled, Storing, Left
<1>6. Orderly'
  <2>1. Listed' <=> Listed
    BY <1>2, <1>5 DEF Listed, OneStores, Channels, Once
  <2>2. Viewed' <=> Viewed
    BY <1>2, <1>5 DEF Viewed
  <2>3. QED
    BY <1>1, <1>2, <2>1, <2>2 DEF IInv, Orderly
<1>7. Tracks'
  <2>1. SUFFICES ASSUME ~raced PROVE Unsent' /\ \A c \in Clients : Track(c)'
    BY <1>2 DEF Tracks
  <2>2. \A c \in Clients : Sent(c)' = Sent(c) /\ (Awaits(c)' <=> Awaits(c))
    BY <1>2, <1>5 DEF Sent, Awaits, Due
  <2>3. Unsent'
    BY <1>1, <1>2, <1>5, <2>1, <2>2 DEF IInv, Tracks, Unsent
  <2>4. ASSUME NEW c \in Clients PROVE Track(c)'
    <3>1. Active(c)' => Active(c) /\ Spares(c)
      BY <1>2, <2>2 DEF Active, Spares
    <3>2. QED
      BY <1>1, <1>2, <2>1, <2>2, <3>1, TrackMoves DEF IInv, Tracks
  <2>5. QED
    BY <2>3, <2>4
<1>8. QED
  BY <1>3, <1>4, <1>6, <1>7 DEF IInv

\* A request that changes the slice keeps it in order.
LEMMA RequestOrderly ==
    ASSUME Typed, Ledgers, Orderly, NEW c \in Clients,
           Subscribe(c) \/ Stall(c) \/ Request(c)
    PROVE  Orderly'
<1>1. CASE AppendListener(c)
  BY <1>1, AppendOrderly DEF Orderly
<1>2. CASE MoveListeners(c)
  BY <1>2, MoveOrderly DEF Orderly
<1>3. CASE StoreListeners(c)
  BY <1>3, StoreOrderly DEF Orderly
<1>4. CASE \/ Subscribe(c) \/ Stall(c) \/ CopyHistory(c) \/ Replay(c)
           \/ Receive(c) \/ FindListener(c)
  <2>1. CASE raced
    BY <1>4, <2>1
       DEF Orderly, Subscribe, Stall, CopyHistory, Replay, Receive,
           FindListener, aux
  <2>2. CASE ~raced
    BY <1>4, <2>2, StayOrderly
  <2>3. QED
    BY <2>1, <2>2
<1>5. QED
  BY <1>1, <1>2, <1>3, <1>4 DEF Request

\* Every step keeps the invariant.
LEMMA NextIInv == IInv /\ [Next]_vars => IInv'
<1>1. SUFFICES ASSUME IInv, [Next]_vars PROVE IInv'
  OBVIOUS
<1>2. Typed /\ Ledgers /\ Orderly /\ Tracks
  BY <1>1 DEF IInv
<1>3. CASE Emitter
  <2>1. Typed'
    BY <1>2, <1>3, EmitterTyped
  <2>2. Ledgers'
    BY <1>2, <1>3, EmitterLedgers
  <2>3. Orderly'
    BY <1>2, <1>3, EmitterOrderly
  <2>4. Tracks'
    BY <1>2, <1>3, EmitterTracks
  <2>5. QED
    BY <2>1, <2>2, <2>3, <2>4 DEF IInv
<1>4. ASSUME NEW c \in Clients, Subscribe(c) \/ Stall(c) \/ Request(c)
      PROVE  IInv'
  <2>1. Typed'
    BY <1>2, <1>4, RequestTyped DEF Ledgers
  <2>2. Ledgers'
    BY <1>2, <1>4, RequestLedgers
  <2>3. Orderly'
    BY <1>2, <1>4, RequestOrderly
  <2>4. Tracks'
    BY <1>2, <1>4, RequestTracks
  <2>5. QED
    BY <2>1, <2>2, <2>3, <2>4 DEF IInv
<1>5. CASE UNCHANGED vars
  BY <1>1, <1>5, StutterIInv
<1>6. QED
  BY <1>1, <1>3, <1>4, <1>5 DEF Next

\* The inductive invariant of the agent.
THEOREM Invariance == Spec => []IInv
<1>1. QED
  BY InitIInv, NextIInv, PTL DEF Spec

\* The variables have their types: slices stay within their arrays, although
\* requests replace them without a lock, and what is sent and written are
\* statuses that have been emitted.
THEOREM TypeCorrect == Spec => []TypeOK
<1>1. IInv => TypeOK
  BY TypeByParts DEF IInv
<1>2. QED
  BY <1>1, Invariance, PTL

\* emitStatus sends the statuses in turn.  As long as no two updates of the
\* slice overlapped, a channel that listens gets them in order and each once,
\* but for one that an update in the middle of its emission took from it or
\* sent it twice.
THEOREM OrderKept == Spec => []InOrder
<1>1. IInv => InOrder
  BY DEF IInv, Tracks, Track, Rising, Missed, InOrder
<1>2. QED
  BY <1>1, Invariance, PTL

\* A request that streams gets every status: what it copied, what its channel
\* brings and what the emission in progress has yet to send leave out none
\* but those that an update in the middle of an emission took from it, as
\* long as no two updates overlapped.
THEOREM NoneMissed == Spec => []NothingMissed
<1>1. IInv => NothingMissed
  BY EveryStatusReaches DEF IInv, NothingMissed, Tracks
<1>2. QED
  BY <1>1, Invariance, PTL

\* What is written to a client has no gap but where a status was lost to an
\* update in the middle of its emission, as long as no two updates overlapped.
THEOREM GapFree == Spec => []NoGap
<1>1. IInv => NoGap
  BY WrittenWithoutGap DEF IInv, NoGap, Tracks, Ledgers
<1>2. QED
  BY <1>1, Invariance, PTL

\* An append takes the status in emission from at most one listener: the one
\* whose cell it writes over.
LEMMA AppendLosesOne ==
    ASSUME Typed, Orderly, NEW c \in Clients, AppendListener(c), ~raced',
           NEW x \in Lost(c), NEW y \in Lost(c)
    PROVE  x = y
<1>1. PICK k \in Nat : \A i \in 1..emitter.view.len :
        Elem(mem', emitter.view, i) =
          IF i = k THEN c ELSE Elem(mem, emitter.view, i)
  BY AppendedView
<1>2. Left \subseteq 1..emitter.view.len
  BY LeftIsOf
<1>3. ASSUME NEW z \in (Due(mem) \ Due(mem')) \ {c}
      PROVE  z = Elem(mem, emitter.view, k)
  <2>1. PICK i \in Left : Elem(mem, emitter.view, i) = z /\ z \in Clients
    BY <1>3 DEF Due
  <2>2. Elem(mem', emitter.view, i) # z
    BY <1>3, <2>1 DEF Due
  <2>3. QED
    BY <1>1, <1>2, <2>1, <2>2
<1>4. QED
  BY <1>3 DEF Lost

\* So does a removal: the one that the emission was about to send to.
LEMMA MoveLosesOne ==
    ASSUME Typed, Ledgers, Orderly, NEW c \in Clients, MoveListeners(c),
           ~raced', NEW x \in Lost(c), NEW y \in Lost(c)
    PROVE  x = y
<1> DEFINE v == emitter.view
           k == client[c].found
           n == listeners.len
           old(i) == Elem(mem, listeners, i)
<1>1. /\ k \in 1..n /\ old(k) = c /\ n \in Nat
      /\ v.len \in Nat /\ IsSlice(mem, v)
  BY MovedCells, TypedSlices
<1>2. \A i \in 1..v.len :
        Elem(mem', v, i) =
          IF v.array = listeners.array /\ i \in k..(n - 1)
          THEN old(i + 1) ELSE Elem(mem, v, i)
  BY <1>1, MovedElem
<1>3. Left \subseteq 1..v.len
  BY LeftIsOf
<1>4. ASSUME NEW z \in (Due(mem) \ Due(mem')) \ {c}
      PROVE  z = Elem(mem, v, emitter.next)
  <2>1. PICK i \in Left : Elem(mem, v, i) = z /\ z \in Clients
    BY <1>4 DEF Due
  <2>2. \A j \in Left : Elem(mem', v, j) # z
    BY <1>4, <2>1 DEF Due
  <2>3. v.array = listeners.array /\ i \in k..(n - 1)
    BY <1>2, <1>3, <2>1, <2>2
  <2>4. old(i) = z
    BY <2>1, <2>3 DEF Elem
  <2>5. i # k
    BY <1>1, <1>4, <2>4
  <2>6. CASE i = emitter.next
    BY <2>1, <2>6
  <2>7. CASE i # emitter.next
    <3>1. emitter.next \in Nat /\ i \in emitter.next..v.len
      BY <2>1 DEF Left, Typed, EmitterType, EmitterRecord
    <3>2. i - 1 \in Left
      BY <1>1, <2>1, <2>7, <3>1 DEF Left
    <3>3. i - 1 \in k..(n - 1) /\ (i - 1) + 1 = i
      BY <1>1, <2>3, <2>5
    <3>4. Elem(mem', v, i - 1) = old((i - 1) + 1)
      BY <1>2, <1>3, <2>3, <3>2, <3>3
    <3>5. QED
      BY <2>2, <2>4, <3>2, <3>3, <3>4
  <2>8. QED
    BY <2>6, <2>7
<1>5. QED
  BY <1>4 DEF Lost

\* An update of the slice that does not overlap with another one costs at
\* most one listener the status in emission, however many cells it moves
\* under the emitter.
THEOREM OneIsLost == Spec => OneLost
<1>1. ASSUME IInv, Next, ~raced', NEW x \in skipped' \ skipped,
             NEW y \in skipped' \ skipped
      PROVE  x = y
  <2>1. Typed /\ Ledgers /\ Orderly
    BY <1>1 DEF IInv
  <2>2. CASE UNCHANGED skipped
    BY <1>1, <2>2
  <2>3. ASSUME NEW c \in Clients, AppendListener(c) PROVE x = y
    <3>1. x \in Lost(c) /\ y \in Lost(c)
      BY <1>1, <2>3 DEF AppendListener
    <3>2. QED
      BY <1>1, <2>1, <2>3, <3>1, AppendLosesOne
  <2>4. ASSUME NEW c \in Clients, MoveListeners(c) PROVE x = y
    <3>1. x \in Lost(c) /\ y \in Lost(c)
      BY <1>1, <2>4 DEF MoveListeners
    <3>2. QED
      BY <1>1, <2>1, <2>4, <3>1, MoveLosesOne
  <2>5. \/ UNCHANGED skipped
        \/ \E c \in Clients : AppendListener(c) \/ MoveListeners(c)
    <3>1. CASE Emitter
      BY <3>1 DEF Emitter, Attach, StartRange, Send, EndRange, HandleLine, aux
    <3>2. ASSUME NEW c \in Clients, Subscribe(c) \/ Stall(c) \/ Request(c)
          PROVE  \/ UNCHANGED skipped
                 \/ AppendListener(c) \/ MoveListeners(c)
      BY <3>2 DEF Request, Subscribe, Stall, CopyHistory, Replay, Receive,
                  FindListener, StoreListeners, aux
    <3>3. QED
      BY <1>1, <3>1, <3>2 DEF Next
  <2>6. QED
    BY <2>2, <2>3, <2>4, <2>5
<1>2. IInv /\ [Next]_vars =>
        [raced' \/ \A x, y \in skipped' \ skipped : x = y]_vars
  BY <1>1
<1>3. QED
  BY <1>2, Invariance, PTL DEF Spec, OneLost

-----------------------------------------------------------------------------
(* The agent implements the stream of statuses, until updates overlap.     *)

\* A request that still streams has written no Done.
Clear(c) ==
    client[c].at = "stream" =>
      \A i \in 1..Len(written[c]) : statusHistory[written[c][i]] # "Done"

RInv == IInv /\ (~raced => \A c \in Clients : Clear(c))

\* The position of c is the newest status it has written, or 0.
Newest(c) ==
    \/ written[c] = <<>> /\ Position(c) = 0
    \/ /\ \E i \in 1..Len(written[c]) : Position(c) = written[c][i]
       /\ \A j \in 1..Len(written[c]) : written[c][j] <= Position(c)

\* There is a newest status.
LEMMA PositionIs ==
    ASSUME NEW c \in Clients, Typed, Ledger(c)
    PROVE  Newest(c)
<1> DEFINE w == written[c]
           seen == {w[i] : i \in 1..Len(w)}
<1>1. Position(c) = IF seen = {} THEN 0
                    ELSE CHOOSE k \in seen : \A j \in seen : j <= k
  BY DEF Position
<1>2. w \in Seq(Nat)
  BY SentType
<1>3. CASE w = <<>>
  <2>1. seen = {}
    BY <1>3
  <2>2. QED
    BY <1>1, <1>3, <2>1 DEF Newest
<1>4. CASE w # <<>>
  <2>1. PICK i \in 1..Len(w) : \A j \in 1..Len(w) : w[j] <= w[i]
    BY <1>4 DEF Ledger
  <2>2. w[i] \in seen /\ \A j \in seen : j <= w[i]
    BY <2>1
  <2>3. /\ Position(c) \in seen
        /\ \A j \in seen : j <= Position(c)
    <3>1. \E k \in seen : \A j \in seen : j <= k
      BY <2>2
    <3> HIDE DEF seen
    <3>2. seen # {}
      BY <2>2
    <3>3. QED
      BY <1>1, <3>1, <3>2
  <2>4. QED
    BY <2>3 DEF Newest
<1>5. QED
  BY <1>3, <1>4

\* It is a status that has been emitted, or 0.
InHistory(c) ==
    /\ Position(c) \in Nat
    /\ Position(c) <= Len(statusHistory)
    /\ \A j \in 1..Len(written[c]) : /\ written[c][j] \in Nat \ {0}
                                     /\ written[c][j] <= Position(c)

\* What has been written has been emitted.
LEMMA PositionInHistory ==
    ASSUME NEW c \in Clients, Typed, Ledger(c)
    PROVE  InHistory(c)
<1>1. /\ written[c] \in Seq(1..Len(statusHistory))
      /\ Len(statusHistory) \in Nat
  BY DEF Typed, StreamType
<1>2. \A j \in 1..Len(written[c]) : /\ written[c][j] \in Nat \ {0}
                                    /\ written[c][j] <= Len(statusHistory)
  BY <1>1
<1>3. CASE written[c] = <<>> /\ Position(c) = 0
  <2>1. 1..Len(written[c]) = {}
    BY <1>3
  <2>2. QED
    BY <1>1, <1>3, <2>1 DEF InHistory
<1>4. CASE written[c] # <<>> \/ Position(c) # 0
  <2>1. /\ \E i \in 1..Len(written[c]) : Position(c) = written[c][i]
        /\ \A j \in 1..Len(written[c]) : written[c][j] <= Position(c)
    BY <1>4, PositionIs DEF Newest
  <2>2. QED
    BY <1>1, <1>2, <2>1 DEF InHistory
<1>5. QED
  BY <1>3, <1>4

\* The facts about positions, of a state ...
Located == \A c \in Clients : Newest(c) /\ InHistory(c)

LEMMA PositionsNow == IInv => Located
BY PositionIs, PositionInHistory DEF IInv, Ledgers, Located

\* ... and of the next.
LEMMA PositionsNext == IInv' => Located'
BY PositionsNow, PTL

\* Where nothing is written, nobody advances.
LEMMA SamePositions == UNCHANGED written => UNCHANGED Positions
BY DEF Positions, Position

\* A request writes for its own client.
LEMMA OneAdvances ==
    ASSUME NEW c \in Clients, NEW p, p = Position(c)',
           \A d \in Clients \ {c} : written'[d] = written[d]
    PROVE  Positions' = [Positions EXCEPT ![c] = p]
<1>1. Positions' = [d \in Clients |-> Position(d)']
  BY DEF Positions
<1>2. ASSUME NEW d \in Clients \ {c} PROVE Position(d)' = Position(d)
  <2>1. written'[d] = written[d]
    OBVIOUS
  <2>2. QED
    BY <2>1 DEF Position
<1>3. QED
  BY <1>1, <1>2 DEF Positions

\* The history is read to its first Done.
LEMMA ReplayDelivers ==
    ASSUME IInv, NEW c \in Clients, Replay(c), IInv'
    PROVE  UNCHANGED Positions \/ Stream!Deliver(c)
<1> DEFINE k == client[c].copied
           h == Len(statusHistory)
<1>1. /\ Typed /\ Ledger(c) /\ Typed' /\ Ledger(c)' /\ k \in Nat
      /\ written[c] = <<>> /\ client[c] \in ClientRecord /\ k <= h /\ h \in Nat
      /\ DOMAIN written = Clients
      /\ UNCHANGED statusHistory
  BY SentType
     DEF IInv, Ledgers, Ledger, Replay, Typed, ClientType, StreamType
<1>2. PICK n \in 0..k :
        /\ written' = [written EXCEPT ![c] = [j \in 1..n |-> j]]
        /\ \A j \in 1..(n - 1) : statusHistory[j] # "Done"
  BY <1>1, ReplayWrites
<1>3. /\ written'[c] = [j \in 1..n |-> j]
      /\ \A d \in Clients \ {c} : written'[d] = written[d]
  BY <1>1, <1>2
<1>4. /\ n \in Nat /\ Len(written'[c]) = n
      /\ \A j \in 1..n : written'[c][j] = j
  BY <1>1, <1>2, <1>3
<1>5. \/ written'[c] = <<>> /\ Position(c)' = 0
      \/ /\ \E i \in 1..n : Position(c)' = written'[c][i]
         /\ \A j \in 1..n : written'[c][j] <= Position(c)'
  <2>1. Newest(c)'
    BY PositionsNext DEF Located
  <2>2. QED
    BY <1>4, <2>1 DEF Newest
<1>6. Position(c)' = n
  <2>1. CASE n = 0
    BY <1>5, <2>1
  <2>2. CASE n # 0
    <3>1. n \in 1..n /\ 1 \in 1..n
      BY <1>4, <2>2
    <3>2. written'[c] # <<>>
      BY <1>4, <2>2
    <3>3. QED
      BY <1>4, <1>5, <3>1, <3>2
  <2>3. QED
    BY <2>1, <2>2
<1>7. Position(c) = 0
  <2>1. 1..Len(written[c]) = {}
    BY <1>1
  <2>2. QED
    BY <1>1, <2>1, PositionIs DEF Newest
<1>8. Positions' = [Positions EXCEPT ![c] = n] /\ Positions[c] = 0
  BY <1>3, <1>6, <1>7, OneAdvances DEF Positions
<1>9. CASE n = 0
  <2>1. Positions = [d \in Clients |-> Positions[d]]
    BY DEF Positions
  <2>2. QED
    BY <1>8, <1>9, <2>1
<1>10. CASE n # 0
  <2>1. n \in (Positions[c] + 1)..h
    BY <1>1, <1>4, <1>8, <1>10
  <2>2. QED
    BY <1>1, <1>2, <1>8, <2>1 DEF Stream!Deliver
<1>11. QED
  BY <1>9, <1>10

\* A status that comes next from the channel is behind no Done but one that was
\* lost to the request: the others that are behind it have been written.
LEMMA NextFromChannel ==
    ASSUME Typed, NEW c \in Clients, Ledger(c), Track(c), Clear(c),
           client[c].at = "stream", chan[c] # <<>>,
           NEW x \in 1..(Head(chan[c]) - 1)
    PROVE  statusHistory[x] # "Done" \/ <<c, x>> \in skipped
<1>1. PICK w \in Seq(Nat) : w = written[c]
  BY SentType
<1>2. PICK s \in Seq(Nat) : s = Sent(c)
  BY SentType
<1>3. PICK k \in Nat : k = client[c].copied
  BY SentType
<1>4. PICK ch \in Seq(Nat) : ch = chan[c] /\ ch # <<>>
  BY SentType
<1>5. PICK n \in Nat : n = Len(w)
  OBVIOUS
<1>6. k <= n
  BY <1>1, <1>3, <1>5 DEF Ledger
<1>7. PICK m \in Nat :
        /\ m = n - k /\ Len(s) = m + Len(ch)
        /\ \A j \in 1..m : s[j] = w[k + j]
        /\ \A j \in 1..Len(ch) : s[m + j] = ch[j]
  BY <1>1, <1>2, <1>3, <1>4, <1>5, <1>6, SentElements DEF IsRest, Behind
<1>8. 1 \in 1..Len(ch) /\ Len(ch) \in Nat /\ Head(ch) = ch[1]
  BY <1>4, EmptySeq
<1>9. PICK v \in Nat : v = Head(chan[c]) /\ v = s[m + 1]
  <2>1. ch[1] \in Nat /\ s[m + 1] = ch[1]
    BY <1>7, <1>8
  <2>2. QED
    BY <1>4, <1>8, <2>1
<1>10. m + 1 \in 1..Len(s)
  BY <1>7, <1>8
<1>11. x \in Nat \ {0} /\ x < v
  BY <1>9
<1>12. \A i \in 1..n : statusHistory[w[i]] # "Done"
  BY <1>1, <1>5 DEF Clear
<1>13. CASE x <= k
  <2>1. x \in 1..n
    BY <1>6, <1>11, <1>13
  <2>2. w[x] = x
    BY <1>1, <1>3, <1>5, <1>13, <2>1 DEF Ledger
  <2>3. QED
    BY <1>12, <2>1, <2>2
<1>14. CASE x > k
  <2>1. x \in (k + 1)..s[m + 1]
    BY <1>9, <1>11, <1>14
  <2>2. <<c, x>> \in skipped \/ \E j \in 1..Len(s) : s[j] = x
    BY <1>2, <1>3, <1>10, <2>1 DEF Track, Joined, Past
  <2>3. ASSUME NEW j \in 1..Len(s), s[j] = x PROVE statusHistory[x] # "Done"
    <3>1. j <= m
      <4>1. ~(m + 1 < j)
        <5>1. m + 1 < j => s[m + 1] <= s[j]
          BY <1>2, <1>10 DEF Track, Rising
        <5>2. QED
          BY <1>9, <1>11, <2>3, <5>1
      <4>2. j # m + 1
        BY <1>9, <1>11, <2>3
      <4>3. QED
        BY <1>7, <4>1, <4>2
    <3>2. j \in 1..m /\ k + j \in 1..n
      BY <1>7, <3>1
    <3>3. w[k + j] = x
      BY <1>7, <2>3, <3>2
    <3>4. QED
      BY <1>12, <3>2, <3>3
  <2>4. QED
    BY <2>2, <2>3
<1>15. QED
  BY <1>11, <1>13, <1>14

\* A status from the channel is one that the client has, or the next one that
\* it can be given; or it comes behind a Done that was lost.
LEMMA ReceiveDelivers ==
    ASSUME IInv, ~raced, NEW c \in Clients, Clear(c), Receive(c), IInv'
    PROVE  UNCHANGED Positions \/ Stream!Deliver(c) \/ Overrun
<1> DEFINE w == written[c]
           x == Head(chan[c])
           h == Len(statusHistory)
           p == Position(c)
           q == Position(c)'
<1>1. /\ Typed /\ Ledger(c) /\ Track(c)
      /\ UNCHANGED statusHistory
  BY DEF IInv, Ledgers, Tracks, Receive
<1>2. /\ chan[c] \in Seq(Nat) /\ chan[c] # <<>> /\ w \in Seq(Nat)
      /\ client[c].at = "stream"
      /\ DOMAIN written = Clients /\ h \in Nat
      /\ written' = [written EXCEPT ![c] = Append(@, x)]
      /\ chan[c] \in Seq(1..h)
  BY <1>1, SentType DEF Receive, Typed, StreamType
<1>3. x \in Nat /\ x \in 1..h /\ Len(w) \in Nat
  BY <1>2
<1>4. /\ written'[c] = Append(w, x)
      /\ \A d \in Clients \ {c} : written'[d] = written[d]
  BY <1>2
<1> DEFINE n == Len(w)
<1>5. /\ Len(written'[c]) = n + 1 /\ written'[c][n + 1] = x
      /\ \A j \in 1..n : written'[c][j] = w[j]
      /\ n + 1 \in 1..(n + 1) /\ (n + 1) - 1 = n
  BY <1>2, <1>3, <1>4, AppendProperties
<1>6. /\ p \in Nat /\ p <= h
      /\ \A j \in 1..n : w[j] \in Nat \ {0} /\ w[j] <= p
      /\ \/ w = <<>> /\ p = 0
         \/ \E i \in 1..n : p = w[i]
  BY <1>1, PositionInHistory, PositionIs DEF Newest, InHistory
<1>7. /\ q \in Nat /\ q <= h
      /\ \A j \in 1..(n + 1) : written'[c][j] <= q
      /\ \E i \in 1..(n + 1) : q = written'[c][i]
  <2>1. q \in Nat /\ q <= Len(statusHistory')
        /\ \A j \in 1..Len(written'[c]) : written'[c][j] <= q
    BY PositionsNext DEF Located, InHistory
  <2>2. \/ written'[c] = <<>> /\ q = 0
        \/ \E i \in 1..Len(written'[c]) : q = written'[c][i]
    BY PositionsNext DEF Located, Newest
  <2>3. written'[c] # <<>>
    BY <1>3, <1>5
  <2>4. QED
    BY <1>1, <1>5, <2>1, <2>2, <2>3
<1>8. \A k \in 1..(x - 1) : statusHistory[k] # "Done" \/ <<c, k>> \in skipped
  BY <1>1, <1>2, NextFromChannel
<1>9. Positions' = [Positions EXCEPT ![c] = q] /\ Positions[c] = p
  BY <1>4, OneAdvances DEF Positions
<1> HIDE DEF w, x, h, p, q, n
<1>10. x <= q /\ (q = x \/ \E i \in 1..n : q = w[i])
  <2>1. PICK i \in 1..(n + 1) : q = written'[c][i]
    BY <1>7
  <2>2. i \in 1..n \/ i = n + 1
    BY <1>3, <2>1 DEF n
  <2>3. QED
    BY <1>5, <1>7, <2>1, <2>2
<1>11. p <= q
  BY <1>5, <1>6, <1>7, <1>3 DEF n
<1>12. CASE q <= p
  <2>1. q = p
    BY <1>6, <1>7, <1>11, <1>12
  <2>2. Positions = [d \in Clients |-> Positions[d]]
    BY DEF Positions
  <2>3. QED
    BY <1>9, <2>1, <2>2
<1>13. CASE q > p
  <2>1. q = x
    BY <1>6, <1>7, <1>10, <1>13
  <2>2. q \in (Positions[c] + 1)..h
    BY <1>6, <1>7, <1>9, <1>13
  <2>3. CASE \A k \in 1..(q - 1) : statusHistory[k] # "Done"
    BY <1>1, <1>9, <2>2, <2>3 DEF Stream!Deliver, h
  <2>4. ASSUME NEW k \in 1..(q - 1), statusHistory[k] = "Done"
        PROVE  Overrun
    <3>1. k \in 1..Len(statusHistory)
      <4>1. h \in Nat
        BY <1>2 DEF h
      <4>2. k \in 1..h
        BY <1>7, <2>4, <4>1
      <4>3. QED
        BY <4>2 DEF h
    <3>2. MissedDone(c)
      BY <1>8, <2>1, <2>4, <3>1 DEF MissedDone
    <3>3. \A d \in Clients \ {c} : Positions'[d] = Positions[d]
      BY <1>9 DEF Positions
    <3>4. QED
      BY <1>1, <3>2, <3>3 DEF Overrun
  <2>5. QED
    BY <2>3, <2>4
<1>14. QED
  BY <1>6, <1>7, <1>12, <1>13

\* A history without a Done lets its request stream on.
LEMMA ReplayClear ==
    ASSUME Typed, NEW c \in Clients, Replay(c)
    PROVE  Clear(c)'
<1> DEFINE k == client[c].copied
<1>1. /\ k \in Nat /\ DOMAIN written = Clients
      /\ client \in [Clients -> ClientRecord] /\ UNCHANGED statusHistory
  BY SentType DEF Typed, ClientType, StreamType, Replay
<1>2. PICK n \in 0..k :
        /\ written' = [written EXCEPT ![c] = [j \in 1..n |-> j]]
        /\ \/ /\ Goto(c, "stream")
              /\ \A j \in 1..n : statusHistory[j] # "Done"
           \/ Goto(c, "cancel")
  BY <1>1, ReplayWrites
<1>3. CASE Goto(c, "cancel")
  BY <1>1, <1>3, GotoClient DEF Clear, Places
<1>4. CASE \A j \in 1..n : statusHistory[j] # "Done"
  <2>1. written'[c] = [j \in 1..n |-> j] /\ n \in Nat
    BY <1>1, <1>2
  <2>2. /\ Len(written'[c]) = n
        /\ \A i \in 1..n : written'[c][i] = i
    BY <2>1
  <2>3. QED
    BY <1>1, <1>4, <2>2 DEF Clear
<1>5. QED
  BY <1>2, <1>3, <1>4

\* A status that is not a Done lets its request stream on.
LEMMA ReceiveClear ==
    ASSUME Typed, NEW c \in Clients, Clear(c), Receive(c)
    PROVE  Clear(c)'
<1> DEFINE w == written[c]
           x == Head(chan[c])
           n == Len(w)
<1>1. /\ chan[c] \in Seq(Nat) /\ chan[c] # <<>> /\ w \in Seq(Nat) /\ n \in Nat
      /\ DOMAIN written = Clients
      /\ written' = [written EXCEPT ![c] = Append(@, x)]
      /\ client \in [Clients -> ClientRecord]
      /\ client[c].at = "stream" /\ UNCHANGED statusHistory
  BY SentType DEF Typed, StreamType, ClientType, Receive
<1>2. x \in Nat /\ written'[c] = Append(w, x)
  BY <1>1
<1>3. /\ Len(written'[c]) = n + 1 /\ written'[c][n + 1] = x
      /\ \A j \in 1..n : written'[c][j] = w[j]
      /\ \A j \in 1..(n + 1) : j \in 1..n \/ j = n + 1
  BY <1>1, <1>2, AppendProperties
<1>4. CASE statusHistory[x] = "Done"
  <2>1. Goto(c, "cancel")
    BY <1>4 DEF Receive
  <2>2. QED
    BY <1>1, <2>1, GotoClient DEF Clear, Places
<1>5. CASE statusHistory[x] # "Done"
  <2>1. \A i \in 1..n : statusHistory[w[i]] # "Done"
    BY <1>1 DEF Clear
  <2>2. QED
    BY <1>1, <1>3, <1>5, <2>1 DEF Clear
<1>6. QED
  BY <1>4, <1>5

\* A longer history begins with the old one.
LEMMA EmitterClear ==
    ASSUME Typed, NEW c \in Clients, Clear(c), Emitter
    PROVE  Clear(c)'
<1>1. /\ written[c] \in Seq(1..Len(statusHistory))
      /\ Len(statusHistory) \in Nat /\ statusHistory \in Seq(Statuses)
  BY DEF Typed, StreamType
<1>2. UNCHANGED <<client, written>>
  BY DEF Emitter, Attach, StartRange, Send, EndRange, HandleLine, aux
<1>3. \A k \in 1..Len(statusHistory) : statusHistory'[k] = statusHistory[k]
  <2>1. CASE UNCHANGED statusHistory
    BY <2>1
  <2>2. ASSUME NEW status \in Statuses, HandleLine(status)
        PROVE  \A k \in 1..Len(statusHistory) : statusHistory'[k] = statusHistory[k]
    BY <1>1, <2>2 DEF HandleLine
  <2>3. QED
    BY <2>1, <2>2 DEF Emitter, Attach, StartRange, Send, EndRange
<1>4. \A i \in 1..Len(written[c]) : written[c][i] \in 1..Len(statusHistory)
  BY <1>1
<1>5. QED
  BY <1>2, <1>3, <1>4 DEF Clear

\* The invariant of the refinement holds in the beginning.
LEMMA InitRInv == Init => RInv
<1>1. ASSUME Init, NEW c \in Clients PROVE Clear(c)
  <2>1. client[c].at = "idle"
    BY <1>1 DEF Init
  <2>2. QED
    BY <2>1 DEF Clear
<1>2. QED
  BY <1>1, InitIInv DEF RInv

\* Every step keeps it.
LEMMA NextRInv == RInv /\ [Next]_vars => RInv'
<1>1. SUFFICES ASSUME RInv, [Next]_vars PROVE RInv'
  OBVIOUS
<1>2. IInv /\ IInv'
  BY <1>1, NextIInv DEF RInv
<1>3. SUFFICES ASSUME ~raced', NEW d \in Clients PROVE Clear(d)'
  BY <1>2 DEF RInv
<1>4. CASE Emitter
  <2>1. ~raced
    BY <1>3, <1>4
       DEF Emitter, Attach, StartRange, Send, EndRange, HandleLine, aux
  <2>2. QED
    BY <1>1, <1>2, <1>4, <2>1, EmitterClear DEF RInv, IInv
<1>5. ASSUME NEW c \in Clients, Subscribe(c) \/ Stall(c) \/ Request(c)
      PROVE  Clear(d)'
  <2>1. ~raced
    BY <1>3, <1>5
       DEF Subscribe, Stall, Request, AppendListener, CopyHistory, Replay,
           Receive, FindListener, MoveListeners, StoreListeners, aux
  <2>2. /\ Clear(d) /\ Clear(c) /\ Typed /\ Ledgers /\ Orderly /\ Tracks
        /\ IInv' /\ ~raced'
    BY <1>1, <1>2, <1>3, <2>1 DEF RInv, IInv
  <2>3. /\ Ledger(c)
        /\ client \in [Clients -> ClientRecord]
        /\ UNCHANGED statusHistory
    BY <1>5, <2>2
       DEF Ledgers, Typed, ClientType, Subscribe, Stall, Request,
           AppendListener, CopyHistory, Replay, Receive, FindListener,
           MoveListeners, StoreListeners
  <2>4. CASE AppendListener(c) \/ MoveListeners(c) \/ StoreListeners(c)
    <3>1. /\ Only(c) /\ client'[c].at # "stream" /\ UNCHANGED written
      <4>1. CASE AppendListener(c)
        BY <2>3, <4>1, UpdatedClient DEF AppendListener, Places
      <4>2. CASE MoveListeners(c)
        BY <2>2, <4>2, MovedCells
      <4>3. CASE StoreListeners(c)
        BY <2>2, <4>3, StoredListeners
      <4>4. QED
        BY <2>4, <4>1, <4>2, <4>3
    <3>2. QED
      BY <2>2, <2>3, <3>1 DEF Clear, Only
  <2>5. CASE \/ Subscribe(c) \/ Stall(c) \/ CopyHistory(c) \/ Replay(c)
             \/ Receive(c) \/ FindListener(c)
    <3>1. Only(c)
      BY <2>1, <2>2, <2>5, StayOrderly
    <3>2. CASE d # c
      <4>1. written'[d] = written[d]
        <5>1. CASE Replay(c)
          BY <2>2, <2>3, <3>2, <5>1, ReplaySent
        <5>2. CASE Receive(c)
          BY <2>2, <2>3, <3>2, <5>2, ReceiveSent
        <5>3. QED
          BY <2>5, <5>1, <5>2 DEF Subscribe, Stall, CopyHistory, FindListener
      <4>2. QED
        BY <2>2, <2>3, <3>1, <3>2, <4>1 DEF Clear, Only
    <3>3. Clear(c)'
      <4>1. CASE Replay(c)
        BY <2>2, <4>1, ReplayClear
      <4>2. CASE Receive(c)
        BY <2>2, <4>2, ReceiveClear
      <4>3. CASE \/ Subscribe(c) \/ Stall(c) \/ CopyHistory(c)
                 \/ FindListener(c)
        <5>1. client'[c].at # "stream"
          <6>1. listeners \in Header /\ Len(statusHistory) \in Nat
            BY <2>2, TypedFacts
          <6>2. CASE Subscribe(c)
            BY <2>3, <6>1, <6>2, SubscribeClient
          <6>3. CASE Stall(c)
            BY <2>3, <6>3, GotoClient DEF Stall, Places
          <6>4. CASE CopyHistory(c)
            BY <2>3, <6>1, <6>4, CopyHistoryClient
          <6>5. CASE FindListener(c)
            BY <2>3, <6>1, <6>5, FindListenerClient
          <6>6. QED
            BY <4>3, <6>2, <6>3, <6>4, <6>5
        <5>2. QED
          BY <5>1 DEF Clear
      <4>4. QED
        BY <2>5, <4>1, <4>2, <4>3
    <3>4. QED
      BY <3>2, <3>3
  <2>6. QED
    BY <1>5, <2>4, <2>5 DEF Request
<1>6. CASE UNCHANGED vars
  BY <1>1, <1>3, <1>6 DEF vars, RInv, Clear
<1>7. QED
  BY <1>1, <1>4, <1>5, <1>6 DEF Next

\* Every step until two updates overlap is a step of the abstract stream, or
\* none, or one of a request that a Done was lost to.
LEMMA StepImplements ==
    RInv /\ [Next]_vars =>
      [raced' \/ Overrun \/ Stream!Next]_<<statusHistory, Positions>>
<1>1. SUFFICES ASSUME RInv, [Next]_vars, ~raced'
               PROVE  \/ Overrun \/ Stream!Next
                      \/ UNCHANGED <<statusHistory, Positions>>
  OBVIOUS
<1>2. RInv' /\ IInv /\ IInv'
  BY <1>1, NextRInv DEF RInv
<1>3. CASE UNCHANGED <<statusHistory, written>>
  BY <1>3, SamePositions
<1>4. ASSUME NEW status \in Statuses, HandleLine(status)
      PROVE  Stream!Next
  <2>1. /\ Len(statusHistory) < MaxStatuses
        /\ statusHistory' = Append(statusHistory, status)
        /\ UNCHANGED Positions
    BY <1>4, SamePositions DEF HandleLine
  <2>2. QED
    BY <2>1 DEF Stream!Next, Stream!Publish, Statuses
<1>5. ASSUME NEW c \in Clients, Replay(c) \/ Receive(c)
      PROVE  \/ Overrun \/ Stream!Next
             \/ UNCHANGED <<statusHistory, Positions>>
  <2>1. UNCHANGED statusHistory /\ ~raced
    BY <1>1, <1>5 DEF Replay, Receive, aux
  <2>2. UNCHANGED Positions \/ Stream!Deliver(c) \/ Overrun
    BY <1>1, <1>2, <1>5, <2>1, ReplayDelivers, ReceiveDelivers DEF RInv
  <2>3. QED
    BY <2>1, <2>2 DEF Stream!Next
<1>6. QED
  BY <1>1, <1>3, <1>4, <1>5
     DEF Next, vars, Emitter, Attach, StartRange, Send, EndRange, Request,
         Subscribe, Stall, AppendListener, CopyHistory, FindListener,
         MoveListeners, StoreListeners

\* The agent implements the stream of statuses that its clients are promised:
\* they read the log of statuses from its beginning and no further than a
\* Done, unless an update of the slice lost them that Done, and until two
\* updates overlap.
THEOREM AgentImplements == Spec => Implements
<1>1. Init => Stream!Init
  <2>1. SUFFICES ASSUME Init PROVE Stream!Init
    OBVIOUS
  <2>2. IInv /\ statusHistory = <<>>
    BY <2>1, InitIInv DEF Init
  <2>3. ASSUME NEW c \in Clients PROVE Position(c) = 0
    <3>1. written[c] = <<>>
      BY <2>1 DEF Init
    <3>2. 1..Len(written[c]) = {}
      BY <3>1
    <3>3. QED
      BY <2>2, <3>2, PositionsNow DEF Newest, Located
  <2>4. Positions = [c \in Clients |-> 0]
    BY <2>3 DEF Positions
  <2>5. QED
    BY <2>2, <2>4 DEF Stream!Init
<1>2. Spec => [][raced' \/ Overrun \/ Stream!Next]_<<statusHistory, Positions>>
  BY InitRInv, NextRInv, StepImplements, PTL DEF Spec
<1>3. QED
  BY <1>1, <1>2 DEF Spec, Implements

=============================================================================
