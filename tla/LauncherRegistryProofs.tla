----------------------- MODULE LauncherRegistryProofs -----------------------
(***************************************************************************)
(* Proofs about LauncherRegistry, for any number of launchers, calls and   *)
(* numbers, and any bound on the requests of a launcher.                   *)
(***************************************************************************)
EXTENDS LauncherRegistry, SequenceTheorems, TLAPS

-----------------------------------------------------------------------------
(* Slices.                                                                 *)

\* What a cell of an array holds.
Cells == Launchers \cup {Nil}

IsMem(m) == m \in Seq(Seq(Cells))

\* A slice of the memory m.
IsSlice(m, s) ==
    s \in [array : 0..Len(m), len : Nat] /\ s.len <= Capacity(m, s)

\* Arrays stay where they are and keep their length; others may be added.
Grows(m, n) ==
    /\ Len(m) <= Len(n)
    /\ \A a \in 1..Len(m) : Len(n[a]) = Len(m[a])

\* The cells of a slice are cells of its array.
LEMMA CellsOfSlice ==
    ASSUME NEW m, IsMem(m), NEW s, IsSlice(m, s)
    PROVE  \A i \in 1..s.len : /\ s.array \in 1..Len(m)
                               /\ i \in 1..Len(m[s.array])
                               /\ Elem(m, s, i) \in Cells
BY DEF IsMem, IsSlice, Capacity, Elem

\* A slice stays a slice when the memory grows.
LEMMA SliceOfGrown ==
    ASSUME NEW m, NEW n, Grows(m, n), Len(m) \in Nat, Len(n) \in Nat,
           NEW s, IsSlice(m, s)
    PROVE  IsSlice(n, s)
BY DEF IsSlice, Capacity, Grows

\* An append in place writes the cell after the slice and no other.
LEMMA AppendedInPlace ==
    ASSUME NEW m, IsMem(m), NEW s, IsSlice(m, s), NEW x \in Cells,
           HasRoom(m, s), NEW n, n = MemAppended(m, s, x)
    PROVE  /\ IsMem(n)
           /\ Len(n) = Len(m)
           /\ \A a \in 1..Len(m) : Len(n[a]) = Len(m[a])
           /\ n[s.array][s.len + 1] = x
           /\ \A a \in 1..Len(m) : \A i \in 1..Len(m[a]) :
                a # s.array \/ i # s.len + 1 => n[a][i] = m[a][i]
<1>0. m \in Seq(Seq(Cells))
  BY DEF IsMem
<1>1. /\ s.array \in 1..Len(m)
      /\ s.len \in Nat
      /\ s.len + 1 \in 1..Len(m[s.array])
  BY <1>0 DEF IsSlice, Capacity, HasRoom
<1>2. m[s.array] \in Seq(Cells)
  BY <1>0, <1>1
<1> DEFINE row == [m[s.array] EXCEPT ![s.len + 1] = x]
<1>3. /\ row \in Seq(Cells)
      /\ Len(row) = Len(m[s.array])
      /\ \A i \in 1..Len(m[s.array]) :
           row[i] = IF i = s.len + 1 THEN x ELSE m[s.array][i]
  BY <1>1, <1>2
<1>4. n = [m EXCEPT ![s.array] = row]
  BY DEF MemAppended
<1> HIDE DEF row
<1>5. QED
  BY <1>0, <1>1, <1>3, <1>4 DEF IsMem

\* An append out of place copies the slice to a new array.
LEMMA AppendedElsewhere ==
    ASSUME NEW m, IsMem(m), NEW s, IsSlice(m, s), NEW x \in Cells,
           ~HasRoom(m, s), NEW n, n = MemAppended(m, s, x)
    PROVE  /\ IsMem(n)
           /\ Len(n) = Len(m) + 1
           /\ \A a \in 1..Len(m) : n[a] = m[a]
           /\ Len(n[Len(m) + 1]) >= s.len + 1
           /\ \A i \in 1..s.len :
                n[Len(m) + 1][i] = Elem(m, s, i)
           /\ n[Len(m) + 1][s.len + 1] = x
<1> DEFINE cap == IF s.len = 0 THEN 1 ELSE 2 * s.len
           row == [i \in 1..cap |-> IF i <= s.len THEN Elem(m, s, i)
                                    ELSE IF i = s.len + 1 THEN x ELSE Nil]
<1>0. m \in Seq(Seq(Cells)) /\ Nil \in Cells
  BY DEF IsMem, Cells
<1>1. s.len \in Nat /\ cap \in Nat /\ s.len + 1 <= cap
  BY DEF IsSlice
<1>2. \A i \in 1..s.len : Elem(m, s, i) \in Cells
  BY CellsOfSlice
<1> HIDE DEF cap
<1>3. row \in [1..cap -> Cells]
  BY <1>0, <1>1, <1>2
<1>4. \A i \in 1..cap : row[i] = IF i <= s.len THEN Elem(m, s, i)
                                ELSE IF i = s.len + 1 THEN x ELSE Nil
  OBVIOUS
<1>5. n = Append(m, row)
  BY DEF MemAppended, cap
<1> HIDE DEF row
<1>6. row \in Seq(Cells) /\ Len(row) = cap
  BY <1>1, <1>3, SeqDef
<1>7. /\ \A i \in 1..s.len : row[i] = Elem(m, s, i)
      /\ row[s.len + 1] = x
  BY <1>1, <1>4
<1>8. QED
  BY <1>0, <1>1, <1>5, <1>6, <1>7 DEF IsMem

\* What append returns: the elements of the slice and one more.  Cells that
\* are not behind the slice in its own array keep what they hold.
LEMMA AppendedSlice ==
    ASSUME NEW m, IsMem(m), NEW s, IsSlice(m, s), NEW x \in Cells,
           NEW n, n = MemAppended(m, s, x), NEW t, t = Appended(m, s, x)
    PROVE  /\ IsMem(n)
           /\ Grows(m, n)
           /\ IsSlice(n, t)
           /\ t.len = s.len + 1
           /\ t.array = s.array \/ t.array = Len(m) + 1
           /\ \A i \in 1..s.len : Elem(n, t, i) = Elem(m, s, i)
           /\ Elem(n, t, t.len) = x
           /\ \A a \in 1..Len(m) : \A i \in 1..Len(m[a]) :
                a # s.array \/ i <= s.len => n[a][i] = m[a][i]
<1>1. /\ s.len \in Nat /\ s.array \in 0..Len(m) /\ Len(m) \in Nat
      /\ m \in Seq(Seq(Cells))
  BY DEF IsSlice, IsMem
<1>2. CASE HasRoom(m, s)
  <2>1. t.array = s.array /\ t.len = s.len + 1
        /\ t = [array |-> s.array, len |-> s.len + 1]
    BY <1>2 DEF Appended
  <2>2. /\ s.array \in 1..Len(m)
        /\ Len(m[s.array]) \in Nat
        /\ s.len + 1 \in 1..Len(m[s.array])
        /\ \A i \in 1..s.len : i \in 1..Len(m[s.array]) /\ i # s.len + 1
    BY <1>1, <1>2 DEF HasRoom, Capacity
  <2>3. /\ IsMem(n)
        /\ Len(n) = Len(m)
        /\ \A a \in 1..Len(m) : Len(n[a]) = Len(m[a])
        /\ n[s.array][s.len + 1] = x
        /\ \A a \in 1..Len(m) : \A i \in 1..Len(m[a]) :
             a # s.array \/ i # s.len + 1 => n[a][i] = m[a][i]
    BY <1>2, AppendedInPlace, SMT
  <2>4. IsSlice(n, t)
    BY <1>1, <2>1, <2>2, <2>3 DEF IsSlice, Capacity
  <2>5. \A i \in 1..s.len : Elem(n, t, i) = Elem(m, s, i)
    BY <1>1, <2>1, <2>2, <2>3 DEF Elem
  <2>6. Elem(n, t, t.len) = x
    BY <1>1, <2>1, <2>2, <2>3 DEF Elem
  <2>7. QED
    BY <1>1, <2>1, <2>2, <2>3, <2>4, <2>5, <2>6 DEF Grows
<1>3. CASE ~HasRoom(m, s)
  <2>1. t.array = Len(m) + 1 /\ t.len = s.len + 1
        /\ t = [array |-> Len(m) + 1, len |-> s.len + 1]
    BY <1>3 DEF Appended
  <2>2. /\ IsMem(n)
        /\ Len(n) = Len(m) + 1
        /\ \A a \in 1..Len(m) : n[a] = m[a]
        /\ Len(n[Len(m) + 1]) >= s.len + 1
        /\ \A i \in 1..s.len : n[Len(m) + 1][i] = Elem(m, s, i)
        /\ n[Len(m) + 1][s.len + 1] = x
    BY <1>3, AppendedElsewhere, SMT
  <2>3. IsSlice(n, t)
    BY <1>1, <2>1, <2>2 DEF IsSlice, Capacity
  <2>4. QED
    BY <1>1, <2>1, <2>2, <2>3 DEF Grows, Elem
<1>4. QED
  BY <1>2, <1>3

\* The cells of m that hold launchers still do in n.
Keeps(m, n) ==
    /\ IsMem(n)
    /\ Grows(m, n)
    /\ \A a \in 1..Len(m) : \A i \in 1..Len(m[a]) :
         m[a][i] \in Launchers => n[a][i] \in Launchers

\* The cells of the slice s hold launchers.
Filled(m, s) ==
    IsSlice(m, s) /\ \A i \in 1..s.len : Elem(m, s, i) \in Launchers

\* A filled slice stays filled when no cell is cleared.
LEMMA FilledKept ==
    ASSUME NEW m, IsMem(m), NEW n, Keeps(m, n), NEW s, Filled(m, s)
    PROVE  Filled(n, s)
<1>1. IsSlice(m, s) /\ \A i \in 1..s.len : Elem(m, s, i) \in Launchers
  BY DEF Filled
<1>2. Len(m) \in Nat /\ Len(n) \in Nat /\ Grows(m, n)
  BY DEF IsMem, Keeps
<1>3. IsSlice(n, s)
  BY <1>1, <1>2, SliceOfGrown
<1>4. \A i \in 1..s.len : s.array \in 1..Len(m) /\ i \in 1..Len(m[s.array])
  BY <1>1, CellsOfSlice
<1>5. \A i \in 1..s.len : Elem(n, s, i) \in Launchers
  BY <1>1, <1>4 DEF Keeps, Elem
<1>6. QED
  BY <1>3, <1>5 DEF Filled

\* An append clears no cell, and fills the slice it returns.
LEMMA AppendKeeps ==
    ASSUME NEW m, IsMem(m), NEW s, Filled(m, s), NEW x \in Launchers,
           NEW n, n = MemAppended(m, s, x), NEW t, t = Appended(m, s, x)
    PROVE  Keeps(m, n) /\ Filled(n, t)
<1>1. IsSlice(m, s) /\ x \in Cells /\ s.len \in Nat
  BY DEF Filled, IsSlice, Cells
<1>2. /\ IsMem(n)
      /\ Grows(m, n)
      /\ IsSlice(n, t)
      /\ t.len = s.len + 1
      /\ \A i \in 1..s.len : Elem(n, t, i) = Elem(m, s, i)
      /\ Elem(n, t, t.len) = x
  BY <1>1, AppendedSlice
<1>3. \A a \in 1..Len(m) : \A i \in 1..Len(m[a]) :
        m[a][i] \in Launchers => n[a][i] \in Launchers
  <2>1. CASE HasRoom(m, s)
    <3>1. /\ n[s.array][s.len + 1] = x
          /\ \A a \in 1..Len(m) : \A i \in 1..Len(m[a]) :
               a # s.array \/ i # s.len + 1 => n[a][i] = m[a][i]
      BY <1>1, <2>1, AppendedInPlace
    <3>2. QED
      BY <3>1
  <2>2. CASE ~HasRoom(m, s)
    <3>1. \A a \in 1..Len(m) : n[a] = m[a]
      BY <1>1, <2>2, AppendedElsewhere
    <3>2. QED
      BY <3>1
  <2>3. QED
    BY <2>1, <2>2
<1>4. \A i \in 1..t.len : Elem(n, t, i) \in Launchers
  <2>1. \A i \in 1..t.len : i \in 1..s.len \/ i = t.len
    BY <1>1, <1>2
  <2>2. QED
    BY <1>2, <2>1 DEF Filled
<1>5. QED
  BY <1>2, <1>3, <1>4 DEF Keeps, Filled

\* A removal moves the cells after i down by one, and leaves the last one and
\* the cells behind the slice as they were.
LEMMA RemovedSlice ==
    ASSUME NEW m, IsMem(m), NEW s, IsSlice(m, s),
           NEW i \in 1..s.len, NEW n, n = MemRemoved(m, s, i)
    PROVE  /\ IsMem(n)
           /\ Grows(m, n)
           /\ \A j \in 1..Len(m[s.array]) :
                n[s.array][j] = IF j \in i..(s.len - 1) THEN m[s.array][j + 1]
                                ELSE m[s.array][j]
           /\ \A a \in 1..Len(m) : a # s.array => n[a] = m[a]
<1>0. m \in Seq(Seq(Cells))
  BY DEF IsMem
<1>1. /\ s.len \in Nat /\ s.array \in 1..Len(m) /\ s.len <= Len(m[s.array])
      /\ m[s.array] \in Seq(Cells)
  BY <1>0 DEF IsSlice, Capacity
<1> DEFINE old == m[s.array]
           row == [j \in DOMAIN old |-> IF j \in i..(s.len - 1) THEN old[j + 1]
                                        ELSE old[j]]
<1>2. n = [m EXCEPT ![s.array] = row]
  BY DEF MemRemoved
<1>3. old \in Seq(Cells) /\ DOMAIN old = 1..Len(old) /\ Len(old) \in Nat
      /\ s.len <= Len(old)
  BY <1>1
<1> HIDE DEF old
<1>4. \A j \in 1..Len(old) : j \in i..(s.len - 1) => j + 1 \in 1..Len(old)
  BY <1>1, <1>3
<1>5. row \in [1..Len(old) -> Cells]
  BY <1>3, <1>4
<1>6. row \in Seq(Cells) /\ Len(row) = Len(old)
  BY <1>3, <1>5, SeqDef
<1>7. \A j \in 1..Len(old) :
        row[j] = IF j \in i..(s.len - 1) THEN old[j + 1] ELSE old[j]
  BY <1>1, <1>3
<1> HIDE DEF row
<1>8. IsMem(n) /\ Len(n) = Len(m)
      /\ \A a \in 1..Len(m) : n[a] = IF a = s.array THEN row ELSE m[a]
  BY <1>0, <1>1, <1>2, <1>6 DEF IsMem
<1>9. \A a \in 1..Len(m) : Len(n[a]) = Len(m[a])
  BY <1>6, <1>8 DEF old
<1>10. \A j \in 1..Len(m[s.array]) :
         n[s.array][j] = IF j \in i..(s.len - 1) THEN m[s.array][j + 1]
                         ELSE m[s.array][j]
  BY <1>1, <1>7, <1>8 DEF old
<1>11. QED
  BY <1>0, <1>8, <1>9, <1>10 DEF Grows

\* A removal from a filled slice clears no cell, and leaves it filled.
LEMMA RemovalKeeps ==
    ASSUME NEW m, IsMem(m), NEW s, Filled(m, s),
           NEW i \in 1..s.len, NEW n, n = MemRemoved(m, s, i)
    PROVE  Keeps(m, n)
<1>1. /\ IsSlice(m, s) /\ s.len \in Nat /\ i \in Nat
      /\ \A j \in 1..s.len : m[s.array][j] \in Launchers
  BY DEF Filled, IsSlice, Elem
<1>2. /\ IsMem(n)
      /\ Grows(m, n)
      /\ \A j \in 1..Len(m[s.array]) :
           n[s.array][j] = IF j \in i..(s.len - 1) THEN m[s.array][j + 1]
                           ELSE m[s.array][j]
      /\ \A a \in 1..Len(m) : a # s.array => n[a] = m[a]
  BY <1>1, RemovedSlice
<1>3. \A j \in i..(s.len - 1) : j + 1 \in 1..s.len
  BY <1>1
<1>4. QED
  BY <1>1, <1>2, <1>3 DEF Keeps

-----------------------------------------------------------------------------
(* The type invariant, part by part.                                       *)

Header == [array : Nat, len : Nat]

AttachRecord == [at : {"idle", "append", "done"}, base : Header]

ListenRecord == [at : {"none", "read", "deliver", "remove", "store", "ended"},
                 base : Header, found : Nat, read : Header, msg : Message,
                 target : Callers \cup {NoCaller}]

CallerRecord == [at : {"idle", "pick", "count", "add", "send", "register",
                       "wait", "close", "delete", "done", "failed"},
                 launcher : Launchers \cup {Nil}, base : Ids, id : Ids,
                 answer : Message]

MemType == IsMem(mem) /\ Filled(mem, launchers)

AttachType ==
    /\ attach \in [Launchers -> AttachRecord]
    /\ \A l \in Launchers : Filled(mem, attach[l].base)

ListenType ==
    /\ listen \in [Launchers -> ListenRecord]
    /\ \A l \in Launchers :
         /\ IsSlice(mem, listen[l].base)
         /\ Filled(mem, listen[l].read)
         /\ listen[l].at = "remove" => listen[l].found \in 1..listen[l].base.len
         /\ listen[l].at = "store" => listen[l].found \in 1..listen[l].read.len

\* A call has picked its launcher when it counts.
CallerType ==
    /\ caller \in [Callers -> CallerRecord]
    /\ \A c \in Callers : caller[c].at \notin {"idle", "pick", "failed"}
                            => caller[c].launcher \in Launchers

QueueType ==
    /\ counter \in [Launchers -> Ids]
    /\ requests \in [Launchers -> [Ids -> Callers \cup {NoCaller}]]
    /\ outbox \in [Launchers -> SUBSET Message]
    /\ inbox \in [Launchers -> Seq(Message)]

PlainType ==
    /\ open \in [Launchers -> BOOLEAN]
    /\ own \in [Launchers -> 0..MaxOwn]
    /\ {crashed, torn, collided} \subseteq BOOLEAN

Typed == /\ MemType /\ AttachType /\ ListenType /\ CallerType /\ QueueType
         /\ PlainType

\* The slices of TypeOK are the slices of the memory.
LEMMA SlicesAre ==
    \A s : s \in Slices <=> IsSlice(mem, s)
BY DEF Slices, IsSlice

\* The parts give the type invariant.
LEMMA TypeByParts == Typed => TypeOK
<1>1. SUFFICES ASSUME Typed PROVE TypeOK
  OBVIOUS
<1>2. mem \in Seq(Seq(Launchers \cup {Nil})) /\ launchers \in Slices
  BY <1>1, SlicesAre DEF Typed, MemType, IsMem, Cells, Filled
<1>3. attach \in [Launchers -> [at : {"idle", "append", "done"}, base : Slices]]
  <2>1. ASSUME NEW l \in Launchers
        PROVE  attach[l] \in [at : {"idle", "append", "done"}, base : Slices]
    BY <1>1, SlicesAre DEF Typed, AttachType, AttachRecord, Filled
  <2>2. QED
    BY <1>1, <2>1 DEF Typed, AttachType
<1>4. listen \in [Launchers ->
                    [at : {"none", "read", "deliver", "remove", "store",
                           "ended"},
                     base : Slices, found : Nat, read : Slices, msg : Message,
                     target : Callers \cup {NoCaller}]]
  <2>1. ASSUME NEW l \in Launchers
        PROVE  listen[l] \in [at : {"none", "read", "deliver", "remove", "store",
                                    "ended"},
                              base : Slices, found : Nat, read : Slices,
                              msg : Message, target : Callers \cup {NoCaller}]
    BY <1>1, SlicesAre DEF Typed, ListenType, ListenRecord, Filled
  <2>2. QED
    BY <1>1, <2>1 DEF Typed, ListenType
<1>5. QED
  BY <1>1, <1>2, <1>3, <1>4
  DEF TypeOK, Typed, CallerType, CallerRecord, QueueType, PlainType

-----------------------------------------------------------------------------
(* What a step changes, without EXCEPT.                                    *)

\* The call c is the only one that changes.
OnlyCall(c) == \A d \in Callers \ {c} : caller'[d] = caller[d]

\* The goroutine Listen of l is the only one that changes.
OnlyListen(l) == \A k \in Launchers \ {l} : listen'[k] = listen[k]

CallPlaces == {"idle", "pick", "count", "add", "send", "register", "wait",
               "close", "delete", "done", "failed"}

\* CallerAt moves c and changes nothing else of it.
LEMMA CallerAtEffect ==
    ASSUME caller \in [Callers -> CallerRecord], NEW c \in Callers,
           NEW at \in CallPlaces, CallerAt(c, at)
    PROVE  /\ caller' \in [Callers -> CallerRecord]
           /\ OnlyCall(c)
           /\ caller'[c].at = at
           /\ caller'[c].launcher = caller[c].launcher
           /\ caller'[c].base = caller[c].base
           /\ caller'[c].id = caller[c].id
           /\ caller'[c].answer = caller[c].answer
<1>1. caller[c] \in CallerRecord
  OBVIOUS
<1>2. caller' = [caller EXCEPT ![c].at = at]
  BY DEF CallerAt
<1>3. caller'[c] = [caller[c] EXCEPT !.at = at]
  BY <1>2
<1>4. caller' = [caller EXCEPT ![c] = caller'[c]]
  BY <1>2, <1>3
<1>5. caller'[c] \in CallerRecord
  BY <1>1, <1>3 DEF CallerRecord, CallPlaces
<1>6. QED
  BY <1>1, <1>3, <1>4, <1>5 DEF CallerRecord, OnlyCall

\* PickLauncher takes the first launcher, or fails.
LEMMA PickEffect ==
    ASSUME Typed, NEW c \in Callers, PickLauncher(c)
    PROVE  /\ caller' \in [Callers -> CallerRecord]
           /\ OnlyCall(c)
           /\ \/ caller'[c].at = "failed"
              \/ caller'[c].at = "count" /\ caller'[c].launcher \in Launchers
<1>1. caller \in [Callers -> CallerRecord] /\ caller[c] \in CallerRecord
  BY DEF Typed, CallerType
<1>2. CASE launchers.len = 0
  <2>1. CallerAt(c, "failed")
    BY <1>2 DEF PickLauncher
  <2>2. QED
    BY <1>1, <2>1, CallerAtEffect DEF CallPlaces
<1>3. CASE launchers.len # 0
  <2> DEFINE l == Elem(mem, launchers, 1)
  <2>1. l \in Launchers
    <3>1. 1 \in 1..launchers.len
      BY <1>3 DEF Typed, MemType, Filled, IsSlice
    <3>2. QED
      BY <3>1 DEF Typed, MemType, Filled
  <2>2. caller' = [caller EXCEPT ![c].at = "count", ![c].launcher = l]
    BY <1>3 DEF PickLauncher
  <2> HIDE DEF l
  <2>3. caller'[c] = [caller[c] EXCEPT !.at = "count", !.launcher = l]
    BY <1>1, <2>2
  <2>4. caller' = [caller EXCEPT ![c] = caller'[c]]
    BY <1>1, <2>2, <2>3
  <2>5. /\ caller'[c] \in CallerRecord
        /\ caller'[c].at = "count"
        /\ caller'[c].launcher = l
    BY <1>1, <2>1, <2>3 DEF CallerRecord
  <2>6. QED
    BY <1>1, <2>1, <2>4, <2>5 DEF OnlyCall
<1>4. QED
  BY <1>2, <1>3

\* ReadCounter copies the counter of the launcher.
LEMMA ReadCounterEffect ==
    ASSUME Typed, NEW c \in Callers, ReadCounter(c)
    PROVE  /\ caller' \in [Callers -> CallerRecord]
           /\ OnlyCall(c)
           /\ caller'[c].at = "add"
           /\ caller'[c].launcher = caller[c].launcher
<1>1. caller \in [Callers -> CallerRecord] /\ caller[c] \in CallerRecord
  BY DEF Typed, CallerType
<1> DEFINE n == counter[caller[c].launcher]
<1>2. n \in Ids
  BY DEF Typed, CallerType, QueueType, ReadCounter
<1>3. caller' = [caller EXCEPT ![c].at = "add", ![c].base = n]
  BY DEF ReadCounter
<1> HIDE DEF n
<1>4. caller'[c] = [caller[c] EXCEPT !.at = "add", !.base = n]
  BY <1>1, <1>3
<1>5. caller' = [caller EXCEPT ![c] = caller'[c]]
  BY <1>1, <1>3, <1>4
<1>6. /\ caller'[c] \in CallerRecord
      /\ caller'[c].at = "add"
      /\ caller'[c].launcher = caller[c].launcher
  BY <1>1, <1>2, <1>4 DEF CallerRecord
<1>7. QED
  BY <1>1, <1>5, <1>6 DEF OnlyCall

\* SendMessage gives the call the counter as its number, and sends it.
LEMMA SendEffect ==
    ASSUME Typed, NEW c \in Callers, SendMessage(c),
           NEW l, l = caller[c].launcher, NEW id, id = counter[l]
    PROVE  /\ l \in Launchers
           /\ id \in Ids
           /\ caller' \in [Callers -> CallerRecord]
           /\ OnlyCall(c)
           /\ caller[c].at = "send"
           /\ caller'[c].at = "register"
           /\ caller'[c].launcher = l
           /\ caller'[c].id = id
           /\ caller'[c].answer = caller[c].answer
           /\ outbox' \in [Launchers -> SUBSET Message]
           /\ \A k \in Launchers \ {l} : outbox'[k] = outbox[k]
           /\ \/ outbox'[l] = outbox[l]
              \/ outbox'[l] = outbox[l] \cup {[id |-> id, to |-> c]}
<1>1. caller \in [Callers -> CallerRecord] /\ caller[c] \in CallerRecord
  BY DEF Typed, CallerType
<1>2. l \in Launchers /\ caller[c].at = "send"
  BY DEF Typed, CallerType, SendMessage
<1>3. id \in Ids
  BY <1>2 DEF Typed, QueueType
<1>4. caller' = [caller EXCEPT ![c].at = "register", ![c].id = id]
  BY DEF SendMessage
<1>5. caller'[c] = [caller[c] EXCEPT !.at = "register", !.id = id]
  BY <1>1, <1>4
<1>6. caller' = [caller EXCEPT ![c] = caller'[c]]
  BY <1>1, <1>4, <1>5
<1>7. /\ caller'[c] \in CallerRecord
      /\ caller'[c].at = "register"
      /\ caller'[c].launcher = l
      /\ caller'[c].id = id
      /\ caller'[c].answer = caller[c].answer
  BY <1>1, <1>3, <1>5 DEF CallerRecord
<1> DEFINE m == [id |-> id, to |-> c]
<1>8. outbox' = outbox \/ outbox' = [outbox EXCEPT ![l] = @ \cup {m}]
  BY DEF SendMessage
<1>9. m \in Message
  BY <1>3 DEF Message
<1>10. outbox \in [Launchers -> SUBSET Message]
  BY DEF Typed, QueueType
<1> HIDE DEF m
<1>11. /\ outbox' \in [Launchers -> SUBSET Message]
       /\ \A k \in Launchers \ {l} : outbox'[k] = outbox[k]
       /\ outbox'[l] = outbox[l] \/ outbox'[l] = outbox[l] \cup {m}
  BY <1>2, <1>8, <1>9, <1>10
<1>12. QED
  BY <1>1, <1>2, <1>3, <1>6, <1>7, <1>11 DEF OnlyCall, m

\* Deliver hands the message to the call, or the process dies.
Delivered(l, c) ==
    /\ caller[c].at = "wait"
    /\ caller' \in [Callers -> CallerRecord]
    /\ OnlyCall(c)
    /\ caller'[c].at = "close"
    /\ caller'[c].launcher = caller[c].launcher
    /\ caller'[c].id = caller[c].id
    /\ caller'[c].answer = listen[l].msg
    /\ listen' \in [Launchers -> ListenRecord]
    /\ OnlyListen(l)
    /\ listen'[l].at = "read"
    /\ listen'[l].base = listen[l].base
    /\ listen'[l].read = listen[l].read
    /\ crashed' = crashed

Panicked(c) ==
    /\ caller[c].at \in {"delete", "done"}
    /\ crashed' = TRUE
    /\ caller' = caller
    /\ listen' = listen

\* One of the two happens, to the call whose channel Listen has looked up.
LEMMA DeliverEffect ==
    ASSUME Typed, NEW l \in Launchers, Deliver(l)
    PROVE  \E c \in Callers : /\ c = listen[l].target
                              /\ listen[l].at = "deliver"
                              /\ Delivered(l, c) \/ Panicked(c)
<1>0. PICK c : c = listen[l].target
  OBVIOUS
<1>1. /\ caller \in [Callers -> CallerRecord]
      /\ listen \in [Launchers -> ListenRecord] /\ listen[l] \in ListenRecord
  BY DEF Typed, CallerType, ListenType
<1>2. c \in Callers /\ listen[l].msg \in Message /\ listen[l].at = "deliver"
  BY <1>0, <1>1 DEF ListenRecord, Deliver
<1>3. CASE caller[c].at = "wait"
  <2> DEFINE m == listen[l].msg
  <2>1. /\ caller' = [caller EXCEPT ![c].at = "close", ![c].answer = m]
        /\ listen' = [listen EXCEPT ![l].at = "read"]
        /\ crashed' = crashed
    BY <1>0, <1>3 DEF Deliver
  <2>2. m \in Message
    BY <1>2
  <2> HIDE DEF m
  <2>3. caller[c] \in CallerRecord
    BY <1>1, <1>2
  <2>4. caller'[c] = [caller[c] EXCEPT !.at = "close", !.answer = m]
    BY <1>1, <1>2, <2>1
  <2>5. caller' = [caller EXCEPT ![c] = caller'[c]]
    BY <1>1, <1>2, <2>1, <2>4
  <2>6. /\ caller'[c] \in CallerRecord
        /\ caller'[c].at = "close"
        /\ caller'[c].launcher = caller[c].launcher
        /\ caller'[c].id = caller[c].id
        /\ caller'[c].answer = m
    BY <2>2, <2>3, <2>4 DEF CallerRecord
  <2>7. caller' \in [Callers -> CallerRecord] /\ OnlyCall(c)
    BY <1>1, <1>2, <2>5, <2>6 DEF OnlyCall
  <2>8. listen'[l] = [listen[l] EXCEPT !.at = "read"]
    BY <1>1, <2>1
  <2>9. listen' = [listen EXCEPT ![l] = listen'[l]]
    BY <1>1, <2>1, <2>8
  <2>10. /\ listen'[l] \in ListenRecord
         /\ listen'[l].at = "read"
         /\ listen'[l].base = listen[l].base
         /\ listen'[l].read = listen[l].read
    BY <1>1, <2>8 DEF ListenRecord
  <2>11. listen' \in [Launchers -> ListenRecord] /\ OnlyListen(l)
    BY <1>1, <2>9, <2>10 DEF OnlyListen
  <2>12. QED
    BY <1>0, <1>2, <1>3, <2>1, <2>6, <2>7, <2>10, <2>11 DEF m, Delivered
<1>4. CASE caller[c].at # "wait"
  <2>1. /\ caller[c].at \in {"delete", "done"}
        /\ crashed' = TRUE
        /\ caller' = caller
        /\ listen' = listen
    BY <1>0, <1>4 DEF Deliver
  <2>2. QED
    BY <1>0, <1>2, <2>1 DEF Panicked
<1>5. QED
  BY <1>3, <1>4

\* ReadMessage takes the first message and looks up the channel.
LEMMA ReadEffect ==
    ASSUME Typed, NEW l \in Launchers, ReadMessage(l)
    PROVE  /\ listen[l].at = "read"
           /\ inbox[l] \in Seq(Message) /\ inbox[l] # <<>>
           /\ listen' \in [Launchers -> ListenRecord]
           /\ OnlyListen(l)
           /\ listen'[l].at = "deliver"
           /\ listen'[l].base = listen[l].base
           /\ listen'[l].read = listen[l].read
           /\ listen'[l].msg = Head(inbox[l])
           /\ listen'[l].target = requests[l][Head(inbox[l]).id]
           /\ inbox' \in [Launchers -> Seq(Message)]
           /\ inbox'[l] = Tail(inbox[l])
           /\ \A k \in Launchers \ {l} : inbox'[k] = inbox[k]
<1>1. /\ listen \in [Launchers -> ListenRecord] /\ listen[l] \in ListenRecord
      /\ inbox \in [Launchers -> Seq(Message)] /\ inbox[l] \in Seq(Message)
      /\ inbox[l] # <<>>
      /\ listen[l].at = "read"
  BY DEF Typed, ListenType, QueueType, ReadMessage
<1> DEFINE m == Head(inbox[l])
           t == requests[l][m.id]
<1>2. m \in Message /\ Tail(inbox[l]) \in Seq(Message)
  BY <1>1
<1>3. t \in Callers \cup {NoCaller}
  <2>1. m.id \in Ids
    BY <1>2 DEF Message
  <2>2. QED
    BY <2>1 DEF Typed, QueueType
<1>4. /\ listen' = [listen EXCEPT ![l].at = "deliver", ![l].msg = m,
                                  ![l].target = t]
      /\ inbox' = [inbox EXCEPT ![l] = Tail(@)]
  BY DEF ReadMessage
<1> HIDE DEF m, t
<1>5. listen'[l] = [listen[l] EXCEPT !.at = "deliver", !.msg = m, !.target = t]
  BY <1>1, <1>4
<1>6. listen' = [listen EXCEPT ![l] = listen'[l]]
  BY <1>1, <1>4, <1>5
<1>7. /\ listen'[l] \in ListenRecord
      /\ listen'[l].at = "deliver"
      /\ listen'[l].base = listen[l].base
      /\ listen'[l].read = listen[l].read
      /\ listen'[l].msg = m
      /\ listen'[l].target = t
  BY <1>1, <1>2, <1>3, <1>5 DEF ListenRecord
<1>8. listen' \in [Launchers -> ListenRecord] /\ OnlyListen(l)
  BY <1>1, <1>6, <1>7 DEF OnlyListen
<1>9. /\ inbox' \in [Launchers -> Seq(Message)]
      /\ inbox'[l] = Tail(inbox[l])
      /\ \A k \in Launchers \ {l} : inbox'[k] = inbox[k]
  BY <1>1, <1>2, <1>4
<1>10. QED
  BY <1>1, <1>7, <1>8, <1>9 DEF m, t

\* AppendLauncher starts Listen.
LEMMA StartEffect ==
    ASSUME Typed, NEW l \in Launchers, AppendLauncher(l)
    PROVE  /\ listen' \in [Launchers -> ListenRecord]
           /\ OnlyListen(l)
           /\ listen'[l].at = "read"
           /\ listen'[l].base = listen[l].base
           /\ listen'[l].read = listen[l].read
           /\ attach' \in [Launchers -> AttachRecord]
           /\ \A k \in Launchers \ {l} : attach'[k] = attach[k]
           /\ attach[l].at = "append"
           /\ attach'[l].at = "done"
           /\ attach'[l].base = attach[l].base
<1>1. /\ listen \in [Launchers -> ListenRecord] /\ listen[l] \in ListenRecord
      /\ attach \in [Launchers -> AttachRecord] /\ attach[l] \in AttachRecord
      /\ attach[l].at = "append"
  BY DEF Typed, ListenType, AttachType, AppendLauncher
<1>2. /\ listen' = [listen EXCEPT ![l].at = "read"]
      /\ attach' = [attach EXCEPT ![l].at = "done"]
  BY DEF AppendLauncher
<1>3. /\ listen'[l] = [listen[l] EXCEPT !.at = "read"]
      /\ attach'[l] = [attach[l] EXCEPT !.at = "done"]
  BY <1>1, <1>2
<1>4. /\ listen' = [listen EXCEPT ![l] = listen'[l]]
      /\ attach' = [attach EXCEPT ![l] = attach'[l]]
  BY <1>1, <1>2, <1>3
<1>5. /\ listen'[l] \in ListenRecord
      /\ listen'[l].at = "read"
      /\ listen'[l].base = listen[l].base
      /\ listen'[l].read = listen[l].read
  BY <1>1, <1>3 DEF ListenRecord
<1>6. /\ attach'[l] \in AttachRecord
      /\ attach'[l].at = "done"
      /\ attach'[l].base = attach[l].base
  BY <1>1, <1>3 DEF AttachRecord
<1>7. listen' \in [Launchers -> ListenRecord] /\ OnlyListen(l)
  BY <1>1, <1>4, <1>5 DEF OnlyListen
<1>8. /\ attach' \in [Launchers -> AttachRecord]
      /\ \A k \in Launchers \ {l} : attach'[k] = attach[k]
  BY <1>1, <1>4, <1>6
<1>9. QED
  BY <1>1, <1>5, <1>6, <1>7, <1>8


\* SearchAfter ends Listen, or finds a position of its launcher.
LEMMA SearchEffect ==
    ASSUME listen \in [Launchers -> ListenRecord], NEW l \in Launchers,
           NEW m, NEW s \in Header, NEW i \in Nat, SearchAfter(l, m, s, i)
    PROVE  /\ listen' \in [Launchers -> ListenRecord]
           /\ OnlyListen(l)
           /\ listen'[l].read = listen[l].read
           /\ \/ /\ listen'[l].at = "ended"
                 /\ listen'[l].base = listen[l].base
                 /\ \A j \in (i + 1)..s.len : Elem(m, s, j) # l
              \/ /\ listen'[l].at = "remove"
                 /\ listen'[l].base = s
                 /\ listen'[l].found \in (i + 1)..s.len
                 /\ Elem(m, s, listen'[l].found) = l
<1>1. listen[l] \in ListenRecord /\ s.len \in Nat
  BY DEF Header
<1> DEFINE found == {j \in (i + 1)..s.len : Elem(m, s, j) = l}
<1>2. CASE found = {}
  <2>1. listen' = [listen EXCEPT ![l].at = "ended"]
    BY <1>2 DEF SearchAfter
  <2>2. listen'[l] = [listen[l] EXCEPT !.at = "ended"]
    BY <2>1
  <2>3. listen' = [listen EXCEPT ![l] = listen'[l]]
    BY <2>1, <2>2
  <2>4. /\ listen'[l] \in ListenRecord
        /\ listen'[l].at = "ended"
        /\ listen'[l].base = listen[l].base
        /\ listen'[l].read = listen[l].read
    BY <1>1, <2>2 DEF ListenRecord
  <2>5. \A j \in (i + 1)..s.len : Elem(m, s, j) # l
    BY <1>2
  <2>6. QED
    BY <2>3, <2>4, <2>5 DEF OnlyListen
<1>3. CASE found # {}
  <2>1. PICK j \in found :
          listen' = [listen EXCEPT ![l].at = "remove", ![l].base = s,
                                   ![l].found = j]
    BY <1>3 DEF SearchAfter
  <2>2. j \in (i + 1)..s.len /\ j \in Nat /\ Elem(m, s, j) = l
    BY <1>1, <2>1
  <2> HIDE DEF found
  <2>3. listen'[l] = [listen[l] EXCEPT !.at = "remove", !.base = s, !.found = j]
    BY <2>1
  <2>4. listen' = [listen EXCEPT ![l] = listen'[l]]
    BY <2>1, <2>3
  <2>5. /\ listen'[l] \in ListenRecord
        /\ listen'[l].at = "remove"
        /\ listen'[l].base = s
        /\ listen'[l].found = j
        /\ listen'[l].read = listen[l].read
    BY <1>1, <2>2, <2>3 DEF ListenRecord
  <2>6. QED
    BY <2>2, <2>4, <2>5 DEF OnlyListen
<1>4. QED
  BY <1>2, <1>3

-----------------------------------------------------------------------------
(* Every step keeps the types.                                             *)

\* The initial state is typed.
LEMMA InitTyped == Init => Typed
<1> SUFFICES ASSUME Init PROVE Typed
  OBVIOUS
<1>1. 0 \in Ids /\ NoMessage \in Message /\ EmptySlice \in Header
  BY RegistryAssumption DEF Ids, NoMessage, Message, EmptySlice, Header
<1>2. IsMem(mem) /\ Filled(mem, EmptySlice) /\ IsSlice(mem, EmptySlice)
  BY DEF Init, IsMem, Filled, IsSlice, EmptySlice, Capacity
<1>3. MemType
  BY <1>2 DEF Init, MemType
<1>4. AttachType
  BY <1>1, <1>2 DEF Init, AttachType, AttachRecord
<1>5. ListenType
  BY <1>1, <1>2 DEF Init, ListenType, ListenRecord
<1>6. CallerType
  BY <1>1 DEF Init, CallerType, CallerRecord
<1>7. QueueType
  BY <1>1 DEF Init, QueueType
<1>8. PlainType
  <2>1. open \in [Launchers -> BOOLEAN] /\ own \in [Launchers -> 0..MaxOwn]
    BY RegistryAssumption DEF Init
  <2>2. crashed = FALSE /\ torn = FALSE /\ collided = FALSE
    BY DEF Init
  <2>3. {crashed, torn, collided} \subseteq BOOLEAN
    BY <2>2
  <2>4. QED
    BY <2>1, <2>3 DEF PlainType
<1>9. QED
  BY <1>3, <1>4, <1>5, <1>6, <1>7, <1>8 DEF Typed

\* The next number is a number.
LEMMA NextId == \A n \in Ids : (n + 1) % W \in Ids
BY RegistryAssumption DEF Ids

\* The slices and the goroutines are typed as long as nothing writes them.
LEMMA SameSlices ==
    ASSUME Typed, UNCHANGED <<mem, launchers, attach, listen>>
    PROVE  MemType' /\ AttachType' /\ ListenType'
BY DEF Typed, MemType, AttachType, ListenType

\* One call moves, and has picked a launcher when it must have.
LEMMA CallMoves ==
    ASSUME Typed, NEW c \in Callers, OnlyCall(c),
           caller' \in [Callers -> CallerRecord],
           \/ caller'[c].at \in {"idle", "pick", "failed"}
           \/ caller'[c].launcher \in Launchers
    PROVE  CallerType'
BY DEF Typed, CallerType, OnlyCall

\* A step of a call keeps the types.
LEMMA CallTyped ==
    ASSUME Typed, NEW c \in Callers, Call(c)
    PROVE  Typed'
<1>1. UNCHANGED <<mem, launchers, attach, listen, open, own, crashed, torn,
                  inbox>>
  BY DEF Call, CheckLaunchers, PickLauncher, ReadCounter, WriteCounter,
         SendMessage, Register, CloseChan, DeleteRequest
<1>2. MemType' /\ AttachType' /\ ListenType'
  BY <1>1, SameSlices
<1>3. PlainType'
  BY <1>1 DEF Typed, PlainType, Call, CheckLaunchers, PickLauncher,
              ReadCounter, WriteCounter, SendMessage, Register, CloseChan,
              DeleteRequest
<1>4. /\ caller \in [Callers -> CallerRecord]
      /\ caller[c].at \notin {"idle", "pick", "failed"}
           => caller[c].launcher \in Launchers /\ caller[c].id \in Ids
                /\ caller[c].base \in Ids
  BY DEF Typed, CallerType, CallerRecord
<1>5. CallerType' /\ QueueType'
  <2>1. CASE CheckLaunchers(c)
    <3>1. CallerAt(c, "failed") \/ CallerAt(c, "pick")
      BY <2>1 DEF CheckLaunchers
    <3>2. CallerType'
      BY <1>4, <3>1, CallerAtEffect, CallMoves DEF CallPlaces
    <3>3. QED
      BY <2>1, <3>2 DEF CheckLaunchers, Typed, QueueType
  <2>2. CASE PickLauncher(c)
    <3>1. CallerType'
      BY <2>2, PickEffect, CallMoves
    <3>2. QED
      BY <2>2, <3>1 DEF PickLauncher, Typed, QueueType
  <2>3. CASE ReadCounter(c)
    <3>1. CallerType'
      BY <1>4, <2>3, ReadCounterEffect, CallMoves DEF ReadCounter
    <3>2. QED
      BY <2>3, <3>1 DEF ReadCounter, Typed, QueueType
  <2>4. CASE WriteCounter(c)
    <3>1. CallerType'
      BY <1>4, <2>4, CallerAtEffect, CallMoves DEF CallPlaces, WriteCounter
    <3>2. (caller[c].base + 1) % W \in Ids
      BY <1>4, <2>4, NextId DEF WriteCounter
    <3>3. counter' \in [Launchers -> Ids]
      BY <2>4, <3>2 DEF WriteCounter, Typed, QueueType
    <3>4. QED
      BY <2>4, <3>1, <3>3 DEF WriteCounter, Typed, QueueType
  <2>5. CASE SendMessage(c)
    <3>1. CallerType' /\ outbox' \in [Launchers -> SUBSET Message]
      BY <2>5, SendEffect, CallMoves
    <3>2. QED
      BY <2>5, <3>1 DEF SendMessage, Typed, QueueType
  <2>6. CASE Register(c)
    <3>1. CallerType'
      BY <1>4, <2>6, CallerAtEffect, CallMoves DEF CallPlaces, Register
    <3>2. QED
      BY <1>4, <2>6, <3>1 DEF Register, Typed, QueueType
  <2>7. CASE CloseChan(c)
    <3>1. CallerType'
      BY <1>4, <2>7, CallerAtEffect, CallMoves DEF CallPlaces, CloseChan
    <3>2. QED
      BY <2>7, <3>1 DEF CloseChan, Typed, QueueType
  <2>8. CASE DeleteRequest(c)
    <3>1. CallerType'
      BY <1>4, <2>8, CallerAtEffect, CallMoves DEF CallPlaces, DeleteRequest
    <3>2. QED
      BY <1>4, <2>8, <3>1 DEF DeleteRequest, Typed, QueueType
  <2>9. QED
    BY <2>1, <2>2, <2>3, <2>4, <2>5, <2>6, <2>7, <2>8 DEF Call
<1>6. QED
  BY <1>2, <1>3, <1>5 DEF Typed

\* The launcher's end of the connection.
LEMMA RemoteTyped ==
    ASSUME Typed, NEW l \in Launchers,
           Answer(l) \/ OwnRequest(l) \/ Disconnect(l)
    PROVE  Typed'
<1>1. UNCHANGED <<mem, launchers, attach, counter, requests, listen, caller,
                  crashed, torn, collided>>
  BY DEF Answer, OwnRequest, Disconnect
<1>2. MemType' /\ AttachType' /\ ListenType' /\ CallerType'
  BY <1>1, SameSlices DEF Typed, CallerType
<1>3. /\ outbox \in [Launchers -> SUBSET Message]
      /\ inbox \in [Launchers -> Seq(Message)] /\ inbox[l] \in Seq(Message)
      /\ own \in [Launchers -> 0..MaxOwn]
      /\ open \in [Launchers -> BOOLEAN]
  BY DEF Typed, QueueType, PlainType
<1>4. /\ outbox' \in [Launchers -> SUBSET Message]
      /\ inbox' \in [Launchers -> Seq(Message)]
      /\ own' \in [Launchers -> 0..MaxOwn]
      /\ open' \in [Launchers -> BOOLEAN]
  <2>1. CASE Answer(l)
    <3>1. PICK m \in outbox[l] : /\ outbox' = [outbox EXCEPT ![l] = @ \ {m}]
                                 /\ inbox' = [inbox EXCEPT ![l] = Append(@, m)]
      BY <2>1 DEF Answer
    <3>2. Append(inbox[l], m) \in Seq(Message)
      BY <1>3
    <3>3. QED
      BY <1>3, <2>1, <3>1, <3>2 DEF Answer
  <2>2. CASE OwnRequest(l)
    <3>1. PICK id \in Ids :
            inbox' = [inbox EXCEPT ![l] = Append(@, [id |-> id, to |-> NoCaller])]
      BY <2>2 DEF OwnRequest
    <3> DEFINE m == [id |-> id, to |-> NoCaller]
    <3>2. m \in Message
      BY DEF Message
    <3>3. Append(inbox[l], m) \in Seq(Message)
      BY <1>3, <3>2
    <3>4. inbox' \in [Launchers -> Seq(Message)]
      BY <1>3, <3>1, <3>3
    <3>5. own' \in [Launchers -> 0..MaxOwn]
      BY <1>3, <2>2, RegistryAssumption DEF OwnRequest
    <3>6. QED
      BY <1>3, <2>2, <3>4, <3>5 DEF OwnRequest
  <2>3. CASE Disconnect(l)
    <3>1. PICK k \in 0..Len(inbox[l]) :
            inbox' = [inbox EXCEPT ![l] = SubSeq(@, 1, k)]
      BY <2>3 DEF Disconnect
    <3>2. SubSeq(inbox[l], 1, k) \in Seq(Message)
      BY <1>3
    <3>3. QED
      BY <1>3, <2>3, <3>1, <3>2 DEF Disconnect
  <2>4. QED
    BY <2>1, <2>2, <2>3
<1>5. QED
  BY <1>1, <1>2, <1>4 DEF Typed, QueueType, PlainType

\* WsHandler reads the slice: what it read is filled.
LEMMA AttachTyped ==
    ASSUME Typed, NEW l \in Launchers, Attach(l)
    PROVE  Typed'
<1>1. MemType' /\ ListenType' /\ CallerType' /\ QueueType'
  BY DEF Typed, Attach, MemType, ListenType, CallerType, QueueType
<1>2. PlainType'
  BY DEF Typed, Attach, PlainType
<1> DEFINE r == [at |-> "append", base |-> launchers]
<1>3. launchers \in Header /\ Filled(mem, launchers)
  BY DEF Typed, MemType, Filled, IsSlice, IsMem, Header
<1>4. r \in AttachRecord /\ r.base = launchers
  BY <1>3 DEF AttachRecord
<1>5. attach' = [attach EXCEPT ![l] = r] /\ mem' = mem
  BY DEF Attach
<1> HIDE DEF r
<1>6. attach' \in [Launchers -> AttachRecord]
  BY <1>4, <1>5 DEF Typed, AttachType
<1>7. \A k \in Launchers : Filled(mem, attach'[k].base)
  BY <1>3, <1>4, <1>5 DEF Typed, AttachType
<1>8. AttachType'
  BY <1>5, <1>6, <1>7 DEF AttachType
<1>9. QED
  BY <1>1, <1>2, <1>8 DEF Typed

\* A slice of the memory is a header.
LEMMA SliceIsHeader ==
    ASSUME NEW m, IsMem(m), NEW s, IsSlice(m, s)
    PROVE  s \in Header
BY DEF IsMem, IsSlice, Header

\* When no cell is cleared, the slices that others hold stay what they were.
LEMMA HeldSlices ==
    ASSUME Typed, Keeps(mem, mem')
    PROVE  /\ IsMem(mem')
           /\ \A l \in Launchers : /\ Filled(mem', attach[l].base)
                                   /\ IsSlice(mem', listen[l].base)
                                   /\ Filled(mem', listen[l].read)
<1>1. IsMem(mem) /\ Len(mem) \in Nat /\ Len(mem') \in Nat /\ Grows(mem, mem')
      /\ IsMem(mem')
  BY DEF Typed, MemType, IsMem, Keeps
<1>2. ASSUME NEW l \in Launchers
      PROVE  /\ Filled(mem', attach[l].base)
             /\ IsSlice(mem', listen[l].base)
             /\ Filled(mem', listen[l].read)
  <2>1. /\ Filled(mem, attach[l].base)
        /\ IsSlice(mem, listen[l].base)
        /\ Filled(mem, listen[l].read)
    BY DEF Typed, AttachType, ListenType
  <2>2. Filled(mem', attach[l].base) /\ Filled(mem', listen[l].read)
    BY <1>1, <2>1, FilledKept
  <2>3. IsSlice(mem', listen[l].base)
    BY <1>1, <2>1, SliceOfGrown
  <2>4. QED
    BY <2>2, <2>3
<1>3. QED
  BY <1>1, <1>2

\* The slice that WsHandler writes is filled.
LEMMA AppendTyped ==
    ASSUME Typed, NEW l \in Launchers, AppendLauncher(l)
    PROVE  Typed'
<1>1. CallerType' /\ QueueType' /\ PlainType'
  BY DEF Typed, AppendLauncher, CallerType, QueueType, PlainType
<1>2. IsMem(mem) /\ Filled(mem, attach[l].base)
  BY DEF Typed, MemType, AttachType
<1>3. /\ mem' = MemAppended(mem, attach[l].base, l)
      /\ launchers' = Appended(mem, attach[l].base, l)
  BY DEF AppendLauncher
<1>4. Keeps(mem, mem') /\ Filled(mem', launchers')
  BY <1>2, <1>3, AppendKeeps
<1>5. /\ IsMem(mem')
      /\ \A k \in Launchers : /\ Filled(mem', attach[k].base)
                              /\ IsSlice(mem', listen[k].base)
                              /\ Filled(mem', listen[k].read)
  BY <1>4, HeldSlices
<1>6. /\ listen' \in [Launchers -> ListenRecord]
      /\ OnlyListen(l)
      /\ listen'[l].at = "read"
      /\ listen'[l].base = listen[l].base
      /\ listen'[l].read = listen[l].read
      /\ attach' \in [Launchers -> AttachRecord]
      /\ \A k \in Launchers \ {l} : attach'[k] = attach[k]
      /\ attach'[l].base = attach[l].base
  BY StartEffect
<1>7. MemType'
  BY <1>4, <1>5 DEF MemType
<1>8. AttachType'
  BY <1>5, <1>6 DEF AttachType
<1>9. ListenType'
  BY <1>5, <1>6 DEF ListenType, OnlyListen, Typed
<1>10. QED
  BY <1>1, <1>7, <1>8, <1>9 DEF Typed

\* A shorter slice of a filled one is filled.
LEMMA ShorterFilled ==
    ASSUME NEW m, IsMem(m), NEW s, Filled(m, s), NEW i \in 1..s.len, NEW t,
           t = [s EXCEPT !.len = @ - 1]
    PROVE  Filled(m, t) /\ t.array = s.array /\ t.len = s.len - 1
<1>1. /\ s \in [array : 0..Len(m), len : Nat] /\ s.len <= Capacity(m, s)
      /\ \A j \in 1..s.len : Elem(m, s, j) \in Launchers
  BY DEF Filled, IsSlice
<1>2. t \in [array : 0..Len(m), len : Nat] /\ t.array = s.array
      /\ t.len = s.len - 1 /\ s.len \in Nat
  BY <1>1
<1>3. s.len - 1 <= s.len /\ \A j \in 1..(s.len - 1) : j \in 1..s.len
  BY <1>2
<1>4. Capacity(m, t) = Capacity(m, s)
  BY <1>2 DEF Capacity
<1>5. Capacity(m, s) \in Nat
  BY <1>1 DEF Capacity, IsMem
<1>6. t.len <= Capacity(m, t)
  BY <1>1, <1>2, <1>4, <1>5
<1>7. \A j \in 1..t.len : Elem(m, t, j) \in Launchers
  BY <1>1, <1>2, <1>3 DEF Elem
<1>8. QED
  BY <1>2, <1>6, <1>7 DEF Filled, IsSlice

\* MoveLaunchers moves the cells when the slice is long enough,
LEMMA MoveEffect ==
    ASSUME Typed, NEW l \in Launchers, MoveLaunchers(l),
           listen[l].found <= launchers.len
    PROVE  /\ listen[l].at = "remove"
           /\ listen[l].found \in 1..launchers.len
           /\ mem' = MemRemoved(mem, launchers, listen[l].found)
           /\ Keeps(mem, mem')
           /\ Filled(mem', launchers)
           /\ listen' \in [Launchers -> ListenRecord]
           /\ OnlyListen(l)
           /\ listen'[l].at = "store"
           /\ listen'[l].base = listen[l].base
           /\ listen'[l].found = listen[l].found
           /\ listen'[l].read = launchers
           /\ crashed' = crashed
<1>1. /\ IsMem(mem) /\ Filled(mem, launchers) /\ launchers.len \in Nat
      /\ launchers \in Header
  BY SliceIsHeader DEF Typed, MemType, Filled, IsSlice
<1>2. /\ listen[l].at = "remove" /\ listen[l].found \in Nat
      /\ listen[l].found \in 1..listen[l].base.len
      /\ listen \in [Launchers -> ListenRecord] /\ listen[l] \in ListenRecord
  BY DEF Typed, ListenType, ListenRecord, MoveLaunchers
<1>3. listen[l].found \in 1..launchers.len /\ ~(listen[l].found > launchers.len)
  BY <1>1, <1>2
<1>4. /\ mem' = MemRemoved(mem, launchers, listen[l].found)
      /\ listen' = [listen EXCEPT ![l].at = "store", ![l].read = launchers]
      /\ crashed' = crashed
  BY <1>3 DEF MoveLaunchers
<1>5. Keeps(mem, mem') /\ IsMem(mem')
  BY <1>1, <1>3, <1>4, RemovalKeeps DEF Keeps
<1>6. Filled(mem', launchers)
  BY <1>1, <1>5, FilledKept
<1>7. PICK s : s = launchers
  OBVIOUS
<1>8. listen'[l] = [listen[l] EXCEPT !.at = "store", !.read = s]
  BY <1>2, <1>4, <1>7
<1>9. listen' = [listen EXCEPT ![l] = listen'[l]]
  BY <1>2, <1>4, <1>7, <1>8
<1>10. /\ listen'[l] \in ListenRecord
       /\ listen'[l].at = "store"
       /\ listen'[l].base = listen[l].base
       /\ listen'[l].found = listen[l].found
       /\ listen'[l].read = s
  BY <1>1, <1>2, <1>7, <1>8 DEF ListenRecord
<1>11. QED
  BY <1>2, <1>3, <1>4, <1>5, <1>6, <1>7, <1>9, <1>10 DEF OnlyListen

\* ... and the process dies when it is too short.
LEMMA MovePanics ==
    ASSUME Typed, NEW l \in Launchers, MoveLaunchers(l),
           ~(listen[l].found <= launchers.len)
    PROVE  /\ UNCHANGED <<mem, launchers, listen>>
           /\ crashed' = TRUE
<1>1. listen[l].found \in Nat /\ launchers.len \in Nat
  BY DEF Typed, ListenType, ListenRecord, MemType, Filled, IsSlice
<1>2. listen[l].found > launchers.len
  BY <1>1
<1>3. QED
  BY <1>2 DEF MoveLaunchers

\* StoreLaunchers writes the header, one shorter than the one it read.
LEMMA StoreEffect ==
    ASSUME Typed, NEW l \in Launchers, StoreLaunchers(l)
    PROVE  /\ listen[l].at = "store"
           /\ UNCHANGED <<mem, attach>>
           /\ Filled(mem, launchers')
           /\ launchers'.array = listen[l].read.array
           /\ launchers'.len = listen[l].read.len - 1
           /\ listen[l].base \in Header /\ listen[l].found \in Nat
           /\ SearchAfter(l, mem, listen[l].base, listen[l].found)
<1>1. /\ listen[l].at = "store"
      /\ UNCHANGED <<mem, attach>>
      /\ launchers' = [listen[l].read EXCEPT !.len = @ - 1]
      /\ SearchAfter(l, mem, listen[l].base, listen[l].found)
  BY DEF StoreLaunchers
<1>2. /\ IsMem(mem) /\ Filled(mem, listen[l].read)
      /\ listen[l].found \in 1..listen[l].read.len
      /\ listen[l].base \in Header /\ listen[l].found \in Nat
  BY <1>1 DEF Typed, MemType, ListenType, ListenRecord
<1>3. /\ Filled(mem, launchers')
      /\ launchers'.array = listen[l].read.array
      /\ launchers'.len = listen[l].read.len - 1
  BY <1>1, <1>2, ShorterFilled
<1>4. QED
  BY <1>1, <1>2, <1>3

\* Where SearchAfter leaves Listen is typed.
LEMMA SearchTyped ==
    ASSUME Typed, NEW l \in Launchers, NEW s, IsSlice(mem', s), NEW i \in Nat,
           Keeps(mem, mem'), s \in Header, SearchAfter(l, mem', s, i)
    PROVE  ListenType'
<1>1. /\ IsMem(mem')
      /\ \A k \in Launchers : /\ IsSlice(mem', listen[k].base)
                              /\ Filled(mem', listen[k].read)
  BY HeldSlices
<1>2. listen \in [Launchers -> ListenRecord]
  BY DEF Typed, ListenType
<1>3. /\ listen' \in [Launchers -> ListenRecord]
      /\ OnlyListen(l)
      /\ listen'[l].read = listen[l].read
      /\ \/ /\ listen'[l].at = "ended"
            /\ listen'[l].base = listen[l].base
         \/ /\ listen'[l].at = "remove"
            /\ listen'[l].base = s
            /\ listen'[l].found \in (i + 1)..s.len
  BY <1>2, SearchEffect
<1>4. \A j \in (i + 1)..s.len : j \in 1..s.len
  BY DEF Header
<1>5. ASSUME NEW k \in Launchers
      PROVE  /\ IsSlice(mem', listen'[k].base)
             /\ Filled(mem', listen'[k].read)
             /\ listen'[k].at = "remove"
                  => listen'[k].found \in 1..listen'[k].base.len
             /\ listen'[k].at = "store"
                  => listen'[k].found \in 1..listen'[k].read.len
  <2>1. CASE k = l
    BY <1>1, <1>3, <1>4, <2>1
  <2>2. CASE k # l
    <3>1. listen'[k] = listen[k]
      BY <1>3, <2>2 DEF OnlyListen
    <3>2. QED
      BY <1>1, <3>1 DEF Typed, ListenType
  <2>3. QED
    BY <2>1, <2>2
<1>6. QED
  BY <1>3, <1>5 DEF ListenType

\* A step of Listen keeps the types.
LEMMA ListenTyped ==
    ASSUME Typed, NEW l \in Launchers, Listen(l)
    PROVE  Typed'
<1>1. CASE ReadMessage(l)
  <2>1. /\ listen' \in [Launchers -> ListenRecord]
        /\ OnlyListen(l)
        /\ listen'[l].at = "deliver"
        /\ listen'[l].base = listen[l].base
        /\ listen'[l].read = listen[l].read
        /\ inbox' \in [Launchers -> Seq(Message)]
    BY <1>1, ReadEffect
  <2>2. ListenType'
    BY <1>1, <2>1 DEF ReadMessage, Typed, ListenType, OnlyListen
  <2>3. MemType' /\ AttachType' /\ CallerType' /\ PlainType'
    BY <1>1 DEF ReadMessage, Typed, MemType, AttachType, CallerType, PlainType
  <2>4. QueueType'
    BY <1>1, <2>1 DEF ReadMessage, Typed, QueueType
  <2>5. QED
    BY <2>2, <2>3, <2>4 DEF Typed
<1>2. CASE Deliver(l)
  <2>1. PICK c \in Callers : Delivered(l, c) \/ Panicked(c)
    BY <1>2, DeliverEffect
  <2>2. MemType' /\ AttachType' /\ QueueType'
    BY <1>2 DEF Deliver, Typed, MemType, AttachType, QueueType
  <2>3. CallerType'
    BY <2>1 DEF Delivered, Panicked, Typed, CallerType, OnlyCall
  <2>4. ListenType'
    BY <1>2, <2>1 DEF Deliver, Delivered, Panicked, Typed, ListenType, OnlyListen
  <2>5. PlainType'
    BY <1>2, <2>1 DEF Deliver, Delivered, Panicked, Typed, PlainType
  <2>6. QED
    BY <2>2, <2>3, <2>4, <2>5 DEF Typed
<1>3. CASE FindLauncher(l)
  <2>1. UNCHANGED <<mem, launchers>> /\ SearchAfter(l, mem, launchers, 0)
    BY <1>3 DEF FindLauncher
  <2>2. IsMem(mem) /\ IsSlice(mem, launchers) /\ Keeps(mem, mem)
    BY DEF Typed, MemType, Filled, Keeps, Grows, IsMem
  <2>3. launchers \in Header
    BY <2>2, SliceIsHeader
  <2>4. ListenType'
    BY <2>1, <2>2, <2>3, SearchTyped
  <2>5. QED
    BY <1>3, <2>4 DEF FindLauncher, Typed, MemType, AttachType, CallerType,
                      QueueType, PlainType
<1>4. CASE MoveLaunchers(l)
  <2>0. UNCHANGED launchers /\ torn' \in BOOLEAN
    BY <1>4 DEF MoveLaunchers, Typed, PlainType
  <2>1. CASE listen[l].found <= launchers.len
    <3>1. /\ listen[l].found \in 1..launchers.len
          /\ Keeps(mem, mem')
          /\ Filled(mem', launchers)
          /\ listen' \in [Launchers -> ListenRecord]
          /\ OnlyListen(l)
          /\ listen'[l].at = "store"
          /\ listen'[l].base = listen[l].base
          /\ listen'[l].found = listen[l].found
          /\ listen'[l].read = launchers
          /\ crashed' = crashed
      BY <1>4, <2>1, MoveEffect
    <3>2. /\ IsMem(mem')
          /\ \A k \in Launchers : /\ Filled(mem', attach[k].base)
                                  /\ IsSlice(mem', listen[k].base)
                                  /\ Filled(mem', listen[k].read)
      BY <3>1, HeldSlices
    <3>3. ASSUME NEW k \in Launchers
          PROVE  /\ IsSlice(mem', listen'[k].base)
                 /\ Filled(mem', listen'[k].read)
                 /\ listen'[k].at = "remove"
                      => listen'[k].found \in 1..listen'[k].base.len
                 /\ listen'[k].at = "store"
                      => listen'[k].found \in 1..listen'[k].read.len
      <4>1. CASE k = l
        BY <3>1, <3>2, <4>1
      <4>2. CASE k # l
        <5>1. listen'[k] = listen[k]
          BY <3>1, <4>2 DEF OnlyListen
        <5>2. QED
          BY <3>2, <5>1 DEF Typed, ListenType
      <4>3. QED
        BY <4>1, <4>2
    <3>4. ListenType'
      BY <3>1, <3>3 DEF ListenType
    <3>5. MemType'
      BY <2>0, <3>1, <3>2 DEF MemType
    <3>6. AttachType' /\ CallerType' /\ QueueType'
      BY <1>4, <3>2 DEF MoveLaunchers, Typed, AttachType, CallerType, QueueType
    <3>7. PlainType'
      BY <1>4, <2>0, <3>1 DEF MoveLaunchers, Typed, PlainType
    <3>8. QED
      BY <3>4, <3>5, <3>6, <3>7 DEF Typed
  <2>2. CASE ~(listen[l].found <= launchers.len)
    <3>1. UNCHANGED <<mem, launchers, listen>> /\ crashed' = TRUE
      BY <1>4, <2>2, MovePanics
    <3>2. MemType' /\ AttachType' /\ ListenType' /\ CallerType' /\ QueueType'
      BY <1>4, <3>1 DEF MoveLaunchers, Typed, MemType, AttachType, ListenType,
                        CallerType, QueueType
    <3>3. PlainType'
      BY <1>4, <2>0, <3>1 DEF MoveLaunchers, Typed, PlainType
    <3>4. QED
      BY <3>2, <3>3 DEF Typed
  <2>3. QED
    BY <2>1, <2>2
<1>5. CASE StoreLaunchers(l)
  <2>1. /\ UNCHANGED <<mem, attach>>
        /\ Filled(mem, launchers')
        /\ listen[l].base \in Header /\ listen[l].found \in Nat
        /\ SearchAfter(l, mem, listen[l].base, listen[l].found)
    BY <1>5, StoreEffect
  <2>2. /\ IsMem(mem) /\ IsSlice(mem, listen[l].base) /\ Keeps(mem, mem)
    BY DEF Typed, MemType, ListenType, Keeps, Grows, IsMem
  <2>3. ListenType'
    BY <2>1, <2>2, SearchTyped
  <2>4. torn' \in BOOLEAN
    BY <1>5 DEF StoreLaunchers, Typed, PlainType
  <2>5. MemType'
    BY <2>1, <2>2 DEF MemType
  <2>6. QED
    BY <1>5, <2>1, <2>3, <2>4, <2>5
    DEF StoreLaunchers, Typed, AttachType, CallerType, QueueType, PlainType
<1>6. QED
  BY <1>1, <1>2, <1>3, <1>4, <1>5 DEF Listen

-----------------------------------------------------------------------------
(* The slice of launchers.                                                 *)

Listening == {l \in Launchers : listen[l].at \in {"read", "deliver", "remove"}}

\* Listen runs from the moment its launcher is in the slice.
Started ==
    \A l \in Launchers :
      attach[l].at \in {"idle", "append"} <=> listen[l].at = "none"

\* The slice s of the memory m lists the launchers of set, and none twice.
Lists(m, s, set) ==
    /\ \A i, j \in 1..s.len : Elem(m, s, i) = Elem(m, s, j) => i = j
    /\ Elems(m, s) = set

\* The slice that a removal will store.
Shorter(s) == [s EXCEPT !.len = @ - 1]

\* No removal is about to write its header: the slice is the list.
Settled ==
    (\A l \in Launchers : listen[l].at # "store")
      => Lists(mem, launchers, Listening)

\* The removal of l has moved the cells of the slice and not yet written the
\* header: it is the only one, what it will write is the list, and it will
\* find its launcher no more.
Storing(l) ==
    /\ \A k \in Launchers : listen[k].at = "store" => k = l
    /\ launchers = listen[l].read
    /\ launchers = listen[l].base
    /\ Lists(mem, Shorter(launchers), Listening)
    /\ Elems(mem, launchers) \subseteq Listening \cup {l}
    /\ \A j \in (listen[l].found + 1)..launchers.len : Elem(mem, launchers, j) # l

OneStores == \A l \in Launchers : listen[l].at = "store" => Storing(l)

Listed ==
    /\ Started
    /\ ~torn => Settled /\ OneStores

\* No launcher is listed, and none listens.
LEMMA InitListed == Init => Listed
<1> SUFFICES ASSUME Init PROVE Listed
  OBVIOUS
<1>1. \A l \in Launchers : listen[l].at = "none" /\ attach[l].at = "idle"
  BY DEF Init
<1>2. Listening = {} /\ launchers.len = 0
  BY <1>1 DEF Init, Listening, EmptySlice
<1>3. Elems(mem, launchers) = {}
  BY <1>2 DEF Elems
<1>4. QED
  BY <1>1, <1>2, <1>3 DEF Listed, Started, Settled, OneStores, Lists

\* A step that leaves the slice alone, every Listen in the slice or out, and
\* every removal where it is.
LEMMA ListedKept ==
    ASSUME Listed, UNCHANGED <<mem, launchers, torn>>,
           \A l \in Launchers :
             /\ attach'[l].at \in {"idle", "append"}
                  <=> attach[l].at \in {"idle", "append"}
             /\ listen'[l].at = "none" <=> listen[l].at = "none"
             /\ listen'[l].at \in {"read", "deliver", "remove"}
                  <=> listen[l].at \in {"read", "deliver", "remove"}
             /\ listen'[l].at = "store" <=> listen[l].at = "store"
             /\ listen[l].at = "store" => listen'[l] = listen[l]
    PROVE  Listed'
<1>1. Listening' = Listening
  BY DEF Listening
<1>2. Started'
  BY DEF Listed, Started
<1>3. PICK m, s, set : m = mem /\ s = launchers /\ set = Listening
  OBVIOUS
<1>4. mem' = m /\ launchers' = s /\ Listening' = set
  BY <1>1, <1>3
<1>5. ASSUME ~torn PROVE Settled' /\ OneStores'
  <2>1. /\ (\A l \in Launchers : listen[l].at # "store") => Lists(m, s, set)
        /\ \A l \in Launchers : listen[l].at = "store" => Storing(l)
    BY <1>3, <1>5 DEF Listed, Settled, OneStores
  <2>2. Settled'
    BY <1>4, <2>1 DEF Settled
  <2>3. ASSUME NEW l \in Launchers, listen'[l].at = "store"
        PROVE  Storing(l)'
    <3>1. Storing(l) /\ listen'[l] = listen[l]
      BY <2>1, <2>3
    <3>2. /\ \A k \in Launchers : listen[k].at = "store" => k = l
          /\ s = listen[l].read
          /\ s = listen[l].base
          /\ Lists(m, Shorter(s), set)
          /\ Elems(m, s) \subseteq set \cup {l}
          /\ \A j \in (listen[l].found + 1)..s.len : Elem(m, s, j) # l
      BY <1>3, <3>1 DEF Storing
    <3>3. QED
      BY <1>4, <3>1, <3>2 DEF Storing
  <2>4. QED
    BY <2>2, <2>3 DEF OneStores
<1>6. QED
  BY <1>2, <1>5 DEF Listed

\* The new launcher is listed last.
LEMMA AppendListed ==
    ASSUME Typed, Listed, NEW l \in Launchers, AppendLauncher(l)
    PROVE  Listed'
<1>1. /\ listen' \in [Launchers -> ListenRecord]
      /\ OnlyListen(l)
      /\ listen'[l].at = "read"
      /\ \A k \in Launchers \ {l} : attach'[k] = attach[k]
      /\ attach[l].at = "append"
      /\ attach'[l].at = "done"
  BY StartEffect
<1>2. listen[l].at = "none"
  BY <1>1 DEF Listed, Started
<1>3. Started'
  BY <1>1 DEF Listed, Started, OnlyListen
<1>4. Listening' = Listening \cup {l} /\ l \notin Listening
  BY <1>1, <1>2 DEF Listening, OnlyListen
<1>5. ASSUME ~torn' PROVE Settled' /\ OneStores'
  <2>1. ~torn /\ launchers = attach[l].base /\ ~Overlaps(l)
    BY <1>5 DEF AppendLauncher
  <2>2. /\ mem' = MemAppended(mem, launchers, l)
        /\ launchers' = Appended(mem, launchers, l)
    BY <2>1 DEF AppendLauncher
  <2>3. /\ IsMem(mem) /\ IsSlice(mem, launchers) /\ l \in Cells
        /\ launchers.len \in Nat
    BY DEF Typed, MemType, Filled, IsSlice, Cells
  <2>4. /\ launchers'.len = launchers.len + 1
        /\ \A i \in 1..launchers.len :
             Elem(mem', launchers', i) = Elem(mem, launchers, i)
        /\ Elem(mem', launchers', launchers'.len) = l
    BY <2>2, <2>3, AppendedSlice
  <2>5. /\ \A i \in 1..launchers.len : i \in 1..launchers'.len
        /\ \A i \in 1..launchers'.len : i \in 1..launchers.len \/ i = launchers'.len
        /\ launchers'.len \in 1..launchers'.len
    BY <2>3, <2>4
  <2>6. \A k \in Launchers : listen[k].at # "store"
    BY <1>2, <2>1 DEF Overlaps
  <2>7. Lists(mem, launchers, Listening)
    BY <2>1, <2>6 DEF Listed, Settled
  <2>8. \A i \in 1..launchers.len : Elem(mem, launchers, i) # l
    BY <1>4, <2>7 DEF Elems, Lists
  <2>9. \A i, j \in 1..launchers'.len :
          Elem(mem', launchers', i) = Elem(mem', launchers', j) => i = j
    BY <2>4, <2>5, <2>7, <2>8 DEF Lists
  <2>10. Elems(mem', launchers') = Elems(mem, launchers) \cup {l}
    BY <2>4, <2>5 DEF Elems
  <2>11. Elems(mem', launchers') = Listening'
    BY <1>4, <2>7, <2>10 DEF Lists
  <2>12. Settled'
    BY <2>9, <2>11 DEF Settled, Lists
  <2>13. OneStores'
    BY <1>1, <2>6 DEF OneStores, OnlyListen
  <2>14. QED
    BY <2>12, <2>13
<1>6. QED
  BY <1>3, <1>5 DEF Listed

\* What is left when the launcher at i is removed.
LEMMA RemovedElements ==
    ASSUME NEW m, IsMem(m), NEW s, IsSlice(m, s), NEW i \in 1..s.len,
           \A j, k \in 1..s.len : Elem(m, s, j) = Elem(m, s, k) => j = k,
           NEW n, n = MemRemoved(m, s, i),
           NEW t, t.array = s.array, t.len = s.len - 1
    PROVE  /\ \A j, k \in 1..t.len : Elem(n, t, j) = Elem(n, t, k) => j = k
           /\ Elems(n, t) = Elems(m, s) \ {Elem(m, s, i)}
           /\ Elems(n, s) \subseteq Elems(m, s)
           /\ \A j \in (i + 1)..s.len : Elem(n, s, j) # Elem(m, s, i)
<1>1. /\ s.len \in Nat /\ i \in Nat /\ s.array \in 1..Len(m)
      /\ s.len <= Len(m[s.array]) /\ Len(m[s.array]) \in Nat
  BY DEF IsMem, IsSlice, Capacity
<1>2. \A j \in 1..Len(m[s.array]) :
        n[s.array][j] = IF j \in i..(s.len - 1) THEN m[s.array][j + 1]
                        ELSE m[s.array][j]
  BY RemovedSlice
<1> DEFINE from(j) == IF j < i THEN j ELSE j + 1
<1>3. \A j \in 1..t.len : /\ from(j) \in 1..s.len
                          /\ from(j) # i
                          /\ Elem(n, t, j) = Elem(m, s, from(j))
  BY <1>1, <1>2 DEF Elem
<1>4. \A j, k \in 1..t.len : from(j) = from(k) => j = k
  BY <1>1
<1>5. \A j \in 1..s.len : j # i => \E k \in 1..t.len : from(k) = j
  <2>1. ASSUME NEW j \in 1..s.len, j < i
        PROVE  j \in 1..t.len /\ from(j) = j
    BY <1>1, <2>1
  <2>2. ASSUME NEW j \in 1..s.len, j > i
        PROVE  j - 1 \in 1..t.len /\ from(j - 1) = j
    BY <1>1, <2>2
  <2>3. \A j \in 1..s.len : j # i => j < i \/ j > i
    BY <1>1
  <2>4. QED
    BY <2>1, <2>2, <2>3
<1>6. \A j \in (i + 1)..s.len : Elem(n, s, j) # Elem(m, s, i)
  <2>1. ASSUME NEW j \in (i + 1)..s.len
        PROVE  \E k \in 1..s.len : k # i /\ Elem(n, s, j) = Elem(m, s, k)
    <3>1. CASE j < s.len
      <4>1. j + 1 \in 1..s.len /\ j + 1 # i
            /\ Elem(n, s, j) = Elem(m, s, j + 1)
        BY <1>1, <1>2, <3>1 DEF Elem
      <4>2. QED
        BY <4>1
    <3>2. CASE j = s.len
      <4>0. /\ j \in 1..s.len /\ j # i
            /\ j \in 1..Len(m[s.array]) /\ j \notin i..(s.len - 1)
        BY <1>1, <3>2
      <4>1. j \in 1..s.len /\ j # i /\ Elem(n, s, j) = Elem(m, s, j)
        BY <1>2, <4>0 DEF Elem
      <4>2. QED
        BY <4>1
    <3>3. QED
      BY <1>1, <3>1, <3>2
  <2>2. QED
    BY <2>1
<1> HIDE DEF from
<1>7. Elems(n, t) = Elems(m, s) \ {Elem(m, s, i)}
  BY <1>3, <1>5 DEF Elems
<1>8. \A j, k \in 1..t.len : Elem(n, t, j) = Elem(n, t, k) => j = k
  BY <1>3, <1>4
<1>9. Elems(n, s) \subseteq Elems(m, s)
  <2>1. ASSUME NEW j \in 1..s.len
        PROVE  \E k \in 1..s.len : Elem(n, s, j) = Elem(m, s, k)
    <3>1. j \in 1..Len(m[s.array]) /\ j \in Nat
      BY <1>1
    <3>2. CASE j \in i..(s.len - 1)
      <4>1. j + 1 \in 1..s.len /\ Elem(n, s, j) = Elem(m, s, j + 1)
        BY <1>1, <1>2, <3>1, <3>2 DEF Elem
      <4>2. QED
        BY <4>1
    <3>3. CASE j \notin i..(s.len - 1)
      BY <1>2, <3>1, <3>3 DEF Elem
    <3>4. QED
      BY <3>2, <3>3
  <2>2. QED
    BY <2>1 DEF Elems
<1>10. QED
  BY <1>6, <1>7, <1>8, <1>9

\* Whether or not a removal is about to store, a launcher with a Listen is
\* in the slice, and no other than the one being removed.
LEMMA ListeningIsListed ==
    ASSUME Typed, Listed, ~torn
    PROVE  /\ Listening \subseteq Elems(mem, launchers)
           /\ \A k \in Elems(mem, launchers) :
                k \in Listening \/ (k \in Launchers /\ listen[k].at = "store")
<1>1. CASE \A l \in Launchers : listen[l].at # "store"
  BY <1>1 DEF Listed, Settled, Lists
<1>2. ASSUME NEW l \in Launchers, listen[l].at = "store"
      PROVE  /\ Listening \subseteq Elems(mem, launchers)
             /\ Elems(mem, launchers) \subseteq Listening \cup {l}
  <2>1. /\ Elems(mem, Shorter(launchers)) = Listening
        /\ Elems(mem, launchers) \subseteq Listening \cup {l}
    BY <1>2 DEF Listed, OneStores, Storing, Lists
  <2>2. /\ launchers \in [array : 0..Len(mem), len : Nat]
    BY DEF Typed, MemType, Filled, IsSlice
  <2>3. /\ Shorter(launchers).len = launchers.len - 1
        /\ Shorter(launchers).array = launchers.array
        /\ launchers.len \in Nat
    BY <2>2 DEF Shorter
  <2>4. Elems(mem, Shorter(launchers)) \subseteq Elems(mem, launchers)
    BY <2>3 DEF Elems, Elem
  <2>5. QED
    BY <2>1, <2>4
<1>3. QED
  BY <1>1, <1>2

\* A Listen that ends finds its launcher, unless updates raced.
LEMMA FindListed ==
    ASSUME Typed, Listed, NEW l \in Launchers, FindLauncher(l)
    PROVE  Listed'
<1>1. /\ listen[l].at = "read"
      /\ UNCHANGED <<mem, launchers, attach, torn>>
      /\ SearchAfter(l, mem, launchers, 0)
  BY DEF FindLauncher
<1>2. /\ listen \in [Launchers -> ListenRecord]
      /\ IsMem(mem) /\ IsSlice(mem, launchers)
  BY DEF Typed, ListenType, MemType, Filled
<1>3. launchers \in Header
  BY <1>2, SliceIsHeader
<1>4. /\ OnlyListen(l)
      /\ \/ /\ listen'[l].at = "ended"
            /\ \A j \in (0 + 1)..launchers.len : Elem(mem, launchers, j) # l
         \/ listen'[l].at = "remove"
  BY <1>1, <1>2, <1>3, SearchEffect
<1>5. CASE listen'[l].at = "remove"
  BY <1>1, <1>4, <1>5, ListedKept DEF OnlyListen
<1>6. CASE listen'[l].at # "remove"
  <2>1. /\ listen'[l].at = "ended"
        /\ \A j \in 1..launchers.len : Elem(mem, launchers, j) # l
    BY <1>4, <1>6
  <2>2. torn
    <3>1. l \in Listening /\ l \notin Elems(mem, launchers)
      BY <1>1, <2>1 DEF Listening, Elems
    <3>2. ~torn => Listening \subseteq Elems(mem, launchers)
      BY ListeningIsListed
    <3>3. QED
      BY <3>1, <3>2
  <2>3. Started'
    BY <1>1, <1>4, <2>1 DEF Listed, Started, OnlyListen
  <2>4. QED
    BY <1>1, <2>2, <2>3 DEF Listed
<1>7. QED
  BY <1>5, <1>6

\* The removal moves the cells after its launcher,
LEMMA MoveListed ==
    ASSUME Typed, Listed, NEW l \in Launchers, MoveLaunchers(l)
    PROVE  Listed'
<1>0. PICK i : i = listen[l].found
  OBVIOUS
<1>1. UNCHANGED <<attach, launchers>> /\ listen[l].at = "remove"
  BY DEF MoveLaunchers
<1>2. CASE ~(i <= launchers.len)
  <2>1. UNCHANGED <<mem, launchers, listen>>
    BY <1>0, <1>2, MovePanics
  <2>2. ~torn' => ~torn
    BY DEF MoveLaunchers
  <2>3. Listening' = Listening /\ Started'
    BY <1>1, <2>1 DEF Listening, Listed, Started
  <2>4. QED
    BY <2>1, <2>2, <2>3
    DEF Listed, Settled, OneStores, Storing, Lists, Elems, Shorter
<1>3. CASE i <= launchers.len
  <2>1. /\ i \in 1..launchers.len
        /\ mem' = MemRemoved(mem, launchers, i)
        /\ OnlyListen(l)
        /\ listen'[l].at = "store"
        /\ listen'[l].base = listen[l].base
        /\ listen'[l].found = i
        /\ listen'[l].read = launchers
    BY <1>0, <1>3, MoveEffect
  <2>2. IsMem(mem) /\ IsSlice(mem, launchers)
    BY DEF Typed, MemType, Filled
  <2>3. Started'
    BY <1>1, <2>1 DEF Listed, Started, OnlyListen
  <2>4. Settled'
    BY <2>1 DEF Settled
  <2>5. ASSUME ~torn' PROVE OneStores'
    <3>1. /\ ~torn /\ launchers = listen[l].base /\ ~Overlaps(l)
          /\ Elem(mem, launchers, i) = l
      BY <1>0, <2>5 DEF MoveLaunchers
    <3>2. \A k \in Launchers : listen[k].at # "store"
      BY <1>1, <3>1 DEF Overlaps
    <3>3. /\ \A j, k \in 1..launchers.len :
               Elem(mem, launchers, j) = Elem(mem, launchers, k) => j = k
          /\ Elems(mem, launchers) = Listening
      BY <3>1, <3>2 DEF Listed, Settled, Lists
    <3>4. PICK s, n : s = launchers /\ n = mem'
      OBVIOUS
    <3>5. Shorter(s).array = s.array /\ Shorter(s).len = s.len - 1
      BY <2>2, <3>4 DEF Shorter, IsSlice
    <3>6. /\ \A j, k \in 1..Shorter(s).len :
               Elem(n, Shorter(s), j) = Elem(n, Shorter(s), k) => j = k
          /\ Elems(n, Shorter(s)) = Elems(mem, s) \ {l}
          /\ Elems(n, s) \subseteq Elems(mem, s)
          /\ \A j \in (i + 1)..s.len : Elem(n, s, j) # l
      BY <2>1, <2>2, <3>1, <3>3, <3>4, <3>5, RemovedElements
    <3>7. Listening' = Listening \ {l}
      BY <2>1 DEF Listening, OnlyListen
    <3>8. /\ \A k \in Launchers : listen'[k].at = "store" => k = l
          /\ launchers' = s
          /\ listen'[l].read = s /\ listen'[l].base = s /\ listen'[l].found = i
      BY <1>1, <2>1, <3>1, <3>2, <3>4 DEF OnlyListen
    <3>9. /\ Lists(n, Shorter(s), Listening')
          /\ Elems(n, s) \subseteq Listening' \cup {l}
      BY <3>3, <3>4, <3>6, <3>7 DEF Lists
    <3>10. Storing(l)'
      BY <3>4, <3>6, <3>8, <3>9 DEF Storing
    <3>11. QED
      BY <3>8, <3>10 DEF OneStores
  <2>6. ~torn' => Settled' /\ OneStores'
    BY <2>4, <2>5
  <2>7. QED
    BY <2>3, <2>6 DEF Listed
<1>4. QED
  BY <1>2, <1>3

\* ... and after it has written the header the launcher is not listed any
\* more, nor found again.
LEMMA StoreListed ==
    ASSUME Typed, Listed, NEW l \in Launchers, StoreLaunchers(l)
    PROVE  Listed'
<1>0. PICK b, i : b = listen[l].base /\ i = listen[l].found
  OBVIOUS
<1>1. /\ listen[l].at = "store"
      /\ UNCHANGED <<mem, attach>>
      /\ b \in Header /\ i \in Nat
      /\ SearchAfter(l, mem, b, i)
      /\ launchers' = Shorter(listen[l].read)
  BY <1>0, StoreEffect DEF StoreLaunchers, Shorter
<1>2. listen \in [Launchers -> ListenRecord]
  BY DEF Typed, ListenType
<1>3. /\ OnlyListen(l)
      /\ \/ listen'[l].at = "ended"
         \/ /\ listen'[l].at = "remove"
            /\ listen'[l].found \in (i + 1)..b.len
            /\ Elem(mem, b, listen'[l].found) = l
  BY <1>1, <1>2, SearchEffect
<1>4. Started'
  BY <1>1, <1>3 DEF Listed, Started, OnlyListen
<1>5. ASSUME ~torn' PROVE Settled' /\ OneStores'
  <2>1. ~torn
    BY <1>5 DEF StoreLaunchers
  <2>2. Storing(l)
    BY <1>1, <2>1 DEF Listed, OneStores
  <2>3. /\ \A k \in Launchers : listen[k].at = "store" => k = l
        /\ b = launchers
        /\ launchers' = Shorter(launchers)
        /\ Lists(mem, Shorter(launchers), Listening)
        /\ \A j \in (i + 1)..b.len : Elem(mem, b, j) # l
    BY <1>0, <1>1, <2>2 DEF Storing
  <2>4. listen'[l].at = "ended"
    BY <1>3, <2>3
  <2>5. Listening' = Listening
    BY <1>1, <1>3, <2>4 DEF Listening, OnlyListen
  <2>6. Lists(mem', launchers', Listening')
    BY <1>1, <2>3, <2>5
  <2>7. \A k \in Launchers : listen'[k].at # "store"
    BY <1>3, <2>3, <2>4 DEF OnlyListen
  <2>8. QED
    BY <2>6, <2>7 DEF Settled, OneStores
<1>6. QED
  BY <1>4, <1>5 DEF Listed

\* Every step keeps the list.
LEMMA NextListed ==
    ASSUME Typed, Listed, Next
    PROVE  Listed'
<1>1. ASSUME NEW c \in Callers, Call(c) PROVE Listed'
  <2>1. UNCHANGED <<mem, launchers, torn, attach, listen>>
    BY <1>1 DEF Call, CheckLaunchers, PickLauncher, ReadCounter, WriteCounter,
                SendMessage, Register, CloseChan, DeleteRequest
  <2>2. QED
    BY <2>1, ListedKept
<1>2. ASSUME NEW l \in Launchers, Answer(l) \/ OwnRequest(l) \/ Disconnect(l)
      PROVE  Listed'
  <2>1. UNCHANGED <<mem, launchers, torn, attach, listen>>
    BY <1>2 DEF Answer, OwnRequest, Disconnect
  <2>2. QED
    BY <2>1, ListedKept
<1>3. ASSUME NEW l \in Launchers, Attach(l) PROVE Listed'
  <2>1. /\ UNCHANGED <<mem, launchers, torn, listen>>
        /\ attach[l].at = "idle"
        /\ attach' = [attach EXCEPT ![l] = [at |-> "append", base |-> launchers]]
    BY <1>3 DEF Attach
  <2>2. /\ \A k \in Launchers \ {l} : attach'[k] = attach[k]
        /\ attach'[l].at = "append"
    BY <2>1 DEF Typed, AttachType
  <2>3. QED
    BY <2>1, <2>2, ListedKept
<1>4. ASSUME NEW l \in Launchers, ReadMessage(l) PROVE Listed'
  <2>1. UNCHANGED <<mem, launchers, torn, attach>>
    BY <1>4 DEF ReadMessage
  <2>2. OnlyListen(l) /\ listen[l].at = "read" /\ listen'[l].at = "deliver"
    BY <1>4, ReadEffect
  <2>3. QED
    BY <2>1, <2>2, ListedKept DEF OnlyListen
<1>5. ASSUME NEW l \in Launchers, Deliver(l) PROVE Listed'
  <2>1. UNCHANGED <<mem, launchers, torn, attach>>
    BY <1>5 DEF Deliver
  <2>2. listen[l].at = "deliver"
    BY <1>5 DEF Deliver
  <2>3. PICK c \in Callers : Delivered(l, c) \/ Panicked(c)
    BY <1>5, DeliverEffect
  <2>4. \/ OnlyListen(l) /\ listen'[l].at = "read"
        \/ listen' = listen
    BY <2>3 DEF Delivered, Panicked
  <2>5. QED
    BY <2>1, <2>2, <2>4, ListedKept DEF OnlyListen
<1>6. QED
  BY <1>1, <1>2, <1>3, <1>4, <1>5, AppendListed, FindListed, MoveListed,
     StoreListed
  DEF Next, Listen

-----------------------------------------------------------------------------
(* The numbers.                                                            *)

\* A call has a number from SendMessage on, uses it until it has returned,
\* and is registered under it from Register to DeleteRequest.
Numbered == {c \in Callers :
               caller[c].at \in {"register", "wait", "close", "delete", "done"}}

Using == {c \in Callers :
            caller[c].at \in {"register", "wait", "close", "delete"}}

Present == {c \in Callers : caller[c].at \in {"wait", "close", "delete"}}

Unanswered == {c \in Callers : caller[c].at \in {"register", "wait"}}

Has(c, l, id) == caller[c].launcher = l /\ caller[c].id = id

\* The channels of a launcher belong to calls that have its number.
Registered ==
    \A l \in Launchers, id \in Ids :
      requests[l][id] # NoCaller
        => requests[l][id] \in Present /\ Has(requests[l][id], l, id)

\* The call c, which has the number id of l, is not answered; or numbers
\* collided, and another call has its number.
Due(c, l, id) ==
    \/ c \in Unanswered
    \/ collided /\ \E d \in Numbered : d # c /\ Has(d, l, id)

\* A message is about the call that has its number, and due as long as the
\* launcher only answers.
Addressed ==
    \A l \in Launchers : \A m \in InFlight(l) :
      /\ m.to # NoCaller => m.to \in Numbered /\ Has(m.to, l, m.id)
      /\ own[l] = 0 => m.to # NoCaller
      /\ own[l] = 0 => Due(m.to, l, m.id)

\* There is one message of a call, or one answer.
OnceAt(l) ==
    /\ \A i \in 1..Len(inbox[l]) : inbox[l][i].to # NoCaller
         => /\ \A j \in 1..Len(inbox[l]) :
                 inbox[l][j].to = inbox[l][i].to => j = i
            /\ \A m \in outbox[l] : m.to # inbox[l][i].to
    /\ listen[l].at = "deliver" /\ listen[l].msg.to # NoCaller
         => /\ \A i \in 1..Len(inbox[l]) : inbox[l][i].to # listen[l].msg.to
            /\ \A m \in outbox[l] : m.to # listen[l].msg.to

Once == \A l \in Launchers : OnceAt(l)

\* The channel Listen sends to is of the call that the message is about.
Aimed ==
    \A l \in Launchers :
      listen[l].at = "deliver" /\ listen[l].target # NoCaller
        => /\ listen[l].target \in Numbered
           /\ caller[listen[l].target].at # "register"
           /\ Has(listen[l].target, l, listen[l].msg.id)
           /\ ~collided => listen[l].msg.to \in {listen[l].target, NoCaller}

\* No two calls use one number of a launcher.
Alone ==
    ~collided => \A l \in Launchers, id \in Ids :
                   \A c, d \in Users(l, id) : c = d

Numbers == Registered /\ Addressed /\ Once /\ Aimed /\ Alone /\ OwnAnswer

\* No call has a number, and nothing is in flight.
LEMMA InitNumbers == Init => Numbers
<1> SUFFICES ASSUME Init PROVE Numbers
  OBVIOUS
<1>1. \A l \in Launchers : InFlight(l) = {}
  BY DEF Init, InFlight
<1>2. \A c \in Callers : caller[c].at = "idle"
  BY DEF Init
<1>3. \A l \in Launchers : listen[l].at = "none" /\ inbox[l] = <<>>
  BY DEF Init
<1>4. Registered
  BY DEF Init, Registered
<1>5. Addressed
  BY <1>1 DEF Addressed
<1>6. Once
  BY <1>3 DEF Once, OnceAt
<1>7. Aimed
  BY <1>3 DEF Aimed
<1>8. Alone
  BY <1>1, <1>2 DEF Alone, Users
<1>9. OwnAnswer
  BY <1>2 DEF OwnAnswer, Answered
<1>10. QED
  BY <1>4, <1>5, <1>6, <1>7, <1>8, <1>9 DEF Numbers

\* What most steps keep: calls keep their numbers, no call starts to use one,
\* and Listen takes no message.
NumbersStay ==
    \A d \in Numbered : /\ d \in Numbered'
                        /\ caller'[d].launcher = caller[d].launcher
                        /\ caller'[d].id = caller[d].id

NoNewUser == \A d \in Callers : d \in Using' => d \in Using

HandsStay ==
    \A l \in Launchers :
      listen'[l].at = "deliver"
        => /\ listen[l].at = "deliver"
           /\ listen'[l].msg = listen[l].msg
           /\ listen'[l].target = listen[l].target

\* Messages are only new when the launcher sent them on its own.
OnlyOwnMessages ==
    \A l \in Launchers :
      /\ own'[l] = 0 => own[l] = 0
      /\ \A m \in InFlight(l)' :
           m \in InFlight(l) \/ (m.to = NoCaller /\ own'[l] # 0)

\* A call that is answered has no message in flight any more.
AnswersArrive ==
    \A d \in Unanswered :
      d \in Unanswered' \/ \A l \in Launchers : \A m \in InFlight(l)' : m.to # d

\* A call that uses a number has one.
LEMMA UsingIsNumbered == Using \subseteq Numbered /\ Present \subseteq Using
BY DEF Using, Numbered, Present

\* Messages stay addressed.
LEMMA AddressedKept ==
    ASSUME Addressed, NumbersStay, OnlyOwnMessages, AnswersArrive,
           UNCHANGED collided
    PROVE  Addressed'
<1>1. ASSUME NEW l \in Launchers, NEW m \in InFlight(l)'
      PROVE  /\ m.to # NoCaller => m.to \in Numbered' /\ Has(m.to, l, m.id)'
             /\ own'[l] = 0 => m.to # NoCaller
             /\ own'[l] = 0 => Due(m.to, l, m.id)'
  <2>1. CASE m \in InFlight(l)
    <3>1. /\ m.to # NoCaller => m.to \in Numbered /\ Has(m.to, l, m.id)
          /\ own[l] = 0 => m.to # NoCaller
          /\ own[l] = 0 => Due(m.to, l, m.id)
      BY <2>1 DEF Addressed
    <3>2. m.to # NoCaller => m.to \in Numbered' /\ Has(m.to, l, m.id)'
      BY <3>1 DEF NumbersStay, Has
    <3>3. Due(m.to, l, m.id) => Due(m.to, l, m.id)'
      BY <1>1 DEF AnswersArrive, NumbersStay, Due, Has
    <3>4. QED
      BY <3>1, <3>2, <3>3 DEF OnlyOwnMessages
  <2>2. CASE m \notin InFlight(l)
    BY <1>1, <2>2 DEF OnlyOwnMessages
  <2>3. QED
    BY <2>1, <2>2
<1>2. QED
  BY <1>1 DEF Addressed

\* Users of a number stay alone.
LEMMA AloneKept ==
    ASSUME Addressed, Alone, NumbersStay, NoNewUser, OnlyOwnMessages,
           UNCHANGED collided
    PROVE  Alone'
<1>1. ASSUME NEW l \in Launchers, NEW id \in Ids, NEW d \in Users(l, id)'
      PROVE  d \in Users(l, id)
  <2>1. /\ d \in Callers
        /\ caller'[d].launcher = l
        /\ caller'[d].id = id
        /\ d \in Using' \/ \E m \in InFlight(l)' : m.to = d
    BY <1>1 DEF Users, Using
  <2>2. CASE d \in Using'
    <3>1. d \in Using /\ d \in Numbered
      BY <2>1, <2>2, UsingIsNumbered DEF NoNewUser
    <3>2. caller[d].launcher = l /\ caller[d].id = id
      BY <2>1, <3>1 DEF NumbersStay
    <3>3. QED
      BY <2>1, <3>1, <3>2 DEF Users, Using
  <2>3. CASE \E m \in InFlight(l)' : m.to = d
    <3>1. PICK m \in InFlight(l)' : m.to = d
      BY <2>3
    <3>2. m \in InFlight(l) /\ d # NoCaller
      BY <2>1, <3>1, RegistryAssumption DEF OnlyOwnMessages
    <3>3. d \in Numbered
      BY <3>1, <3>2 DEF Addressed
    <3>4. caller[d].launcher = l /\ caller[d].id = id
      BY <2>1, <3>3 DEF NumbersStay
    <3>5. QED
      BY <2>1, <3>1, <3>2, <3>4 DEF Users
  <2>4. QED
    BY <2>1, <2>2, <2>3
<1>2. QED
  BY <1>1 DEF Alone

\* Channels stay those of calls with their number.
LEMMA RegisteredKept ==
    ASSUME Registered, NumbersStay, UNCHANGED requests,
           \A d \in Present : d \in Present'
    PROVE  Registered'
<1>1. Present \subseteq Numbered
  BY UsingIsNumbered
<1>2. QED
  BY <1>1 DEF Registered, NumbersStay, Has

\* The channels Listen sends to stay those of the messages.
LEMMA AimedKept ==
    ASSUME Aimed, NumbersStay, HandsStay, UNCHANGED collided,
           \A d \in Numbered : caller[d].at # "register"
                                 => caller'[d].at # "register"
    PROVE  Aimed'
BY DEF Aimed, NumbersStay, HandsStay, Has

\* A message of a call stays the only one.
LEMMA OnceKept ==
    ASSUME Once, HandsStay, UNCHANGED <<outbox, inbox>>
    PROVE  Once'
BY DEF Once, OnceAt, HandsStay

\* Answers that were given stay own answers.
LEMMA OwnAnswerKept ==
    ASSUME OwnAnswer, UNCHANGED collided,
           \A d \in Answered' : /\ d \in Answered
                                /\ caller'[d].answer = caller[d].answer
    PROVE  OwnAnswer'
BY DEF OwnAnswer

\* Hands that stay, outbox and inbox that stay: no message is new.
LEMMA SameFlight ==
    ASSUME HandsStay, UNCHANGED <<outbox, inbox, own>>
    PROVE  OnlyOwnMessages
BY DEF HandsStay, OnlyOwnMessages, InFlight

Early == {"idle", "pick", "count", "add", "send", "failed"}

\* Steps that are about no number: of the slice, and of calls without one.
LEMMA QuietNumbers ==
    ASSUME Numbers, HandsStay,
           UNCHANGED <<requests, outbox, inbox, own, collided>>,
           \A d \in Callers : \/ caller'[d] = caller[d]
                              \/ caller[d].at \in Early /\ caller'[d].at \in Early
    PROVE  Numbers'
<1>1. NumbersStay /\ NoNewUser
  BY DEF NumbersStay, NoNewUser, Numbered, Using, Early
<1>2. OnlyOwnMessages
  BY SameFlight
<1>3. AnswersArrive
  BY DEF AnswersArrive, Unanswered, Early
<1>4. /\ \A d \in Present : d \in Present'
      /\ \A d \in Numbered : caller[d].at # "register"
                               => caller'[d].at # "register"
      /\ \A d \in Answered' : /\ d \in Answered
                              /\ caller'[d].answer = caller[d].answer
  BY DEF Present, Numbered, Answered, Early
<1>5. QED
  BY <1>1, <1>2, <1>3, <1>4, AddressedKept, AloneKept, RegisteredKept, AimedKept,
     OnceKept, OwnAnswerKept DEF Numbers

\* A step of a call with a number that leaves its number, its answer and all
\* messages alone.
LEMMA CallNumbers ==
    ASSUME Numbers, NEW c \in Numbered, OnlyCall(c),
           caller'[c].launcher = caller[c].launcher,
           caller'[c].id = caller[c].id,
           caller'[c].answer = caller[c].answer,
           \/ caller[c].at = "register" /\ caller'[c].at = "wait"
           \/ caller[c].at = "close" /\ caller'[c].at = "delete"
           \/ caller[c].at = "delete" /\ caller'[c].at = "done",
           UNCHANGED <<listen, outbox, inbox, own, collided>>
    PROVE  /\ Addressed' /\ Once' /\ Aimed' /\ Alone' /\ OwnAnswer'
           /\ NumbersStay
<1>1. HandsStay
  BY DEF HandsStay
<1>2. c \in Callers
  BY DEF Numbered
<1>3. NumbersStay /\ NoNewUser
  BY <1>2 DEF NumbersStay, NoNewUser, Numbered, Using, OnlyCall
<1>4. OnlyOwnMessages
  BY <1>1, SameFlight
<1>5. AnswersArrive
  BY <1>2 DEF AnswersArrive, Unanswered, OnlyCall
<1>6. /\ \A d \in Numbered : caller[d].at # "register"
                               => caller'[d].at # "register"
      /\ \A d \in Answered' : /\ d \in Answered
                              /\ caller'[d].answer = caller[d].answer
  BY <1>2 DEF Numbered, Answered, OnlyCall
<1>7. QED
  BY <1>1, <1>3, <1>4, <1>5, <1>6, AddressedKept, AloneKept, AimedKept,
     OnceKept, OwnAnswerKept DEF Numbers

\* Register, CloseChan and DeleteRequest keep the numbers.
LEMMA RegisterNumbers ==
    ASSUME Typed, Numbers, NEW c \in Callers,
           Register(c) \/ CloseChan(c) \/ DeleteRequest(c)
    PROVE  Numbers'
<1>1. /\ caller \in [Callers -> CallerRecord]
      /\ c \in Numbered
      /\ caller[c].launcher \in Launchers /\ caller[c].id \in Ids
      /\ requests \in [Launchers -> [Ids -> Callers \cup {NoCaller}]]
  BY DEF Typed, CallerType, CallerRecord, QueueType, Numbered, Register,
         CloseChan, DeleteRequest
<1>2. UNCHANGED <<listen, outbox, inbox, own, collided>>
  BY DEF Register, CloseChan, DeleteRequest
<1> DEFINE l == caller[c].launcher
           id == caller[c].id
<1>3. ASSUME NEW at \in CallPlaces, CallerAt(c, at),
             \/ caller[c].at = "register" /\ at = "wait"
             \/ caller[c].at = "close" /\ at = "delete"
             \/ caller[c].at = "delete" /\ at = "done"
      PROVE  /\ OnlyCall(c)
             /\ caller'[c].at = at
             /\ Addressed' /\ Once' /\ Aimed' /\ Alone' /\ OwnAnswer'
             /\ NumbersStay
  <2>1. /\ OnlyCall(c)
        /\ caller'[c].at = at
        /\ caller'[c].launcher = caller[c].launcher
        /\ caller'[c].id = caller[c].id
        /\ caller'[c].answer = caller[c].answer
    BY <1>1, <1>3, CallerAtEffect
  <2>2. QED
    BY <1>1, <1>2, <1>3, <2>1, CallNumbers
<1>4. Registered
  BY DEF Numbers
<1>5. CASE Register(c)
  <2>1. /\ OnlyCall(c)
        /\ caller'[c].at = "wait"
        /\ Addressed' /\ Once' /\ Aimed' /\ Alone' /\ OwnAnswer'
        /\ NumbersStay
    BY <1>3, <1>5 DEF Register, CallPlaces
  <2>2. requests' = [requests EXCEPT ![l][id] = c]
    BY <1>5 DEF Register
  <2>3. \A k \in Launchers, i \in Ids :
          requests'[k][i] = IF k = l /\ i = id THEN c ELSE requests[k][i]
    BY <1>1, <2>2
  <2>4. c \in Present' /\ \A d \in Present : d \in Present'
    BY <2>1 DEF Present, OnlyCall
  <2>5. /\ caller'[c].launcher = l /\ caller'[c].id = id
        /\ \A d \in Present : /\ caller'[d].launcher = caller[d].launcher
                              /\ caller'[d].id = caller[d].id
    BY <1>1, <2>1, UsingIsNumbered DEF NumbersStay
  <2> HIDE DEF l, id
  <2>6. Registered'
    BY <1>4, <2>3, <2>4, <2>5 DEF Registered, Has
  <2>7. QED
    BY <2>1, <2>6 DEF Numbers
<1>6. CASE CloseChan(c)
  <2>1. /\ OnlyCall(c)
        /\ caller'[c].at = "delete"
        /\ Addressed' /\ Once' /\ Aimed' /\ Alone' /\ OwnAnswer'
        /\ NumbersStay
    BY <1>3, <1>6 DEF CloseChan, CallPlaces
  <2>2. requests' = requests /\ \A d \in Present : d \in Present'
    BY <1>6, <2>1 DEF Present, OnlyCall, CloseChan
  <2>3. Registered'
    BY <1>4, <2>1, <2>2, RegisteredKept
  <2>4. QED
    BY <2>1, <2>3 DEF Numbers
<1>7. CASE DeleteRequest(c)
  <2>1. /\ OnlyCall(c)
        /\ caller'[c].at = "done"
        /\ Addressed' /\ Once' /\ Aimed' /\ Alone' /\ OwnAnswer'
        /\ NumbersStay
    BY <1>3, <1>7 DEF DeleteRequest, CallPlaces
  <2>2. requests' = [requests EXCEPT ![l][id] = NoCaller]
    BY <1>7 DEF DeleteRequest
  <2>3. \A k \in Launchers, i \in Ids :
          requests'[k][i] = IF k = l /\ i = id THEN NoCaller ELSE requests[k][i]
    BY <1>1, <2>2
  <2>4. \A d \in Present : d # c => d \in Present'
    BY <2>1 DEF Present, OnlyCall
  <2>5. \A d \in Present : /\ caller'[d].launcher = caller[d].launcher
                           /\ caller'[d].id = caller[d].id
    BY <1>1, <2>1, UsingIsNumbered DEF NumbersStay
  <2>6. ASSUME NEW k \in Launchers, NEW i \in Ids, requests'[k][i] # NoCaller
        PROVE  /\ requests'[k][i] \in Present'
               /\ caller'[requests'[k][i]].launcher = k
               /\ caller'[requests'[k][i]].id = i
    <3>1. requests'[k][i] = requests[k][i] /\ ~(k = l /\ i = id)
      BY <2>3, <2>6
    <3>2. requests[k][i] \in Present /\ Has(requests[k][i], k, i)
      BY <1>4, <2>6, <3>1 DEF Registered
    <3>3. requests[k][i] # c
      BY <3>1, <3>2 DEF Has
    <3>4. QED
      BY <2>4, <2>5, <3>1, <3>2, <3>3 DEF Has
  <2>7. Registered'
    BY <2>6 DEF Registered, Has
  <2>8. QED
    BY <2>1, <2>7 DEF Numbers
<1>8. QED
  BY <1>5, <1>6, <1>7

\* SendMessage: the number is in use from now on, by this call only unless the
\* step says that numbers collided.
LEMMA SendNumbers ==
    ASSUME Typed, Numbers, NEW c \in Callers, SendMessage(c)
    PROVE  Numbers'
<1>0. PICK l, id : l = caller[c].launcher /\ id = counter[l]
  OBVIOUS
<1>1. /\ l \in Launchers
      /\ id \in Ids
      /\ OnlyCall(c)
      /\ caller[c].at = "send"
      /\ caller'[c].at = "register"
      /\ caller'[c].launcher = l
      /\ caller'[c].id = id
      /\ caller'[c].answer = caller[c].answer
      /\ \A k \in Launchers \ {l} : outbox'[k] = outbox[k]
      /\ \/ outbox'[l] = outbox[l]
         \/ outbox'[l] = outbox[l] \cup {[id |-> id, to |-> c]}
  BY <1>0, SendEffect
<1>2. /\ UNCHANGED <<requests, inbox, listen, own>>
      /\ collided' = (collided \/ Users(l, id) # {})
  BY <1>0 DEF SendMessage
<1>3. c \notin Numbered /\ c \in Numbered' /\ c \in Unanswered' /\ c # NoCaller
  BY <1>1, RegistryAssumption DEF Numbered, Unanswered
<1>4. NumbersStay
  BY <1>1 DEF NumbersStay, Numbered, OnlyCall
<1>5. /\ Registered /\ Addressed /\ Once /\ Aimed /\ Alone /\ OwnAnswer
      /\ ~collided' => ~collided
  BY <1>2 DEF Numbers
<1> DEFINE m0 == [id |-> id, to |-> c]
<1>6. m0.to = c /\ m0.id = id
  OBVIOUS
<1>7. \A k \in Launchers : \A m \in outbox'[k] :
        m \in outbox[k] \/ (k = l /\ m = m0)
  BY <1>1
<1> HIDE DEF m0
<1>8. \A k \in Launchers : \A m \in InFlight(k)' :
        m \in InFlight(k) \/ (k = l /\ m = m0)
  BY <1>2, <1>7 DEF InFlight
<1>9. \A k \in Launchers : \A m \in InFlight(k) : m.to # c
  BY <1>3, <1>5 DEF Addressed
<1>10. Registered'
  <2>1. \A d \in Present : d \in Present'
    BY <1>1 DEF Present, OnlyCall
  <2>2. QED
    BY <1>2, <1>4, <1>5, <2>1, RegisteredKept
<1>11. Addressed'
  <2>1. ASSUME NEW k \in Launchers, NEW m \in InFlight(k)'
        PROVE  /\ m.to # NoCaller => m.to \in Numbered' /\ Has(m.to, k, m.id)'
               /\ own'[k] = 0 => m.to # NoCaller
               /\ own'[k] = 0 => Due(m.to, k, m.id)'
    <3>1. CASE k = l /\ m = m0
      BY <1>1, <1>3, <1>6, <3>1 DEF Has, Due
    <3>2. CASE m \in InFlight(k)
      <4>1. /\ m.to # NoCaller => m.to \in Numbered /\ Has(m.to, k, m.id)
            /\ own[k] = 0 => m.to # NoCaller
            /\ own[k] = 0 => Due(m.to, k, m.id)
        BY <1>5, <3>2 DEF Addressed
      <4>2. m.to # c
        BY <1>9, <3>2
      <4>3. Due(m.to, k, m.id) => Due(m.to, k, m.id)'
        <5>1. m.to \in Unanswered => m.to \in Unanswered'
          BY <1>1, <4>2 DEF Unanswered, OnlyCall
        <5>2. collided => collided'
          BY <1>2
        <5>3. QED
          BY <1>4, <5>1, <5>2 DEF Due, NumbersStay, Has
      <4>4. m.to \in Numbered => /\ m.to \in Numbered'
                                 /\ Has(m.to, k, m.id) => Has(m.to, k, m.id)'
        BY <1>4 DEF NumbersStay, Has
      <4>5. QED
        BY <1>2, <1>5, <4>1, <4>3, <4>4
    <3>3. QED
      BY <1>8, <3>1, <3>2
  <2>2. QED
    BY <2>1 DEF Addressed
<1>12. Once'
  <2>1. \A k \in Launchers : \A i \in 1..Len(inbox[k]) :
          inbox[k][i].to # c
    BY <1>9 DEF InFlight
  <2>2. \A k \in Launchers :
          listen[k].at = "deliver" => listen[k].msg.to # c
    BY <1>9 DEF InFlight
  <2>3. QED
    BY <1>2, <1>5, <1>6, <1>7, <2>1, <2>2 DEF Once, OnceAt
<1>13. Aimed'
  <2>1. ASSUME NEW k \in Launchers, listen[k].at = "deliver",
               listen[k].target # NoCaller
        PROVE  /\ listen[k].target \in Numbered'
               /\ caller'[listen[k].target].at # "register"
               /\ Has(listen[k].target, k, listen[k].msg.id)'
               /\ ~collided' => listen[k].msg.to \in {listen[k].target, NoCaller}
    <3>1. /\ listen[k].target \in Numbered
          /\ caller[listen[k].target].at # "register"
          /\ Has(listen[k].target, k, listen[k].msg.id)
          /\ ~collided => listen[k].msg.to \in {listen[k].target, NoCaller}
      BY <1>5, <2>1 DEF Aimed
    <3>2. listen[k].target \in Callers \ {c}
      BY <1>3, <3>1 DEF Numbered
    <3>3. QED
      BY <1>1, <1>2, <1>4, <1>5, <3>1, <3>2 DEF OnlyCall, NumbersStay, Has
  <2>2. QED
    BY <1>2, <2>1 DEF Aimed, Has
<1>14. Alone'
  <2>1. ASSUME NEW k \in Launchers, NEW i \in Ids, NEW d \in Users(k, i)', d # c
        PROVE  d \in Users(k, i)
    <3>1. d \in Callers /\ caller'[d] = caller[d]
      BY <1>1, <2>1 DEF Users, OnlyCall
    <3>2. \A m \in InFlight(k)' : m.to = d => m \in InFlight(k)
      BY <1>6, <1>8, <2>1
    <3>3. QED
      BY <2>1, <3>1, <3>2 DEF Users
  <2>2. ASSUME NEW k \in Launchers, NEW i \in Ids, c \in Users(k, i)'
        PROVE  k = l /\ i = id
    BY <1>1, <2>2 DEF Users
  <2>3. ~collided' => Users(l, id) = {}
    BY <1>2
  <2>4. ASSUME ~collided', NEW k \in Launchers, NEW i \in Ids,
               NEW d \in Users(k, i)', NEW e \in Users(k, i)'
        PROVE  d = e
    <3>1. CASE c \in Users(k, i)'
      BY <2>1, <2>2, <2>3, <2>4, <3>1
    <3>2. CASE c \notin Users(k, i)'
      <4>1. d \in Users(k, i) /\ e \in Users(k, i)
        BY <2>1, <3>2
      <4>2. QED
        BY <1>5, <2>4, <4>1 DEF Alone
    <3>3. QED
      BY <3>1, <3>2
  <2>5. QED
    BY <2>4 DEF Alone
<1>15. OwnAnswer'
  BY <1>1, <1>5 DEF OwnAnswer, Answered, OnlyCall
<1>16. QED
  BY <1>10, <1>11, <1>12, <1>13, <1>14, <1>15 DEF Numbers

\* Answer: the message becomes an answer.
LEMMA AnswerNumbers ==
    ASSUME Typed, Numbers, NEW l \in Launchers, Answer(l)
    PROVE  Numbers'
<1>1. PICK m0 \in outbox[l] :
        /\ outbox' = [outbox EXCEPT ![l] = @ \ {m0}]
        /\ inbox' = [inbox EXCEPT ![l] = Append(@, m0)]
  BY DEF Answer
<1>2. UNCHANGED <<requests, own, listen, caller, collided>>
  BY DEF Answer
<1>3. /\ outbox \in [Launchers -> SUBSET Message]
      /\ inbox \in [Launchers -> Seq(Message)]
      /\ m0 \in Message /\ inbox[l] \in Seq(Message)
  BY DEF Typed, QueueType
<1>4. /\ \A k \in Launchers \ {l} : inbox'[k] = inbox[k] /\ outbox'[k] = outbox[k]
      /\ outbox'[l] = outbox[l] \ {m0}
      /\ inbox'[l] = Append(inbox[l], m0)
  BY <1>1, <1>3
<1>5. /\ Len(inbox'[l]) = Len(inbox[l]) + 1 /\ Len(inbox[l]) \in Nat
      /\ \A i \in 1..Len(inbox[l]) : inbox'[l][i] = inbox[l][i]
      /\ inbox'[l][Len(inbox[l]) + 1] = m0
  BY <1>3, <1>4
<1>6. \A i \in 1..Len(inbox'[l]) :
        \/ i \in 1..Len(inbox[l]) /\ inbox'[l][i] = inbox[l][i]
        \/ i = Len(inbox[l]) + 1 /\ inbox'[l][i] = m0
  BY <1>5
<1>7. Addressed /\ Alone /\ Registered /\ Once /\ Aimed /\ OwnAnswer
  BY DEF Numbers
<1>8. \A k \in Launchers : \A m \in InFlight(k)' : m \in InFlight(k)
  <2>1. \A m \in InFlight(l)' : m \in InFlight(l)
    BY <1>1, <1>2, <1>4, <1>6 DEF InFlight
  <2>2. \A k \in Launchers \ {l} : \A m \in InFlight(k)' : m \in InFlight(k)
    BY <1>2, <1>4 DEF InFlight
  <2>3. QED
    BY <2>1, <2>2
<1>9. NumbersStay /\ NoNewUser /\ HandsStay /\ AnswersArrive /\ OnlyOwnMessages
  BY <1>2, <1>8
  DEF NumbersStay, NoNewUser, HandsStay, AnswersArrive, OnlyOwnMessages,
      Numbered, Using, Unanswered
<1>10. Addressed' /\ Alone'
  BY <1>2, <1>7, <1>9, AddressedKept, AloneKept
<1>11. Registered' /\ Aimed' /\ OwnAnswer'
  <2>1. /\ \A d \in Present : d \in Present'
        /\ \A d \in Numbered : caller[d].at # "register"
                                 => caller'[d].at # "register"
        /\ \A d \in Answered' : /\ d \in Answered
                                /\ caller'[d].answer = caller[d].answer
    BY <1>2 DEF Present, Numbered, Answered
  <2>2. QED
    BY <1>2, <1>7, <1>9, <2>1, RegisteredKept, AimedKept, OwnAnswerKept
<1>12. \A m \in outbox[l] : m.to = m0.to /\ m0.to # NoCaller => m = m0
  <2>1. ASSUME NEW m \in outbox[l], m.to = m0.to, m0.to # NoCaller
        PROVE  m = m0
    <3>1. m \in InFlight(l) /\ m0 \in InFlight(l)
      BY <1>1 DEF InFlight
    <3>2. m.id = m0.id
      BY <1>7, <2>1, <3>1 DEF Addressed, Has
    <3>3. m \in Message
      BY <1>3
    <3>4. QED
      BY <1>3, <2>1, <3>2, <3>3 DEF Message
  <2>2. QED
    BY <2>1
<1>13. Once'
  <2>1. ASSUME NEW i \in 1..Len(inbox'[l]), inbox'[l][i].to # NoCaller
        PROVE  /\ \A j \in 1..Len(inbox'[l]) :
                    inbox'[l][j].to = inbox'[l][i].to => j = i
               /\ \A m \in outbox'[l] : m.to # inbox'[l][i].to
    <3>1. CASE i \in 1..Len(inbox[l]) /\ inbox'[l][i] = inbox[l][i]
      BY <1>1, <1>4, <1>6, <1>7, <2>1, <3>1 DEF Once, OnceAt
    <3>2. CASE i = Len(inbox[l]) + 1 /\ inbox'[l][i] = m0
      <4>1. \A j \in 1..Len(inbox[l]) : inbox[l][j].to # m0.to
        BY <1>1, <1>7, <2>1, <3>2 DEF Once, OnceAt
      <4>2. \A m \in outbox'[l] : m.to # m0.to
        BY <1>4, <1>12, <2>1, <3>2
      <4>3. QED
        BY <1>6, <3>2, <4>1, <4>2
    <3>3. QED
      BY <1>6, <3>1, <3>2
  <2>2. ASSUME listen[l].at = "deliver", listen[l].msg.to # NoCaller
        PROVE  /\ \A i \in 1..Len(inbox'[l]) : inbox'[l][i].to # listen[l].msg.to
               /\ \A m \in outbox'[l] : m.to # listen[l].msg.to
    BY <1>1, <1>4, <1>6, <1>7, <2>2 DEF Once, OnceAt
  <2>3. OnceAt(l)'
    BY <1>2, <2>1, <2>2 DEF OnceAt
  <2>4. ASSUME NEW k \in Launchers \ {l} PROVE OnceAt(k)'
    BY <1>2, <1>4, <1>7 DEF Once, OnceAt
  <2>5. QED
    BY <2>3, <2>4 DEF Once
<1>14. QED
  BY <1>10, <1>11, <1>13 DEF Numbers

\* The messages a launcher sends on its own are about no call, and those that
\* are lost are gone.
LEMMA InboxNumbers ==
    ASSUME Typed, Numbers, NEW l \in Launchers,
           OwnRequest(l) \/ Disconnect(l)
    PROVE  Numbers'
<1>1. UNCHANGED <<requests, outbox, listen, caller, collided>>
  BY DEF OwnRequest, Disconnect
<1>2. /\ inbox \in [Launchers -> Seq(Message)] /\ inbox[l] \in Seq(Message)
      /\ own \in [Launchers -> 0..MaxOwn] /\ MaxOwn \in Nat
  BY RegistryAssumption DEF Typed, QueueType, PlainType
<1>3. /\ \A k \in Launchers \ {l} : inbox'[k] = inbox[k] /\ own'[k] = own[k]
      /\ own'[l] = 0 => own[l] = 0
      /\ \A i \in 1..Len(inbox'[l]) :
           \/ i \in 1..Len(inbox[l]) /\ inbox'[l][i] = inbox[l][i]
           \/ inbox'[l][i].to = NoCaller /\ own'[l] # 0
  <2>1. CASE OwnRequest(l)
    <3>1. PICK id \in Ids :
            inbox' = [inbox EXCEPT ![l] = Append(@, [id |-> id, to |-> NoCaller])]
      BY <2>1 DEF OwnRequest
    <3> DEFINE m0 == [id |-> id, to |-> NoCaller]
    <3>2. m0 \in Message /\ m0.to = NoCaller
      BY DEF Message
    <3>3. inbox' = [inbox EXCEPT ![l] = Append(@, m0)]
      BY <3>1
    <3> HIDE DEF m0
    <3>4. /\ \A k \in Launchers \ {l} : inbox'[k] = inbox[k]
          /\ inbox'[l] = Append(inbox[l], m0)
      BY <1>2, <3>3
    <3>5. \A i \in 1..Len(inbox'[l]) :
            \/ i \in 1..Len(inbox[l]) /\ inbox'[l][i] = inbox[l][i]
            \/ inbox'[l][i] = m0
      BY <1>2, <3>2, <3>4
    <3>6. /\ \A k \in Launchers \ {l} : own'[k] = own[k]
          /\ own'[l] # 0
      BY <1>2, <2>1 DEF OwnRequest
    <3>7. QED
      BY <3>2, <3>4, <3>5, <3>6
  <2>2. CASE Disconnect(l)
    <3>1. PICK n \in 0..Len(inbox[l]) :
            inbox' = [inbox EXCEPT ![l] = SubSeq(@, 1, n)]
      BY <2>2 DEF Disconnect
    <3>2. /\ \A k \in Launchers \ {l} : inbox'[k] = inbox[k]
          /\ inbox'[l] = SubSeq(inbox[l], 1, n)
      BY <1>2, <3>1
    <3>3. \A i \in 1..Len(inbox'[l]) :
            i \in 1..Len(inbox[l]) /\ inbox'[l][i] = inbox[l][i]
      BY <1>2, <3>2
    <3>4. own' = own
      BY <2>2 DEF Disconnect
    <3>5. QED
      BY <3>2, <3>3, <3>4
  <2>3. QED
    BY <2>1, <2>2
<1>4. Addressed /\ Alone /\ Registered /\ Once /\ Aimed /\ OwnAnswer
  BY DEF Numbers
<1>5. OnlyOwnMessages
  <2>1. \A m \in InFlight(l)' :
          m \in InFlight(l) \/ (m.to = NoCaller /\ own'[l] # 0)
    BY <1>1, <1>3 DEF InFlight
  <2>2. \A k \in Launchers \ {l} : \A m \in InFlight(k)' : m \in InFlight(k)
    BY <1>1, <1>3 DEF InFlight
  <2>3. QED
    BY <1>3, <2>1, <2>2 DEF OnlyOwnMessages
<1>6. NumbersStay /\ NoNewUser /\ HandsStay /\ AnswersArrive
  BY <1>1
  DEF NumbersStay, NoNewUser, HandsStay, AnswersArrive, Numbered, Using,
      Unanswered
<1>7. Addressed' /\ Alone'
  BY <1>1, <1>4, <1>5, <1>6, AddressedKept, AloneKept
<1>8. Registered' /\ Aimed' /\ OwnAnswer'
  <2>1. /\ \A d \in Present : d \in Present'
        /\ \A d \in Numbered : caller[d].at # "register"
                                 => caller'[d].at # "register"
        /\ \A d \in Answered' : /\ d \in Answered
                                /\ caller'[d].answer = caller[d].answer
    BY <1>1 DEF Present, Numbered, Answered
  <2>2. QED
    BY <1>1, <1>4, <1>6, <2>1, RegisteredKept, AimedKept, OwnAnswerKept
<1>9. Once'
  <2>1. ASSUME NEW i \in 1..Len(inbox'[l]), inbox'[l][i].to # NoCaller
        PROVE  /\ \A j \in 1..Len(inbox'[l]) :
                    inbox'[l][j].to = inbox'[l][i].to => j = i
               /\ \A m \in outbox[l] : m.to # inbox'[l][i].to
    <3>1. OnceAt(l) /\ i \in 1..Len(inbox[l]) /\ inbox'[l][i] = inbox[l][i]
      BY <1>3, <1>4, <2>1 DEF Once
    <3>2. ASSUME NEW j \in 1..Len(inbox'[l]), inbox'[l][j].to = inbox'[l][i].to
          PROVE  j = i
      <4>1. j \in 1..Len(inbox[l]) /\ inbox'[l][j] = inbox[l][j]
        BY <1>3, <2>1, <3>2
      <4>2. QED
        BY <2>1, <3>1, <3>2, <4>1 DEF OnceAt
    <3>3. \A m \in outbox[l] : m.to # inbox'[l][i].to
      BY <2>1, <3>1 DEF OnceAt
    <3>4. QED
      BY <3>2, <3>3
  <2>2. ASSUME listen[l].at = "deliver", listen[l].msg.to # NoCaller
        PROVE  /\ \A i \in 1..Len(inbox'[l]) : inbox'[l][i].to # listen[l].msg.to
               /\ \A m \in outbox[l] : m.to # listen[l].msg.to
    BY <1>3, <1>4, <2>2 DEF Once, OnceAt
  <2>3. OnceAt(l)'
    BY <1>1, <2>1, <2>2 DEF OnceAt
  <2>4. ASSUME NEW k \in Launchers \ {l} PROVE OnceAt(k)'
    BY <1>1, <1>3, <1>4 DEF Once, OnceAt
  <2>5. QED
    BY <2>3, <2>4 DEF Once
<1>10. QED
  BY <1>7, <1>8, <1>9 DEF Numbers

\* ReadMessage: the channel that is looked up belongs to the only call that
\* uses the number, so to the call that the message is about.
LEMMA ReadNumbers ==
    ASSUME Typed, Numbers, NEW l \in Launchers, ReadMessage(l)
    PROVE  Numbers'
<1> DEFINE m0 == Head(inbox[l])
<1>1. /\ listen[l].at = "read"
      /\ inbox[l] \in Seq(Message) /\ inbox[l] # <<>>
      /\ OnlyListen(l)
      /\ listen'[l].at = "deliver"
      /\ listen'[l].msg = m0
      /\ listen'[l].target = requests[l][m0.id]
      /\ inbox'[l] = Tail(inbox[l])
      /\ \A k \in Launchers \ {l} : inbox'[k] = inbox[k]
  BY ReadEffect
<1>2. UNCHANGED <<requests, outbox, own, caller, collided>>
  BY DEF ReadMessage
<1>3. /\ m0 \in Message /\ m0 = inbox[l][1] /\ 1 \in 1..Len(inbox[l])
      /\ \A i \in 1..Len(inbox'[l]) : /\ i + 1 \in 1..Len(inbox[l])
                                      /\ i + 1 # 1
                                      /\ inbox'[l][i] = inbox[l][i + 1]
  BY <1>1
<1>4. Addressed /\ Alone /\ Registered /\ Once /\ Aimed /\ OwnAnswer
  BY DEF Numbers
<1> HIDE DEF m0
<1>5. m0 \in InFlight(l)
  BY <1>3 DEF InFlight
<1>6. OnlyOwnMessages
  <2>1. \A m \in InFlight(l)' : m \in InFlight(l)
    BY <1>1, <1>2, <1>3 DEF InFlight
  <2>2. \A k \in Launchers \ {l} : \A m \in InFlight(k)' : m \in InFlight(k)
    BY <1>1, <1>2 DEF InFlight, OnlyListen
  <2>3. QED
    BY <1>2, <2>1, <2>2 DEF OnlyOwnMessages
<1>7. NumbersStay /\ NoNewUser /\ AnswersArrive
  BY <1>2 DEF NumbersStay, NoNewUser, AnswersArrive, Numbered, Using, Unanswered
<1>8. Addressed' /\ Alone'
  BY <1>2, <1>4, <1>6, <1>7, AddressedKept, AloneKept
<1>9. Registered' /\ OwnAnswer'
  <2>1. /\ \A d \in Present : d \in Present'
        /\ \A d \in Answered' : /\ d \in Answered
                                /\ caller'[d].answer = caller[d].answer
    BY <1>2 DEF Present, Answered
  <2>2. QED
    BY <1>2, <1>4, <1>7, <2>1, RegisteredKept, OwnAnswerKept
<1>10. Once'
  <2>1. ASSUME NEW i \in 1..Len(inbox'[l]), inbox'[l][i].to # NoCaller
        PROVE  /\ \A j \in 1..Len(inbox'[l]) :
                    inbox'[l][j].to = inbox'[l][i].to => j = i
               /\ \A m \in outbox[l] : m.to # inbox'[l][i].to
    <3>0. OnceAt(l) /\ inbox[l][i + 1].to # NoCaller /\ i + 1 \in 1..Len(inbox[l])
      BY <1>3, <1>4, <2>1 DEF Once
    <3>1. ASSUME NEW j \in 1..Len(inbox'[l]), inbox'[l][j].to = inbox'[l][i].to
          PROVE  j = i
      <4>1. /\ j + 1 \in 1..Len(inbox[l])
            /\ inbox[l][j + 1].to = inbox[l][i + 1].to
        BY <1>3, <3>1
      <4>2. j + 1 = i + 1
        BY <3>0, <4>1 DEF OnceAt
      <4>3. QED
        BY <4>2
    <3>2. \A m \in outbox[l] : m.to # inbox[l][i + 1].to
      BY <3>0 DEF OnceAt
    <3>3. QED
      BY <1>3, <3>1, <3>2
  <2>2. ASSUME m0.to # NoCaller
        PROVE  /\ \A i \in 1..Len(inbox'[l]) : inbox'[l][i].to # m0.to
               /\ \A m \in outbox[l] : m.to # m0.to
    BY <1>3, <1>4, <2>2 DEF Once, OnceAt
  <2>3. OnceAt(l)'
    BY <1>1, <1>2, <2>1, <2>2 DEF OnceAt
  <2>4. ASSUME NEW k \in Launchers \ {l} PROVE OnceAt(k)'
    BY <1>1, <1>2, <1>4 DEF Once, OnceAt, OnlyListen
  <2>5. QED
    BY <2>3, <2>4 DEF Once
<1>11. Aimed'
  <2> DEFINE t == requests[l][m0.id]
  <2>1. ASSUME t # NoCaller
        PROVE  /\ t \in Numbered
               /\ caller[t].at # "register"
               /\ Has(t, l, m0.id)
               /\ ~collided => m0.to \in {t, NoCaller}
    <3>1. m0.id \in Ids
      BY <1>3 DEF Message
    <3>2. t \in Present /\ Has(t, l, m0.id)
      BY <1>4, <2>1, <3>1 DEF Registered
    <3>3. t \in Users(l, m0.id)
      BY <3>2 DEF Users, Present, Has
    <3>4. m0.to # NoCaller => m0.to \in Users(l, m0.id)
      BY <1>4, <1>5 DEF Addressed, Users, Has, Numbered
    <3>5. ~collided => m0.to \in {t, NoCaller}
      BY <1>4, <3>1, <3>3, <3>4 DEF Alone
    <3>6. QED
      BY <3>2, <3>5 DEF Present, Numbered
  <2> HIDE DEF t
  <2>2. /\ listen'[l].target = t
        /\ \A k \in Launchers \ {l} : listen'[k] = listen[k]
    BY <1>1 DEF t, OnlyListen
  <2>3. QED
    BY <1>1, <1>2, <1>4, <2>1, <2>2 DEF Aimed, Has, Numbered
<1>12. QED
  BY <1>8, <1>9, <1>10, <1>11 DEF Numbers

\* Deliver: the answer, which is the last message of the call, arrives.
LEMMA DeliverNumbers ==
    ASSUME Typed, Numbers, NEW l \in Launchers, Deliver(l)
    PROVE  Numbers'
<1>1. PICK c \in Callers : /\ c = listen[l].target
                           /\ listen[l].at = "deliver"
                           /\ Delivered(l, c) \/ Panicked(c)
  BY DeliverEffect
<1>2. UNCHANGED <<requests, outbox, inbox, own, collided>>
  BY DEF Deliver
<1>3. Addressed /\ Alone /\ Registered /\ Once /\ Aimed /\ OwnAnswer
  BY DEF Numbers
<1>4. CASE Panicked(c)
  <2>1. HandsStay /\ \A d \in Callers : caller'[d] = caller[d]
    BY <1>4 DEF HandsStay, Panicked
  <2>2. QED
    BY <1>2, <2>1, QuietNumbers
<1>5. CASE Delivered(l, c)
  <2>1. /\ caller[c].at = "wait"
        /\ OnlyCall(c)
        /\ caller'[c].at = "close"
        /\ caller'[c].launcher = caller[c].launcher
        /\ caller'[c].id = caller[c].id
        /\ caller'[c].answer = listen[l].msg
        /\ OnlyListen(l)
        /\ listen'[l].at = "read"
    BY <1>5 DEF Delivered
  <2>2. HandsStay
    BY <2>1 DEF HandsStay, OnlyListen
  <2>3. OnlyOwnMessages
    BY <1>2, <2>2, SameFlight
  <2>4. NumbersStay /\ NoNewUser
    BY <2>1 DEF NumbersStay, NoNewUser, Numbered, Using, OnlyCall
  <2>5. /\ c # NoCaller
        /\ Has(c, l, listen[l].msg.id)
        /\ ~collided => listen[l].msg.to \in {c, NoCaller}
    BY <1>1, <1>3, RegistryAssumption DEF Aimed
  <2>6. Alone'
    BY <1>2, <1>3, <2>3, <2>4, AloneKept
  <2>7. Registered' /\ Aimed' /\ Once'
    <3>1. /\ \A d \in Present : d \in Present'
          /\ \A d \in Numbered : caller[d].at # "register"
                                   => caller'[d].at # "register"
      BY <2>1 DEF Present, Numbered, OnlyCall
    <3>2. QED
      BY <1>2, <1>3, <2>2, <2>4, <3>1, RegisteredKept, AimedKept, OnceKept
  <2>8. OwnAnswer'
    BY <1>2, <1>3, <2>1, <2>5 DEF OwnAnswer, Answered, OnlyCall
  <2>9. ASSUME NEW k \in Launchers, NEW m \in InFlight(k)', m.to = c,
               own[k] = 0
        PROVE  Due(c, k, m.id)'
    <3>0. PICK h : h = listen[l].msg
      OBVIOUS
    <3>1. m \in InFlight(k)
      BY <1>2, <2>3, <2>9 DEF OnlyOwnMessages
    <3>2. k = l /\ m.id = h.id
      BY <1>3, <2>5, <2>9, <3>0, <3>1 DEF Addressed, Has
    <3>3. h \in InFlight(l)
      BY <1>1, <3>0 DEF InFlight
    <3>4. h.to # NoCaller /\ h.to \in Numbered /\ Has(h.to, l, h.id)
      BY <1>3, <2>9, <3>2, <3>3 DEF Addressed
    <3>5. \/ m \in outbox[l]
          \/ \E i \in 1..Len(inbox[l]) : m = inbox[l][i]
      BY <1>2, <2>1, <2>9, <3>2 DEF InFlight
    <3>6. h.to # c
      BY <1>1, <1>3, <2>9, <3>0, <3>4, <3>5 DEF Once, OnceAt
    <3>7. collided'
      BY <1>2, <2>5, <3>0, <3>4, <3>6
    <3>8. h.to \in Numbered' /\ Has(h.to, l, m.id)'
      BY <2>4, <3>2, <3>4 DEF NumbersStay, Has
    <3>9. QED
      BY <3>2, <3>6, <3>7, <3>8 DEF Due
  <2>10. ASSUME NEW k \in Launchers, NEW m \in InFlight(k)'
         PROVE  /\ m.to # NoCaller => m.to \in Numbered' /\ Has(m.to, k, m.id)'
                /\ own'[k] = 0 => m.to # NoCaller
                /\ own'[k] = 0 => Due(m.to, k, m.id)'
    <3>1. m \in InFlight(k)
      BY <1>2, <2>2, <2>10 DEF InFlight, HandsStay
    <3>2. /\ m.to # NoCaller => m.to \in Numbered /\ Has(m.to, k, m.id)
          /\ own[k] = 0 => m.to # NoCaller
          /\ own[k] = 0 => Due(m.to, k, m.id)
      BY <1>3, <3>1 DEF Addressed
    <3>3. m.to \in Numbered => m.to \in Numbered'
                                 /\ (Has(m.to, k, m.id) => Has(m.to, k, m.id)')
      BY <2>4 DEF NumbersStay, Has
    <3>4. m.to # c /\ Due(m.to, k, m.id) => Due(m.to, k, m.id)'
      <4>1. m.to # c /\ m.to \in Unanswered => m.to \in Unanswered'
        BY <2>1 DEF Unanswered, OnlyCall
      <4>2. QED
        BY <1>2, <2>4, <4>1 DEF Due, NumbersStay, Has
    <3>5. QED
      BY <1>2, <2>9, <2>10, <3>2, <3>3, <3>4
  <2>11. Addressed'
    BY <2>10 DEF Addressed
  <2>12. QED
    BY <2>6, <2>7, <2>8, <2>11 DEF Numbers
<1>6. QED
  BY <1>1, <1>4, <1>5

\* Every step keeps the numbers.
LEMMA NextNumbers ==
    ASSUME Typed, Numbers, Next
    PROVE  Numbers'
<1>1. ASSUME NEW c \in Callers, Call(c) PROVE Numbers'
  <2>1. CASE Register(c) \/ CloseChan(c) \/ DeleteRequest(c)
    BY <2>1, RegisterNumbers
  <2>2. CASE SendMessage(c)
    BY <2>2, SendNumbers
  <2>3. CASE CheckLaunchers(c) \/ PickLauncher(c) \/ ReadCounter(c) \/ WriteCounter(c)
    <3>1. UNCHANGED <<requests, outbox, inbox, own, collided, listen>>
      BY <2>3 DEF CheckLaunchers, PickLauncher, ReadCounter, WriteCounter
    <3>2. HandsStay
      BY <3>1 DEF HandsStay
    <3>3. caller \in [Callers -> CallerRecord]
      BY DEF Typed, CallerType
    <3>4. OnlyCall(c) /\ caller[c].at \in Early /\ caller'[c].at \in Early
      <4>1. CASE CheckLaunchers(c)
        <5>1. CallerAt(c, "failed") \/ CallerAt(c, "pick")
          BY <4>1 DEF CheckLaunchers
        <5>2. OnlyCall(c) /\ caller'[c].at \in {"failed", "pick"}
          BY <3>3, <5>1, CallerAtEffect DEF CallPlaces
        <5>3. QED
          BY <4>1, <5>2 DEF CheckLaunchers, Early
      <4>2. CASE PickLauncher(c)
        BY <4>2, PickEffect DEF PickLauncher, Early
      <4>3. CASE ReadCounter(c)
        BY <4>3, ReadCounterEffect DEF ReadCounter, Early
      <4>4. CASE WriteCounter(c)
        <5>1. CallerAt(c, "send") /\ caller[c].at = "add"
          BY <4>4 DEF WriteCounter
        <5>2. OnlyCall(c) /\ caller'[c].at = "send"
          BY <3>3, <5>1, CallerAtEffect DEF CallPlaces
        <5>3. QED
          BY <5>1, <5>2 DEF Early
      <4>5. QED
        BY <2>3, <4>1, <4>2, <4>3, <4>4
    <3>5. QED
      BY <3>1, <3>2, <3>4, QuietNumbers DEF OnlyCall
  <2>4. QED
    BY <1>1, <2>1, <2>2, <2>3 DEF Call
<1>2. ASSUME NEW l \in Launchers, Attach(l) PROVE Numbers'
  <2>1. UNCHANGED <<requests, outbox, inbox, own, collided, caller, listen>>
    BY <1>2 DEF Attach
  <2>2. HandsStay
    BY <2>1 DEF HandsStay
  <2>3. QED
    BY <2>1, <2>2, QuietNumbers
<1>3. ASSUME NEW l \in Launchers, AppendLauncher(l) PROVE Numbers'
  <2>1. UNCHANGED <<requests, outbox, inbox, own, collided, caller>>
    BY <1>3 DEF AppendLauncher
  <2>2. HandsStay
    BY <1>3, StartEffect DEF HandsStay, OnlyListen
  <2>3. QED
    BY <2>1, <2>2, QuietNumbers
<1>4. ASSUME NEW l \in Launchers, NEW m, NEW s \in Header, NEW i \in Nat,
             SearchAfter(l, m, s, i)
      PROVE  HandsStay
  <2>1. OnlyListen(l) /\ listen'[l].at \in {"ended", "remove"}
    BY <1>4, SearchEffect DEF Typed, ListenType
  <2>2. QED
    BY <2>1 DEF HandsStay, OnlyListen
<1>5. ASSUME NEW l \in Launchers, FindLauncher(l) PROVE Numbers'
  <2>1. /\ UNCHANGED <<requests, outbox, inbox, own, collided, caller>>
        /\ SearchAfter(l, mem, launchers, 0)
    BY <1>5 DEF FindLauncher
  <2>2. launchers \in Header
    BY SliceIsHeader DEF Typed, MemType, Filled
  <2>3. HandsStay
    BY <1>4, <2>1, <2>2
  <2>4. QED
    BY <2>1, <2>3, QuietNumbers
<1>6. ASSUME NEW l \in Launchers, MoveLaunchers(l) PROVE Numbers'
  <2>1. UNCHANGED <<requests, outbox, inbox, own, collided, caller>>
    BY <1>6 DEF MoveLaunchers
  <2>2. HandsStay
    BY <1>6, MoveEffect, MovePanics DEF HandsStay, OnlyListen
  <2>3. QED
    BY <2>1, <2>2, QuietNumbers
<1>7. ASSUME NEW l \in Launchers, StoreLaunchers(l) PROVE Numbers'
  <2>1. UNCHANGED <<requests, outbox, inbox, own, collided, caller>>
    BY <1>7 DEF StoreLaunchers
  <2>2. HandsStay
    BY <1>4, <1>7, StoreEffect
  <2>3. QED
    BY <2>1, <2>2, QuietNumbers
<1>8. QED
  BY <1>1, <1>2, <1>3, <1>5, <1>6, <1>7, AnswerNumbers, InboxNumbers, ReadNumbers,
     DeliverNumbers DEF Next, Listen

-----------------------------------------------------------------------------
(* Panics.                                                                 *)

\* The message in Listen's hand is due, when the launcher only answers.
LEMMA HandIsDue ==
    ASSUME Addressed, NEW l \in Launchers, listen[l].at = "deliver",
           own[l] = 0
    PROVE  /\ listen[l].msg.to \in Numbered /\ listen[l].msg.to # NoCaller
           /\ Has(listen[l].msg.to, l, listen[l].msg.id)
           /\ Due(listen[l].msg.to, l, listen[l].msg.id)
<1>1. listen[l].msg \in InFlight(l)
  BY DEF InFlight
<1>2. QED
  BY <1>1 DEF Addressed

\* A step that makes the process panic follows a race, a collision of numbers
\* or a request of a launcher.
LEMMA NextCrash ==
    ASSUME Typed, Numbers, Next
    PROVE  CrashNeedsRace'
<1>1. SUFFICES ASSUME crashed', ~torn', ~collided',
                      \A l \in Launchers : ~(own'[l] > 0)
               PROVE  FALSE
  BY DEF CrashNeedsRace
<1>2. PICK l \in Launchers : Deliver(l) \/ MoveLaunchers(l)
  BY <1>1 DEF Next, Attach, AppendLauncher, Answer, OwnRequest, Disconnect,
              Listen, ReadMessage, FindLauncher, StoreLaunchers, Call,
              CheckLaunchers, PickLauncher, ReadCounter, WriteCounter, SendMessage, Register,
              CloseChan, DeleteRequest
<1>3. ~crashed
  BY DEF Next
<1>4. CASE Deliver(l)
  <2>1. PICK c \in Callers : /\ c = listen[l].target
                             /\ listen[l].at = "deliver"
                             /\ Delivered(l, c) \/ Panicked(c)
    BY <1>4, DeliverEffect
  <2>2. caller[c].at \in {"delete", "done"}
    BY <1>1, <1>3, <2>1 DEF Delivered, Panicked
  <2>3. own[l] = 0 /\ ~collided
    BY <1>1, <1>4, RegistryAssumption DEF Deliver, Typed, PlainType
  <2>4. listen[l].msg.to \in Unanswered /\ listen[l].msg.to # NoCaller
    BY <2>1, <2>3, HandIsDue DEF Numbers, Due
  <2>5. listen[l].msg.to = c
    BY <2>1, <2>3, <2>4, RegistryAssumption DEF Numbers, Aimed
  <2>6. QED
    BY <2>2, <2>4, <2>5 DEF Unanswered
<1>5. CASE MoveLaunchers(l)
  <2>1. ~(listen[l].found <= launchers.len)
    BY <1>1, <1>3, <1>5, MoveEffect
  <2>2. launchers = listen[l].base /\ listen[l].at = "remove"
    BY <1>1, <1>5 DEF MoveLaunchers
  <2>3. listen[l].found \in 1..launchers.len
    BY <2>2 DEF Typed, ListenType
  <2>4. launchers.len \in Nat
    BY DEF Typed, MemType, Filled, IsSlice
  <2>5. QED
    BY <2>1, <2>3, <2>4
<1>6. QED
  BY <1>2, <1>4, <1>5

-----------------------------------------------------------------------------
(* The invariant, and what follows from it.                                *)

IInv == Typed /\ Listed /\ Numbers /\ CrashNeedsRace

\* The invariant holds initially,
LEMMA InitIInv == Init => IInv
<1>1. Init => CrashNeedsRace
  BY DEF Init, CrashNeedsRace
<1>2. QED
  BY <1>1, InitTyped, InitListed, InitNumbers DEF IInv

\* Every step keeps the types.
LEMMA NextTyped ==
    ASSUME Typed, Next
    PROVE  Typed'
BY CallTyped, RemoteTyped, AttachTyped, AppendTyped, ListenTyped DEF Next

\* ... without a step,
LEMMA StutterIInv == IInv /\ UNCHANGED vars => IInv'
<1> SUFFICES ASSUME IInv, UNCHANGED vars PROVE IInv'
  OBVIOUS
<1>1. UNCHANGED <<mem, launchers, attach, open, counter, requests, outbox,
                  inbox, own, listen, caller, crashed, torn, collided>>
  BY DEF vars
<1>2. Typed'
  BY <1>1 DEF IInv, Typed, MemType, AttachType, ListenType, CallerType,
              QueueType, PlainType
<1>3. Listed'
  BY <1>1, ListedKept DEF IInv
<1>4. Numbers'
  BY <1>1, QuietNumbers DEF IInv, HandsStay
<1>5. CrashNeedsRace'
  BY <1>1 DEF IInv, CrashNeedsRace
<1>6. QED
  BY <1>2, <1>3, <1>4, <1>5 DEF IInv

\* ... and after every step.
LEMMA NextIInv == IInv /\ [Next]_vars => IInv'
<1>1. ASSUME IInv, Next PROVE IInv'
  <2>1. Typed' /\ Listed' /\ Numbers' /\ CrashNeedsRace'
    BY <1>1, NextTyped, NextListed, NextNumbers, NextCrash DEF IInv
  <2>2. QED
    BY <2>1 DEF IInv
<1>2. QED
  BY <1>1, StutterIInv

\* ws.go as a whole: the slice, the counters, the maps of channels and the
\* goroutines are always in a state that the parts of IInv describe.
THEOREM Invariance == Spec => []IInv
<1>1. QED
  BY InitIInv, NextIInv, PTL DEF Spec

\* The slice lies in its arrays, the counter in its width, and every message
\* and channel is about a call.
THEOREM TypeCorrect == Spec => []TypeOK
<1>1. IInv => TypeOK
  BY TypeByParts DEF IInv
<1>2. QED
  BY <1>1, Invariance, PTL

\* As long as updates of the slice did not race, it lists exactly the
\* launchers whose goroutine Listen runs, and one whose removal has not yet
\* written the header.
THEOREM ListIsTrue == Spec => []ListedIsListening
<1>1. IInv => ListedIsListening
  <2>1. ASSUME IInv, ~torn
        PROVE  /\ Listening \subseteq Elems(mem, launchers)
               /\ \A k \in Elems(mem, launchers) :
                    k \in Listening \/ (k \in Launchers /\ listen[k].at = "store")
    BY <2>1, ListeningIsListed DEF IInv
  <2>2. QED
    BY <2>1 DEF Listening, ListedIsListening
<1>2. QED
  BY <1>1, Invariance, PTL

\* A call returns with its own answer, in whatever order answers come and
\* however often the counter comes round, unless it was given a number in use.
THEOREM AnswersAreOwn == Spec => []OwnAnswer
<1>1. IInv => OwnAnswer
  BY DEF IInv, Numbers
<1>2. QED
  BY <1>1, Invariance, PTL

\* Where a launcher only answers, Listen is stuck on the response to a call
\* that is not answered - or, after a call was given a number in use, on that
\* of a call that shares its number with another.
THEOREM StuckOnWaiting == Spec => []StuckBeforeRegistered
<1>1. ASSUME IInv, NEW l \in Launchers, Stuck(l), own[l] = 0
      PROVE  LET c == listen[l].msg.to
             IN \/ caller[c].at \in {"register", "wait"}
                \/ collided /\ SharesNumber(c)
  <2>0. PICK c, id : c = listen[l].msg.to /\ id = listen[l].msg.id
    OBVIOUS
  <2>1. /\ c \in Numbered /\ Has(c, l, id) /\ Due(c, l, id)
    BY <1>1, <2>0, HandIsDue DEF IInv, Numbers, Stuck
  <2>2. CASE c \in Unanswered
    BY <2>0, <2>2 DEF Unanswered
  <2>3. CASE collided /\ \E d \in Numbered : d # c /\ Has(d, l, id)
    BY <2>0, <2>1, <2>3 DEF SharesNumber, Numbered, Has
  <2>4. QED
    BY <2>1, <2>2, <2>3 DEF Due
<1>2. IInv => StuckBeforeRegistered
  BY <1>1 DEF StuckBeforeRegistered
<1>3. QED
  BY <1>2, Invariance, PTL

\* The process dies of a panic only after a race, a collision of numbers or a
\* request of a launcher.
THEOREM PanicNeedsRace == Spec => []CrashNeedsRace
<1>1. IInv => CrashNeedsRace
  BY DEF IInv
<1>2. QED
  BY <1>1, Invariance, PTL

=============================================================================
