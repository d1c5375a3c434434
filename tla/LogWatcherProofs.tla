-------------------------- MODULE LogWatcherProofs --------------------------
(***************************************************************************)
(* Proofs about LogWatcher, for every number of runs of the container, of  *)
(* lines of its log and of blocks.                                         *)
(***************************************************************************)
EXTENDS LogWatcher, FiniteSetTheorems, WellFoundedInduction, TLAPS

-----------------------------------------------------------------------------
(* The progress that lines amount to, as a relation.  Where Progress       *)
(* computes it from the log, these say what it is, so that it can be       *)
(* followed line by line.                                                  *)

\* p is the progress after each line of l from `first' to `last'.
IsProgress(l, p, first, last) ==
    p = [i \in (first - 1)..last |->
           IF i < first THEN Nothing ELSE Told(p[i - 1], l[i])]

\* After the lines from `first' to `last' of l, `known' is known.
Known(l, known, first, last) ==
    \E p : IsProgress(l, p, first, last) /\ known = p[last]

-----------------------------------------------------------------------------
(* The inductive invariant.                                                *)

(* The log is written by one run after the other.                          *)
InOrderOfRuns ==
    \A i \in DOMAIN log :
        /\ log[i].run <= Run(rev)
        /\ \A j \in DOMAIN log : i <= j => log[i].run <= log[j].run

(* A stream that is open holds nothing older than the run it is to follow, *)
(* and what was read of it nothing newer than the run it ends with.        *)
StreamOfRuns ==
    /\ follower.at \in {"open", "follow"} => follower.since <= Run(rev)
    /\ follower.at = "follow" =>
         /\ follower.first <= follower.pos
         /\ \A i \in DOMAIN log :
              i >= follower.first => log[i].run >= follower.since
         /\ \A i \in DOMAIN log :
              i < follower.pos => log[i].run <= follower.upto

(* What the watcher shows, given what is known from the lines that it has  *)
(* handled completely: the assignments that it is through with.            *)
Levels(known) == Larger(log[follower.pos - 1].line.height, known.total)

Shows(known) ==
    /\ watcher = "idle" => neutrinoSyncing = known
    /\ watcher \in {"level", "setDone"} =>
         /\ follower.at = "follow" /\ follower.pos > follower.first
         /\ log[follower.pos - 1].line.kind = "caughtUpAt"
    /\ watcher = "level" =>
         neutrinoSyncing =
           [known EXCEPT !.current = log[follower.pos - 1].line.height]
    /\ watcher = "setDone" =>
         neutrinoSyncing = [current |-> Levels(known), total |-> Levels(known),
                            done |-> known.done]
    /\ watcher \in {"resetTotal", "resetDone"} =>
         known = Nothing /\ neutrinoSyncing.current = 0
    /\ watcher = "resetDone" => neutrinoSyncing.total = 0

\* The last line that the watcher is through with.
Handled == IF watcher \in {"level", "setDone"} THEN follower.pos - 2
                                               ELSE follower.pos - 1

Shown == [current : Heights, total : Heights, done : BOOLEAN]

(* A stream that was opened while the watcher was still at the reset has   *)
(* not been read from.                                                     *)
InStep ==
    \E known \in Shown :
        /\ Shows(known)
        /\ IF follower.at = "follow"
           THEN /\ Known(log, known, follower.first, Handled)
                /\ watcher \in {"resetTotal", "resetDone"} =>
                     follower.pos = follower.first
           ELSE known = Nothing

IInv == TypeOK /\ InOrderOfRuns /\ StreamOfRuns /\ InStep

-----------------------------------------------------------------------------
(* Progress.                                                               *)

\* A set of numbers has a least one.
LEMMA LeastExists ==
    ASSUME NEW S, S \subseteq Nat, S # {}
    PROVE  \E i \in S : \A j \in S : i <= j
<1>1. PICK i \in S : \A j \in S : ~(<<j, i>> \in OpToRel(<, Nat))
  BY NatLessThanWellFounded, WFMin
<1>2. ASSUME NEW j \in S, j < i PROVE FALSE
  <2>1. <<j, i>> \in Nat \X Nat /\ <<j, i>>[1] < <<j, i>>[2]
    BY <1>2
  <2>2. <<j, i>> \in OpToRel(<, Nat)
    BY <2>1 DEF OpToRel
  <2>3. QED
    BY <1>1, <2>2
<1>3. QED
  BY <1>2

(* Two ways to go through the same lines agree: there is no first line     *)
(* after which they differ.                                                *)
LEMMA ProgressUnique ==
    ASSUME NEW l, NEW first \in Nat \ {0}, NEW last \in Nat,
           NEW p, NEW q,
           IsProgress(l, p, first, last), IsProgress(l, q, first, last)
    PROVE  p = q
<1> DEFINE D == (first - 1)..last
           S == {i \in D : p[i] # q[i]}
<1>1. /\ p = [i \in D |-> IF i < first THEN Nothing ELSE Told(p[i - 1], l[i])]
      /\ q = [i \in D |-> IF i < first THEN Nothing ELSE Told(q[i - 1], l[i])]
  BY DEF IsProgress
<1>2. S = {}
  <2>1. SUFFICES ASSUME S # {} PROVE FALSE
    OBVIOUS
  <2>2. S \subseteq Nat
    OBVIOUS
  <2> HIDE DEF S
  <2>3. PICK i \in S : \A j \in S : i <= j
    BY <2>1, <2>2, LeastExists
  <2>4. i \in D /\ p[i] # q[i]
    BY <2>3 DEF S
  <2>5. /\ p[i] = IF i < first THEN Nothing ELSE Told(p[i - 1], l[i])
        /\ q[i] = IF i < first THEN Nothing ELSE Told(q[i - 1], l[i])
    BY <1>1, <2>4
  <2>6. i >= first
    BY <2>4, <2>5
  <2>7. i - 1 \in D /\ ~(i <= i - 1)
    BY <2>4, <2>6
  <2>8. p[i - 1] = q[i - 1]
    BY <2>3, <2>7 DEF S
  <2>9. QED
    BY <2>4, <2>5, <2>8
<1>3. QED
  BY <1>1, <1>2

LEMMA KnownIsProgress ==
    ASSUME NEW first \in Nat \ {0}, NEW last \in Nat, NEW known,
           Known(log, known, first, last)
    PROVE  Progress(first, last) = known
<1>1. PICK p : IsProgress(log, p, first, last) /\ known = p[last]
  BY DEF Known
<1> DEFINE q == CHOOSE q : IsProgress(log, q, first, last)
<1>2. IsProgress(log, q, first, last)
  BY <1>1
<1>3. Progress(first, last) = q[last]
  BY DEF Progress, IsProgress
<1> HIDE DEF q
<1>4. q = p
  BY <1>1, <1>2, ProgressUnique
<1>5. QED
  BY <1>1, <1>3, <1>4

(* No line, and nothing is known.                                          *)
LEMMA KnownAtFirst ==
    ASSUME NEW l, NEW first \in Nat \ {0}
    PROVE  Known(l, Nothing, first, first - 1)
<1> DEFINE p == [i \in (first - 1)..(first - 1) |-> Nothing]
<1>1. \A i \in (first - 1)..(first - 1) : i < first
  OBVIOUS
<1>2. IsProgress(l, p, first, first - 1) /\ p[first - 1] = Nothing
  BY <1>1 DEF IsProgress
<1>3. QED
  BY <1>2 DEF Known

(* One line more.                                                          *)
LEMMA KnownNext ==
    ASSUME NEW l, NEW first \in Nat \ {0}, NEW last \in Nat, NEW known,
           last >= first - 1, Known(l, known, first, last)
    PROVE  Known(l, Told(known, l[last + 1]), first, last + 1)
<1>1. PICK p : IsProgress(l, p, first, last) /\ known = p[last]
  BY DEF Known
<1> DEFINE D == (first - 1)..(last + 1)
           q == [i \in D |-> IF i = last + 1 THEN Told(known, l[last + 1])
                                             ELSE p[i]]
<1>2. \A i \in (first - 1)..last :
        p[i] = IF i < first THEN Nothing ELSE Told(p[i - 1], l[i])
  BY <1>1 DEF IsProgress
<1>3. ASSUME NEW i \in D
      PROVE  q[i] = IF i < first THEN Nothing ELSE Told(q[i - 1], l[i])
  <2>1. CASE i = last + 1
    <3>1. ~(i < first) /\ i - 1 = last /\ last \in D /\ last # last + 1
      BY <2>1
    <3>2. q[i - 1] = known
      BY <1>1, <3>1
    <3>3. q[i] = Told(known, l[last + 1])
      BY <2>1
    <3>4. QED
      BY <2>1, <3>1, <3>2, <3>3
  <2>2. CASE i # last + 1
    <3>1. i \in (first - 1)..last /\ q[i] = p[i]
      BY <2>2
    <3>2. i >= first => i - 1 \in D /\ i - 1 # last + 1 /\ q[i - 1] = p[i - 1]
      BY <3>1
    <3>3. CASE i < first
      BY <1>2, <3>1, <3>3
    <3>4. CASE ~(i < first)
      <4>1. i >= first
        BY <3>4
      <4>2. QED
        BY <1>2, <3>1, <3>2, <3>4, <4>1
    <3>5. QED
      BY <3>3, <3>4
  <2>3. QED
    BY <2>1, <2>2
<1>4. IsProgress(l, q, first, last + 1)
  BY <1>3 DEF IsProgress
<1>5. q[last + 1] = Told(known, l[last + 1])
  OBVIOUS
<1>6. QED
  BY <1>4, <1>5 DEF Known

(* Lines that are written later change nothing of what was read.           *)
LEMMA KnownLater ==
    ASSUME NEW l, NEW m, NEW first \in Nat \ {0}, NEW last \in Int, NEW known,
           Known(l, known, first, last),
           \A i \in first..last : m[i] = l[i]
    PROVE  Known(m, known, first, last)
<1>1. PICK p : IsProgress(l, p, first, last) /\ known = p[last]
  BY DEF Known
<1>2. \A i \in (first - 1)..last : ~(i < first) => m[i] = l[i]
  OBVIOUS
<1>3. IsProgress(m, p, first, last)
  BY <1>1, <1>2 DEF IsProgress
<1>4. QED
  BY <1>1, <1>3 DEF Known

-----------------------------------------------------------------------------
(* Runs, and where they begin in the log.                                  *)

LEMMA RunType ==
    ASSUME NEW r \in 0..(2 * MaxRuns)
    PROVE  Run(r) \in Runs
BY WatcherAssumption DEF Run, Runs

LEMMA RunGrows ==
    ASSUME NEW r \in Nat, NEW s \in 0..r
    PROVE  Run(s) \in Nat /\ Run(r) \in Nat /\ Run(s) <= Run(r)
BY DEF Run

\* The entries of the log.
Entry == [run : Runs, line : Line]

LEMMA EntryType ==
    ASSUME log \in Seq(Entry)
    PROVE  /\ Len(log) \in Nat /\ DOMAIN log = 1..Len(log)
           /\ \A i \in DOMAIN log :
                /\ log[i].run \in Nat /\ log[i].run \in Runs
                /\ log[i].line \in Line
                /\ log[i].line.kind \in Kinds
                /\ log[i].line.height \in 1..MaxHeight
<1>1. Len(log) \in Nat /\ DOMAIN log = 1..Len(log)
  OBVIOUS
<1>2. ASSUME NEW i \in DOMAIN log
      PROVE  /\ log[i].run \in Nat /\ log[i].run \in Runs
             /\ log[i].line \in Line
             /\ log[i].line.kind \in Kinds
             /\ log[i].line.height \in 1..MaxHeight
  <2>1. log[i] \in Entry
    BY <1>1, <1>2
  <2>2. log[i].run \in Runs /\ log[i].line \in Line
    BY <2>1 DEF Entry
  <2>3. log[i].run \in Nat
    BY <2>2, WatcherAssumption DEF Runs
  <2>4. log[i].line.kind \in Kinds /\ log[i].line.height \in 1..MaxHeight
    BY <2>2 DEF Line
  <2>5. QED
    BY <2>2, <2>3, <2>4
<1>3. QED
  BY <1>1, <1>2

(* FirstSince is a place in the log, or the one after its end, and no line *)
(* from there on is of an earlier run.                                     *)
LEMMA FirstSinceType ==
    ASSUME log \in Seq(Entry), NEW run \in Nat
    PROVE  FirstSince(run) \in 1..(Len(log) + 1)
<1> DEFINE S == {i \in DOMAIN log : log[i].run < run}
<1>1. Len(log) \in Nat /\ DOMAIN log = 1..Len(log)
  BY EntryType
<1>2. IsFiniteSet(1..Len(log)) /\ Cardinality(1..Len(log)) <= Len(log)
  BY <1>1, FS_Interval
<1>3. S \in SUBSET (1..Len(log))
  BY <1>1
<1> HIDE DEF S
<1>4. IsFiniteSet(S) /\ Cardinality(S) <= Cardinality(1..Len(log))
  BY <1>2, <1>3, FS_Subset
<1>5. Cardinality(S) \in Nat /\ Cardinality(1..Len(log)) \in Nat
  BY <1>2, <1>4, FS_CardinalityType
<1>6. FirstSince(run) = Cardinality(S) + 1
  BY DEF FirstSince, S
<1>7. QED
  BY <1>1, <1>2, <1>4, <1>5, <1>6

LEMMA FirstSinceIsFirst ==
    ASSUME log \in Seq(Entry), InOrderOfRuns, NEW run \in Nat,
           NEW i \in DOMAIN log, i >= FirstSince(run)
    PROVE  log[i].run >= run
<1> DEFINE S == {j \in DOMAIN log : log[j].run < run}
<1>1. Len(log) \in Nat /\ DOMAIN log = 1..Len(log)
  BY EntryType
<1>2. SUFFICES ASSUME log[i].run < run PROVE FALSE
  BY EntryType
<1>3. ASSUME NEW j \in 1..i PROVE j \in S
  <2>1. j \in DOMAIN log /\ j <= i
    BY <1>1
  <2>2. log[j].run <= log[i].run
    BY <2>1 DEF InOrderOfRuns
  <2>3. log[j].run \in Nat /\ log[i].run \in Nat
    BY <2>1, EntryType
  <2>4. QED
    BY <1>2, <2>1, <2>2, <2>3
<1>4. S \in SUBSET (1..Len(log)) /\ 1..i \in SUBSET S
  BY <1>1, <1>3
<1>5. IsFiniteSet(1..Len(log))
  BY <1>1, FS_Interval
<1>6. FirstSince(run) = Cardinality(S) + 1
  BY DEF FirstSince
<1> HIDE DEF S
<1>7. IsFiniteSet(S)
  BY <1>4, <1>5, FS_Subset
<1>8. Cardinality(1..i) <= Cardinality(S)
  BY <1>4, <1>7, FS_Subset
<1>9. i \in Nat /\ i >= 1 /\ Cardinality(1..i) = i
  BY <1>1, FS_Interval
<1>10. Cardinality(S) \in Nat
  BY <1>7, FS_CardinalityType
<1>11. QED
  BY <1>6, <1>8, <1>9, <1>10

-----------------------------------------------------------------------------
(* Types.                                                                  *)

\* A follower and a progress, by their fields.
FollowerOf(at, since, upto, first, pos) ==
    [at |-> at, since |-> since, upto |-> upto, first |-> first, pos |-> pos]

ProgressOf(current, total, done) ==
    [current |-> current, total |-> total, done |-> done]

Followers == [at : {"wait", "open", "follow", "stuck"}, since : Runs,
              upto : Runs, first : 1..(Len(log) + 1), pos : 1..(Len(log) + 1)]

Steps == {"idle", "level", "setDone", "resetTotal", "resetDone"}

LEMMA Types ==
    ASSUME TypeOK
    PROVE  /\ rev \in Nat /\ rev \in 0..(2 * MaxRuns) /\ seen \in 0..rev
           /\ seen \in 0..(2 * MaxRuns)
           /\ log \in Seq(Entry) /\ Len(log) \in Nat
           /\ follower \in Followers /\ watcher \in Steps
           /\ follower = FollowerOf(follower.at, follower.since, follower.upto,
                                    follower.first, follower.pos)
           /\ follower.since \in Nat /\ follower.upto \in Nat
           /\ follower.first \in Nat \ {0} /\ follower.pos \in Nat \ {0}
           /\ follower.first <= Len(log) + 1 /\ follower.pos <= Len(log) + 1
           /\ neutrinoSyncing \in Shown
<1>1. /\ rev \in 0..(2 * MaxRuns) /\ seen \in 0..rev
      /\ log \in Seq(Entry)
      /\ follower \in Followers /\ watcher \in Steps
      /\ neutrinoSyncing \in Shown
  BY DEF TypeOK, Entry, Followers, Steps, Shown
<1>2. rev \in Nat /\ seen \in 0..(2 * MaxRuns)
  BY <1>1, WatcherAssumption
<1>3. Len(log) \in Nat
  BY <1>1
<1>4. follower = FollowerOf(follower.at, follower.since, follower.upto,
                            follower.first, follower.pos)
  BY <1>1 DEF Followers, FollowerOf
<1>5. /\ follower.since \in Runs /\ follower.upto \in Runs
      /\ follower.first \in 1..(Len(log) + 1)
      /\ follower.pos \in 1..(Len(log) + 1)
  BY <1>1 DEF Followers
<1>6. Runs \subseteq Nat
  BY WatcherAssumption DEF Runs
<1>7. follower.since \in Nat /\ follower.upto \in Nat
  BY <1>5, <1>6
<1>8. /\ follower.first \in Nat \ {0} /\ follower.pos \in Nat \ {0}
      /\ follower.first <= Len(log) + 1 /\ follower.pos <= Len(log) + 1
  BY <1>3, <1>5
<1>9. QED
  BY <1>1, <1>2, <1>3, <1>4, <1>7, <1>8

LEMMA ShownType ==
    ASSUME NEW p \in Shown
    PROVE  /\ p.current \in Heights /\ p.total \in Heights /\ p.done \in BOOLEAN
           /\ p.current \in Nat /\ p.total \in Nat
           /\ p = ProgressOf(p.current, p.total, p.done)
BY WatcherAssumption DEF Shown, Heights, ProgressOf

LEMMA NothingType == Nothing \in Shown
BY WatcherAssumption DEF Nothing, Shown, Heights

LEMMA ToldType ==
    ASSUME NEW known \in Shown, NEW entry,
           entry.line.kind \in Kinds, entry.line.height \in 1..MaxHeight
    PROVE  Told(known, entry) \in Shown
<1>1. /\ known.current \in Heights /\ known.total \in Heights
      /\ known.done \in BOOLEAN
  BY ShownType
<1>2. entry.line.height \in Heights
  BY WatcherAssumption DEF Heights
<1>3. Larger(entry.line.height, known.total) \in Heights
  BY <1>1, <1>2 DEF Larger
<1>4. [known EXCEPT !.total = entry.line.height] \in Shown
  BY <1>2 DEF Shown
<1>5. [known EXCEPT !.current = entry.line.height] \in Shown
  BY <1>2 DEF Shown
<1>6. [current |-> Larger(entry.line.height, known.total),
       total |-> Larger(entry.line.height, known.total),
       done |-> TRUE] \in Shown
  BY <1>3 DEF Shown
<1> DEFINE h == entry.line.height
<1>7. Told(known, entry) \in
        {[known EXCEPT !.total = h], [known EXCEPT !.current = h],
         [current |-> Larger(h, known.total), total |-> Larger(h, known.total),
          done |-> TRUE]}
  BY Zenon DEF Told
<1>8. QED
  BY <1>4, <1>5, <1>6, <1>7

-----------------------------------------------------------------------------
(* The initial state.                                                      *)

LEMMA InitInv ==
    ASSUME Init PROVE IInv
<1>1. /\ rev = 0 /\ seen = 0 /\ log = <<>> /\ watcher = "idle"
      /\ follower = [at |-> "wait", since |-> 0, upto |-> 0, first |-> 1, pos |-> 1]
      /\ neutrinoSyncing = Nothing
  BY DEF Init, Cache!Init
<1>2. Len(log) = 0 /\ DOMAIN log = {}
  BY <1>1
<1>3. TypeOK
  <2>1. rev \in 0..(2 * MaxRuns) /\ seen \in 0..rev
    BY <1>1, WatcherAssumption
  <2>2. log \in Seq([run : Runs, line : Line])
    BY <1>1
  <2>3. 0 \in Runs /\ 1 \in 1..(Len(log) + 1)
    BY <1>2, WatcherAssumption DEF Runs
  <2>4. follower \in [at : {"wait", "open", "follow", "stuck"}, since : Runs,
                      upto : Runs, first : 1..(Len(log) + 1),
                      pos : 1..(Len(log) + 1)]
    BY <1>1, <2>3
  <2>5. watcher \in {"idle", "level", "setDone", "resetTotal", "resetDone"}
    BY <1>1
  <2>6. neutrinoSyncing \in [current : Heights, total : Heights, done : BOOLEAN]
    BY <1>1, NothingType DEF Shown
  <2>7. QED
    BY <2>1, <2>2, <2>4, <2>5, <2>6 DEF TypeOK
<1>4. InOrderOfRuns
  BY <1>2 DEF InOrderOfRuns
<1>5. StreamOfRuns
  BY <1>1 DEF StreamOfRuns
<1>6. InStep
  <2>1. Shows(Nothing)
    BY <1>1 DEF Shows
  <2>2. QED
    BY <1>1, <2>1, NothingType DEF InStep
<1>7. QED
  BY <1>3, <1>4, <1>5, <1>6 DEF IInv

-----------------------------------------------------------------------------
(* The container and the cache.  The follower and the watcher are where    *)
(* they were: what was read of the log is still there.                     *)

LEMMA StartOrStopInv ==
    ASSUME IInv, StartOrStop
    PROVE  IInv'
<1>1. /\ rev < 2 * MaxRuns /\ rev' = rev + 1
      /\ seen' = seen /\ log' = log /\ follower' = follower
      /\ watcher' = watcher /\ neutrinoSyncing' = neutrinoSyncing
  BY DEF StartOrStop
<1>2. TypeOK /\ InOrderOfRuns /\ StreamOfRuns /\ InStep
  BY DEF IInv
<1>3. TypeOK'
  <2>1. rev' \in 0..(2 * MaxRuns) /\ seen' \in 0..rev'
    BY <1>1, <1>2, Types, WatcherAssumption
  <2>2. QED
    BY <1>1, <1>2, <2>1 DEF TypeOK
<1>4. Run(rev) \in Nat /\ Run(rev') \in Nat /\ Run(rev) <= Run(rev')
  <2>1. rev' \in Nat /\ rev \in 0..rev'
    BY <1>1, <1>2, Types
  <2>2. QED
    BY <2>1, RunGrows
<1>5. InOrderOfRuns'
  <2>1. ASSUME NEW i \in DOMAIN log PROVE log[i].run <= Run(rev')
    BY <1>2, <1>4, EntryType, Types DEF InOrderOfRuns
  <2>2. QED
    BY <1>1, <1>2, <2>1 DEF InOrderOfRuns
<1>6. StreamOfRuns'
  <2>1. follower.at \in {"open", "follow"} => follower.since <= Run(rev')
    BY <1>2, <1>4, Types DEF StreamOfRuns
  <2>2. QED
    BY <1>1, <1>2, <2>1 DEF StreamOfRuns
<1>7. InStep'
  BY <1>1, <1>2 DEF InStep, Shows, Levels, Handled, Shown
<1>8. QED
  BY <1>3, <1>5, <1>6, <1>7 DEF IInv

LEMMA LearnInv ==
    ASSUME IInv, Learn
    PROVE  IInv'
<1>1. /\ seen' \in seen..rev
      /\ rev' = rev /\ log' = log /\ follower' = follower
      /\ watcher' = watcher /\ neutrinoSyncing' = neutrinoSyncing
  BY DEF Learn, Cache!Learn
<1>2. TypeOK /\ InOrderOfRuns /\ StreamOfRuns /\ InStep
  BY DEF IInv
<1>3. TypeOK'
  <2>1. seen' \in 0..rev'
    BY <1>1, <1>2, Types
  <2>2. QED
    BY <1>1, <1>2, <2>1 DEF TypeOK
<1>4. InOrderOfRuns' /\ StreamOfRuns'
  BY <1>1, <1>2 DEF InOrderOfRuns, StreamOfRuns
<1>5. InStep'
  BY <1>1, <1>2 DEF InStep, Shows, Levels, Handled, Shown
<1>6. QED
  BY <1>3, <1>4, <1>5 DEF IInv

\* The log with one entry more.
LEMMA AppendFacts ==
    ASSUME log \in Seq(Entry), NEW entry \in Entry, NEW l,
           l = Append(log, entry)
    PROVE  /\ l \in Seq(Entry) /\ Len(l) = Len(log) + 1
           /\ \A i \in DOMAIN log : i \in DOMAIN l /\ l[i] = log[i]
           /\ \A i \in DOMAIN l : i \in DOMAIN log \/ i = Len(log) + 1
           /\ l[Len(log) + 1] = entry
OBVIOUS

LEMMA WriteInv ==
    ASSUME IInv, Write
    PROVE  IInv'
<1>1. TypeOK /\ InOrderOfRuns /\ StreamOfRuns /\ InStep
  BY DEF IInv
<1>2. PICK line \in Line : log' = Append(log, [run |-> Run(rev), line |-> line])
  BY DEF Write
<1>3. /\ rev' = rev /\ seen' = seen /\ follower' = follower
      /\ watcher' = watcher /\ neutrinoSyncing' = neutrinoSyncing
  BY DEF Write
<1> DEFINE entry == [run |-> Run(rev), line |-> line]
           n == Len(log) + 1
<1>4. Run(rev) \in Runs /\ Run(rev) \in Nat
  <2>1. rev \in 0..(2 * MaxRuns)
    BY <1>1, Types
  <2>2. Run(rev) \in Runs
    BY <2>1, RunType
  <2>3. QED
    BY <2>2, WatcherAssumption DEF Runs
<1>5. entry \in Entry
  BY <1>4 DEF Entry
<1>6. log \in Seq(Entry) /\ Len(log) \in Nat
  BY <1>1, Types
<1>7. log' = Append(log, entry)
  BY <1>2
<1> HIDE DEF entry
<1>8. /\ log' \in Seq(Entry) /\ Len(log') = n
      /\ \A i \in DOMAIN log : i \in DOMAIN log' /\ log'[i] = log[i]
      /\ \A i \in DOMAIN log' : i \in DOMAIN log \/ i = n
      /\ log'[n] = entry
  BY <1>5, <1>6, <1>7, AppendFacts
<1>9. log'[n].run = Run(rev)
  BY <1>8 DEF entry
<1>10. DOMAIN log = 1..Len(log)
  BY <1>6
<1>11. TypeOK'
  <2>1. follower \in Followers
    BY <1>1, Types
  <2>2. 1..(Len(log) + 1) \subseteq 1..(Len(log') + 1)
    BY <1>6, <1>8
  <2>3. follower' \in Followers'
    BY <1>3, <2>1, <2>2 DEF Followers
  <2>4. log' \in Seq([run : Runs, line : Line])
    BY <1>8 DEF Entry
  <2>5. QED
    BY <1>1, <1>3, <2>3, <2>4 DEF TypeOK, Followers
<1>12. \A i \in DOMAIN log : log[i].run \in Nat /\ log[i].run <= Run(rev)
  BY <1>1, <1>6, EntryType DEF InOrderOfRuns
<1>13. InOrderOfRuns'
  <2>1. ASSUME NEW i \in DOMAIN log'
        PROVE  log'[i].run <= Run(rev)
    BY <1>4, <1>8, <1>9, <1>12
  <2>2. ASSUME NEW i \in DOMAIN log', NEW j \in DOMAIN log', i <= j
        PROVE  log'[i].run <= log'[j].run
    <3>1. CASE j = n
      BY <1>9, <2>1, <3>1
    <3>2. CASE j \in DOMAIN log
      <4>1. i \in DOMAIN log
        BY <1>6, <1>8, <1>10, <2>2, <3>2
      <4>2. QED
        BY <1>1, <1>8, <2>2, <3>2, <4>1 DEF InOrderOfRuns
    <3>3. QED
      BY <1>8, <3>1, <3>2
  <2>3. QED
    BY <1>3, <2>1, <2>2 DEF InOrderOfRuns
<1>14. StreamOfRuns'
  <2>1. follower.at \in {"open", "follow"} => follower.since <= Run(rev)
    BY <1>1 DEF StreamOfRuns
  <2>2. ASSUME follower.at = "follow"
        PROVE  /\ follower.first <= follower.pos
               /\ \A i \in DOMAIN log' :
                    i >= follower.first => log'[i].run >= follower.since
               /\ \A i \in DOMAIN log' :
                    i < follower.pos => log'[i].run <= follower.upto
    <3>1. /\ follower.first <= follower.pos
          /\ \A i \in DOMAIN log :
               i >= follower.first => log[i].run >= follower.since
          /\ \A i \in DOMAIN log :
               i < follower.pos => log[i].run <= follower.upto
      BY <1>1, <2>2 DEF StreamOfRuns
    <3>2. follower.since \in Nat /\ follower.pos \in Nat /\ follower.pos <= n
      BY <1>1, Types
    <3>3. log'[n].run >= follower.since
      BY <1>4, <1>9, <2>1, <2>2, <3>2
    <3>4. ~(n < follower.pos)
      BY <1>6, <3>2
    <3>5. QED
      BY <1>8, <3>1, <3>3, <3>4
  <2>3. QED
    BY <1>3, <2>1, <2>2 DEF StreamOfRuns
<1>15. InStep'
  <2>1. PICK known \in Shown :
          /\ Shows(known)
          /\ IF follower.at = "follow"
             THEN /\ Known(log, known, follower.first, Handled)
                  /\ watcher \in {"resetTotal", "resetDone"} =>
                       follower.pos = follower.first
             ELSE known = Nothing
    BY <1>1 DEF InStep
  <2>2. follower.first \in Nat \ {0} /\ follower.pos \in Nat /\ follower.pos <= n
    BY <1>1, Types
  <2>3. Shows(known)'
    <3>1. watcher \in {"level", "setDone"} =>
            log'[follower.pos - 1] = log[follower.pos - 1]
      <4>1. SUFFICES ASSUME watcher \in {"level", "setDone"}
                     PROVE  log'[follower.pos - 1] = log[follower.pos - 1]
        OBVIOUS
      <4>2. follower.pos > follower.first
        BY <2>1, <4>1 DEF Shows
      <4>3. follower.pos - 1 \in DOMAIN log
        BY <1>6, <1>10, <2>2, <4>2
      <4>4. QED
        BY <1>8, <4>3
    <3>2. QED
      BY <1>3, <2>1, <3>1 DEF Shows, Levels
  <2>4. Handled' = Handled /\ Handled \in Int /\ Handled < n
    BY <1>3, <1>6, <2>2 DEF Handled
  <2>5. ASSUME follower.at = "follow"
        PROVE  Known(log', known, follower.first, Handled)
    <3>1. \A i \in follower.first..Handled : log'[i] = log[i]
      BY <1>6, <1>8, <1>10, <2>2, <2>4
    <3>2. Known(log, known, follower.first, Handled)
      BY <2>1, <2>5
    <3>3. QED
      BY <2>2, <2>4, <3>1, <3>2, KnownLater
  <2>6. Shown' = Shown
    BY DEF Shown
  <2>7. QED
    BY <1>3, <2>1, <2>3, <2>4, <2>5, <2>6 DEF InStep
<1>16. QED
  BY <1>11, <1>13, <1>14, <1>15 DEF IInv

-----------------------------------------------------------------------------
(* The follower goes from one stream to the next.  The container, the log  *)
(* and the watcher are as they were.                                       *)

\* What is known while no stream is open.
LEMMA NothingKnown ==
    ASSUME InStep, follower.at # "follow"
    PROVE  Shows(Nothing)
BY DEF InStep

LEMMA NoStreamInStep ==
    ASSUME follower.at # "follow", Shows(Nothing)
    PROVE  InStep
BY NothingType DEF InStep

LEMMA FollowerType ==
    ASSUME NEW at \in {"wait", "open", "follow", "stuck"},
           NEW since \in Runs, NEW upto \in Runs,
           NEW first \in 1..(Len(log) + 1), NEW pos \in 1..(Len(log) + 1)
    PROVE  FollowerOf(at, since, upto, first, pos) \in Followers
BY DEF FollowerOf, Followers

LEMMA FollowerFields ==
    ASSUME TypeOK
    PROVE  /\ follower.at \in {"wait", "open", "follow", "stuck"}
           /\ follower.since \in Runs /\ follower.upto \in Runs
           /\ follower.first \in 1..(Len(log) + 1)
           /\ follower.pos \in 1..(Len(log) + 1)
BY DEF TypeOK

\* A step of the follower that opens no stream and does not end one.
LEMMA NoStreamInv ==
    ASSUME IInv, follower.at \in {"wait", "open"},
           NEW at \in {"wait", "open", "stuck"}, NEW since \in Runs,
           at = "open" => since <= Run(rev),
           follower' = FollowerOf(at, since, follower.upto, follower.first,
                                  follower.pos),
           UNCHANGED <<rev, seen, log, watcher, neutrinoSyncing>>
    PROVE  IInv'
<1>1. TypeOK /\ InOrderOfRuns /\ StreamOfRuns /\ InStep
  BY DEF IInv
<1>2. follower'.at = at /\ follower'.since = since
  BY DEF FollowerOf
<1>3. at # "follow" /\ at \in {"wait", "open", "follow", "stuck"}
  OBVIOUS
<1>4. TypeOK'
  <2>1. follower' \in Followers
    BY <1>1, <1>3, FollowerFields, FollowerType
  <2>2. QED
    BY <1>1, <2>1 DEF TypeOK, Followers
<1>5. InOrderOfRuns'
  BY <1>1 DEF InOrderOfRuns
<1>6. StreamOfRuns'
  BY <1>2, <1>3 DEF StreamOfRuns
<1>7. Shows(Nothing)
  BY <1>1, NothingKnown
<1>8. watcher \notin {"level", "setDone"}
  BY <1>7 DEF Shows
<1>9. Shows(Nothing)'
  BY <1>7, <1>8 DEF Shows
<1>10. InStep'
  <2>1. follower'.at # "follow"
    BY <1>2, <1>3
  <2>2. (follower.at # "follow" /\ Shows(Nothing) => InStep)'
    BY NoStreamInStep, PTL
  <2>3. Nothing' = Nothing
    BY DEF Nothing
  <2>4. QED
    BY <1>9, <2>1, <2>2
<1>11. QED
  BY <1>4, <1>5, <1>6, <1>10 DEF IInv

LEMMA TakeContainerInv ==
    ASSUME IInv, TakeContainer
    PROVE  IInv'
<1>1. follower.at = "wait" /\ UNCHANGED <<rev, seen, log, watcher, neutrinoSyncing>>
  BY DEF TakeContainer
<1>2. TypeOK
  BY DEF IInv
<1>3. Run(seen) \in Runs /\ Run(seen) <= Run(rev)
  BY <1>2, Types, RunType, RunGrows
<1>4. follower' = FollowerOf("open", Run(seen), follower.upto, follower.first,
                             follower.pos)
  BY <1>2, Types DEF TakeContainer, FollowerOf
<1>5. QED
  BY <1>1, <1>3, <1>4, NoStreamInv

LEMMA FollowFailsInv ==
    ASSUME IInv, FollowFails
    PROVE  IInv'
<1>1. follower.at = "open" /\ UNCHANGED <<rev, seen, log, watcher, neutrinoSyncing>>
  BY DEF FollowFails
<1>2. TypeOK
  BY DEF IInv
<1>3. follower' = FollowerOf("stuck", follower.since, follower.upto,
                             follower.first, follower.pos)
  BY <1>2, Types DEF FollowFails, FollowerOf
<1>4. follower.since \in Runs
  BY <1>2, FollowerFields
<1>5. QED
  BY <1>1, <1>3, <1>4, NoStreamInv

LEMMA FollowInv ==
    ASSUME IInv, Follow
    PROVE  IInv'
<1> DEFINE first == FirstSince(follower.since)
<1>1. TypeOK /\ InOrderOfRuns /\ StreamOfRuns /\ InStep
  BY DEF IInv
<1>2. follower.at = "open" /\ UNCHANGED <<rev, seen, log, watcher, neutrinoSyncing>>
  BY DEF Follow, FollowFrom
<1>3. follower' = FollowerOf("follow", follower.since, Run(rev), first, first)
  BY <1>1, Types DEF Follow, FollowFrom, FollowerOf
<1>4. log \in Seq(Entry) /\ Len(log) \in Nat /\ follower.since \in Nat
  BY <1>1, Types
<1>5. first \in 1..(Len(log) + 1)
  BY <1>4, FirstSinceType
<1>6. \A i \in DOMAIN log : i >= first => log[i].run >= follower.since
  BY <1>1, <1>4, FirstSinceIsFirst
<1> HIDE DEF first
<1>7. first \in Nat \ {0}
  BY <1>4, <1>5
<1>8. /\ follower'.at = "follow" /\ follower'.since = follower.since
      /\ follower'.upto = Run(rev)
      /\ follower'.first = first /\ follower'.pos = first
  BY <1>3 DEF FollowerOf
<1>9. TypeOK'
  <2>1. Run(rev) \in Runs
    BY <1>1, Types, RunType
  <2>2. follower' \in Followers
    BY <1>1, <1>3, <1>5, <2>1, FollowerFields, FollowerType
  <2>3. QED
    BY <1>1, <1>2, <2>2 DEF TypeOK, Followers
<1>10. InOrderOfRuns'
  BY <1>1, <1>2 DEF InOrderOfRuns
<1>11. StreamOfRuns'
  <2>1. follower.since <= Run(rev)
    BY <1>1, <1>2 DEF StreamOfRuns
  <2>2. \A i \in DOMAIN log : log[i].run <= Run(rev)
    BY <1>1 DEF InOrderOfRuns
  <2>3. first <= first
    BY <1>7
  <2>4. QED
    BY <1>2, <1>6, <1>8, <2>1, <2>2, <2>3 DEF StreamOfRuns
<1>12. Shows(Nothing)
  BY <1>1, <1>2, NothingKnown
<1>13. watcher \notin {"level", "setDone"}
  BY <1>2, <1>12 DEF Shows
<1>14. InStep'
  <2>1. Shows(Nothing)'
    BY <1>2, <1>12, <1>13 DEF Shows, Nothing
  <2>2. Handled' = first - 1
    BY <1>2, <1>8, <1>13 DEF Handled
  <2>3. Known(log', Nothing, first, first - 1)
    BY <1>7, KnownAtFirst
  <2>4. Nothing \in Shown'
    BY NothingType DEF Shown
  <2>5. QED
    BY <1>8, <2>1, <2>2, <2>3, <2>4 DEF InStep
<1>15. QED
  BY <1>9, <1>10, <1>11, <1>14 DEF IInv

(* The end of the stream: what was known is forgotten, and the watcher is  *)
(* at the first assignment of the reset.                                   *)
LEMMA EndStreamInv ==
    ASSUME IInv, EndStream
    PROVE  IInv'
<1>1. TypeOK /\ InOrderOfRuns /\ StreamOfRuns /\ InStep
  BY DEF IInv
<1>2. /\ watcher' = "resetTotal" /\ UNCHANGED <<rev, seen, log>>
      /\ neutrinoSyncing' = [neutrinoSyncing EXCEPT !.current = 0]
  BY DEF EndStream, SetCurrent
<1>3. follower' = FollowerOf("wait", follower.since, follower.upto,
                             follower.first, follower.pos)
  BY <1>1, Types DEF EndStream, FollowerOf
<1>4. follower'.at = "wait"
  BY <1>3 DEF FollowerOf
<1>5. neutrinoSyncing \in Shown
  BY <1>1, Types
<1>6. TypeOK'
  <2>1. follower' \in Followers
    BY <1>1, <1>3, FollowerFields, FollowerType
  <2>2. neutrinoSyncing' \in Shown
    BY <1>2, <1>5, WatcherAssumption DEF Shown, Heights
  <2>3. QED
    BY <1>1, <1>2, <2>1, <2>2 DEF TypeOK, Followers, Shown
<1>7. InOrderOfRuns'
  BY <1>1, <1>2 DEF InOrderOfRuns
<1>8. StreamOfRuns'
  BY <1>4 DEF StreamOfRuns
<1>9. InStep'
  <2>1. neutrinoSyncing'.current = 0
    BY <1>2, <1>5 DEF Shown
  <2>2. Shows(Nothing)'
    BY <1>2, <2>1 DEF Shows, Nothing
  <2>3. Nothing \in Shown' /\ follower'.at # "follow"
    BY <1>4, NothingType DEF Shown
  <2>4. QED
    BY <2>2, <2>3 DEF InStep, Nothing
<1>10. QED
  BY <1>6, <1>7, <1>8, <1>9 DEF IInv

-----------------------------------------------------------------------------
(* The watcher takes a line.  Two of the three kinds are handled with the  *)
(* one assignment; the third leaves three to be made.                      *)

LEMMA KindNames ==
    /\ Kinds = {"syncingTo", "fetchingFrom", "caughtUpAt"}
    /\ "syncingTo" # "fetchingFrom" /\ "syncingTo" # "caughtUpAt"
    /\ "fetchingFrom" # "caughtUpAt"
BY DEF Kinds

LEMMA ToldByKind ==
    ASSUME NEW known, NEW entry
    PROVE  /\ entry.line.kind = "syncingTo" =>
                Told(known, entry) = [known EXCEPT !.total = entry.line.height]
           /\ entry.line.kind = "fetchingFrom" =>
                Told(known, entry) = [known EXCEPT !.current = entry.line.height]
           /\ entry.line.kind = "caughtUpAt" =>
                Told(known, entry) =
                  [current |-> Larger(entry.line.height, known.total),
                   total |-> Larger(entry.line.height, known.total),
                   done |-> TRUE]
BY Zenon, KindNames DEF Told

LEMMA TakeLineInv ==
    ASSUME IInv, TakeLine
    PROVE  IInv'
<1> DEFINE pos == follower.pos
           h == log[pos].line.height
           kind == log[pos].line.kind
<1>1. TypeOK /\ InOrderOfRuns /\ StreamOfRuns /\ InStep
  BY DEF IInv
<1>2. /\ follower.at = "follow" /\ watcher = "idle" /\ pos \in DOMAIN log
      /\ log[pos].run <= follower.upto
      /\ UNCHANGED <<rev, seen, log>>
      /\ kind = "syncingTo" =>
           neutrinoSyncing' = [neutrinoSyncing EXCEPT !.total = h]
      /\ kind # "syncingTo" =>
           neutrinoSyncing' = [neutrinoSyncing EXCEPT !.current = h]
      /\ kind = "caughtUpAt" => watcher' = "level"
      /\ kind # "caughtUpAt" => watcher' = "idle"
  BY DEF TakeLine, InStream, SetTotal, SetCurrent
<1>3. follower' = FollowerOf("follow", follower.since, follower.upto,
                             follower.first, pos + 1)
  BY <1>1, <1>2, Types DEF TakeLine, FollowerOf
<1>4. /\ follower'.at = "follow" /\ follower'.since = follower.since
      /\ follower'.upto = follower.upto /\ follower'.first = follower.first
      /\ follower'.pos = pos + 1
  BY <1>3 DEF FollowerOf
<1>5. /\ log \in Seq(Entry) /\ Len(log) \in Nat
      /\ follower.first \in Nat \ {0} /\ pos \in Nat \ {0}
      /\ neutrinoSyncing \in Shown
  BY <1>1, Types
<1>6. kind \in Kinds /\ h \in 1..MaxHeight
  BY <1>2, <1>5, EntryType
<1>7. h \in Heights
  BY <1>6, WatcherAssumption DEF Heights
<1>8. pos + 1 \in 1..(Len(log) + 1)
  BY <1>2, <1>5
<1>9. follower.first <= pos
  BY <1>1, <1>2 DEF StreamOfRuns
<1>10. TypeOK'
  <2>1. follower' \in Followers
    BY <1>1, <1>3, <1>8, FollowerFields, FollowerType
  <2>2. neutrinoSyncing' \in Shown
    BY <1>2, <1>5, <1>7 DEF Shown
  <2>3. watcher' \in Steps
    BY <1>2 DEF Steps
  <2>4. QED
    BY <1>1, <1>2, <2>1, <2>2, <2>3 DEF TypeOK, Followers, Shown, Steps
<1>11. InOrderOfRuns'
  BY <1>1, <1>2 DEF InOrderOfRuns
<1>12. StreamOfRuns'
  <2>1. /\ follower.since <= Run(rev)
        /\ \A i \in DOMAIN log :
             i >= follower.first => log[i].run >= follower.since
        /\ \A i \in DOMAIN log : i < pos => log[i].run <= follower.upto
    BY <1>1, <1>2 DEF StreamOfRuns
  <2>2. \A i \in DOMAIN log : i < pos + 1 => log[i].run <= follower.upto
    BY <1>2, <1>5, <2>1
  <2>3. follower.first <= pos + 1
    BY <1>5, <1>9
  <2>4. Run(rev') = Run(rev)
    BY <1>2
  <2>5. QED
    BY <1>2, <1>4, <2>1, <2>2, <2>3, <2>4 DEF StreamOfRuns
<1>13. PICK known \in Shown :
         /\ Shows(known)
         /\ Known(log, known, follower.first, Handled)
  BY <1>1, <1>2 DEF InStep
<1>14. neutrinoSyncing = known
  BY <1>2, <1>13 DEF Shows
<1>15. Known(log, known, follower.first, pos - 1)
  BY <1>2, <1>13 DEF Handled
<1>16. Shown' = Shown
  BY DEF Shown
<1>17. InStep'
  <2>1. CASE kind # "caughtUpAt"
    <3>1. watcher' = "idle"
      BY <1>2, <2>1
    <3>2. neutrinoSyncing' = Told(known, log[pos])
      BY <1>2, <1>6, <1>14, <2>1, KindNames, ToldByKind
    <3>3. Told(known, log[pos]) \in Shown
      BY <1>6, <1>13, ToldType
    <3>4. Handled' = pos
      BY <1>4, <1>5, <3>1 DEF Handled
    <3>5. Known(log, Told(known, log[pos]), follower.first, pos)
      <4>1. pos - 1 \in Nat /\ pos - 1 >= follower.first - 1 /\ (pos - 1) + 1 = pos
        BY <1>5, <1>9
      <4>2. Known(log, Told(known, log[(pos - 1) + 1]), follower.first, (pos - 1) + 1)
        BY <1>5, <1>15, <4>1, KnownNext
      <4>3. QED
        BY <4>1, <4>2
    <3>6. PICK told : told = Told(known, log[pos])
      OBVIOUS
    <3>7. Shows(told)'
      BY <3>1, <3>2, <3>6 DEF Shows
    <3>8. Known(log', told, follower'.first, Handled') /\ told \in Shown'
      BY <1>2, <1>4, <1>16, <3>3, <3>4, <3>5, <3>6
    <3>9. QED
      BY <1>4, <3>1, <3>7, <3>8 DEF InStep
  <2>2. CASE kind = "caughtUpAt"
    <3>1. watcher' = "level" /\ neutrinoSyncing' = [known EXCEPT !.current = h]
      BY <1>2, <1>14, <2>2, KindNames
    <3>2. (pos + 1) - 1 = pos /\ (pos + 1) - 2 = pos - 1 /\ pos + 1 > follower.first
      BY <1>5, <1>9
    <3>3. log'[follower'.pos - 1] = log[pos]
      BY <1>2, <1>4, <3>2
    <3>4. Handled' = pos - 1
      BY <1>4, <3>1, <3>2 DEF Handled
    <3>5. Shows(known)'
      BY <1>4, <2>2, <3>1, <3>2, <3>3 DEF Shows
    <3>6. Known(log', known, follower'.first, Handled')
      BY <1>2, <1>4, <1>15, <3>4
    <3>7. QED
      BY <1>4, <1>13, <1>16, <3>1, <3>5, <3>6 DEF InStep
  <2>3. QED
    BY <2>1, <2>2
<1>18. QED
  BY <1>10, <1>11, <1>12, <1>17 DEF IInv

-----------------------------------------------------------------------------
(* The watcher goes through its assignments.  The lines, and who reads     *)
(* them, stay as they are.                                                 *)

LEMMA WatcherTypes ==
    ASSUME TypeOK, UNCHANGED <<rev, seen, log, follower>>,
           watcher' \in Steps, neutrinoSyncing' \in Shown
    PROVE  TypeOK'
BY DEF TypeOK, Steps, Shown

LEMMA WatcherRuns ==
    ASSUME InOrderOfRuns, StreamOfRuns, UNCHANGED <<rev, seen, log, follower>>
    PROVE  InOrderOfRuns' /\ StreamOfRuns'
BY DEF InOrderOfRuns, StreamOfRuns

LEMMA LevelInv ==
    ASSUME IInv, Level
    PROVE  IInv'
<1>1. TypeOK /\ InOrderOfRuns /\ StreamOfRuns /\ InStep
  BY DEF IInv
<1>2. /\ watcher = "level" /\ watcher' = "setDone"
      /\ UNCHANGED <<rev, seen, log, follower>>
      /\ neutrinoSyncing' =
           IF neutrinoSyncing.current < neutrinoSyncing.total
           THEN [neutrinoSyncing EXCEPT !.current = neutrinoSyncing.total]
           ELSE [neutrinoSyncing EXCEPT !.total = neutrinoSyncing.current]
  BY DEF Level, SetCurrent, SetTotal
<1>3. neutrinoSyncing \in Shown
  BY <1>1, Types
<1>4. TypeOK'
  <2>1. neutrinoSyncing' \in Shown
    BY <1>2, <1>3 DEF Shown
  <2>2. QED
    BY <1>1, <1>2, <2>1, WatcherTypes DEF Steps
<1>5. PICK known \in Shown :
        /\ Shows(known)
        /\ IF follower.at = "follow"
           THEN Known(log, known, follower.first, Handled)
           ELSE known = Nothing
  BY <1>1 DEF InStep
<1> DEFINE h == log[follower.pos - 1].line.height
<1>6. /\ follower.at = "follow" /\ follower.pos > follower.first
      /\ log[follower.pos - 1].line.kind = "caughtUpAt"
      /\ neutrinoSyncing = [known EXCEPT !.current = h]
  BY <1>2, <1>5 DEF Shows
<1>7. h \in Nat
  <2>1. follower.pos - 1 \in DOMAIN log
    BY <1>1, <1>6, Types
  <2>2. h \in 1..MaxHeight
    BY <1>1, <2>1, Types, EntryType
  <2>3. QED
    BY <2>2, WatcherAssumption
<1>8. Shows(known)'
  <2>1. /\ known.total \in Nat
        /\ known = ProgressOf(known.current, known.total, known.done)
    BY <1>5, ShownType
  <2>2. neutrinoSyncing = ProgressOf(h, known.total, known.done)
    BY <1>6, <2>1 DEF ProgressOf
  <2>3. neutrinoSyncing' = ProgressOf(Larger(h, known.total),
                                      Larger(h, known.total), known.done)
    <3>1. CASE h < known.total
      BY <1>2, <2>2, <3>1 DEF ProgressOf, Larger
    <3>2. CASE ~(h < known.total)
      BY <1>2, <2>2, <3>2 DEF ProgressOf, Larger
    <3>3. QED
      BY <3>1, <3>2
  <2>4. QED
    BY <1>2, <1>6, <2>3 DEF Shows, Levels, ProgressOf
<1>9. Handled' = Handled
  BY <1>2 DEF Handled
<1>10. InStep'
  BY <1>2, <1>5, <1>6, <1>8, <1>9 DEF InStep, Shown
<1>11. QED
  BY <1>1, <1>2, <1>4, <1>10, WatcherRuns DEF IInv

LEMMA SetDoneInv ==
    ASSUME IInv, SetDone
    PROVE  IInv'
<1>1. TypeOK /\ InOrderOfRuns /\ StreamOfRuns /\ InStep
  BY DEF IInv
<1>2. /\ watcher = "setDone" /\ watcher' = "idle"
      /\ UNCHANGED <<rev, seen, log, follower>>
      /\ neutrinoSyncing' = [neutrinoSyncing EXCEPT !.done = TRUE]
  BY DEF SetDone
<1>3. neutrinoSyncing \in Shown
  BY <1>1, Types
<1>4. TypeOK'
  <2>1. neutrinoSyncing' \in Shown
    BY <1>2, <1>3 DEF Shown
  <2>2. QED
    BY <1>1, <1>2, <2>1, WatcherTypes DEF Steps
<1>5. PICK known \in Shown :
        /\ Shows(known)
        /\ IF follower.at = "follow"
           THEN Known(log, known, follower.first, Handled)
           ELSE known = Nothing
  BY <1>1 DEF InStep
<1> DEFINE last == follower.pos - 1
           told == Told(known, log[last])
<1>6. /\ follower.at = "follow" /\ follower.pos > follower.first
      /\ log[last].line.kind = "caughtUpAt"
      /\ neutrinoSyncing = [current |-> Levels(known), total |-> Levels(known),
                            done |-> known.done]
  BY <1>2, <1>5 DEF Shows
<1>7. /\ follower.first \in Nat \ {0} /\ last \in DOMAIN log
      /\ last - 1 \in Nat /\ last - 1 >= follower.first - 1
      /\ (last - 1) + 1 = last /\ follower.pos - 2 = last - 1
  BY <1>1, <1>6, Types
<1>8. told \in Shown
  <2>1. log[last].line.kind \in Kinds /\ log[last].line.height \in 1..MaxHeight
    BY <1>1, <1>7, Types, EntryType
  <2>2. QED
    BY <1>5, <2>1, ToldType
<1>9. neutrinoSyncing' = told
  <2>1. told = [current |-> Levels(known), total |-> Levels(known), done |-> TRUE]
    BY <1>6, ToldByKind DEF Levels
  <2>2. neutrinoSyncing' =
          [current |-> Levels(known), total |-> Levels(known), done |-> TRUE]
    BY <1>2, <1>6
  <2>3. QED
    BY <2>1, <2>2
<1>10. Known(log, told, follower.first, last)
  <2>1. Known(log, known, follower.first, last - 1)
    BY <1>2, <1>5, <1>6, <1>7 DEF Handled
  <2>2. Known(log, Told(known, log[(last - 1) + 1]), follower.first, (last - 1) + 1)
    BY <1>7, <2>1, KnownNext
  <2>3. QED
    BY <1>7, <2>2
<1>11. InStep'
  <2>1. PICK now : now = told
    OBVIOUS
  <2>2. Shows(now)'
    BY <1>2, <1>9, <2>1 DEF Shows
  <2>3. Handled' = last
    BY <1>2 DEF Handled
  <2>4. Known(log', now, follower'.first, Handled') /\ now \in Shown'
    BY <1>2, <1>8, <1>10, <2>1, <2>3 DEF Shown
  <2>5. QED
    BY <1>2, <1>6, <2>2, <2>4 DEF InStep
<1>12. QED
  BY <1>1, <1>2, <1>4, <1>11, WatcherRuns DEF IInv

LEMMA ResetTotalInv ==
    ASSUME IInv, ResetTotal
    PROVE  IInv'
<1>1. TypeOK /\ InOrderOfRuns /\ StreamOfRuns /\ InStep
  BY DEF IInv
<1>2. /\ watcher = "resetTotal" /\ watcher' = "resetDone"
      /\ UNCHANGED <<rev, seen, log, follower>>
      /\ neutrinoSyncing' = [neutrinoSyncing EXCEPT !.total = 0]
  BY DEF ResetTotal, SetTotal
<1>3. neutrinoSyncing \in Shown
  BY <1>1, Types
<1>4. TypeOK'
  <2>1. neutrinoSyncing' \in Shown
    BY <1>2, <1>3, WatcherAssumption DEF Shown, Heights
  <2>2. QED
    BY <1>1, <1>2, <2>1, WatcherTypes DEF Steps
<1>5. PICK known \in Shown :
        /\ Shows(known)
        /\ IF follower.at = "follow"
           THEN /\ Known(log, known, follower.first, Handled)
                /\ follower.pos = follower.first
           ELSE known = Nothing
  BY <1>1, <1>2 DEF InStep
<1>6. Shows(known)'
  BY <1>2, <1>3, <1>5 DEF Shows, Shown, Nothing
<1>7. Handled' = Handled
  BY <1>2 DEF Handled
<1>8. InStep'
  BY <1>2, <1>5, <1>6, <1>7 DEF InStep, Shown, Nothing
<1>9. QED
  BY <1>1, <1>2, <1>4, <1>8, WatcherRuns DEF IInv

LEMMA ResetDoneInv ==
    ASSUME IInv, ResetDone
    PROVE  IInv'
<1>1. TypeOK /\ InOrderOfRuns /\ StreamOfRuns /\ InStep
  BY DEF IInv
<1>2. /\ watcher = "resetDone" /\ watcher' = "idle"
      /\ UNCHANGED <<rev, seen, log, follower>>
      /\ neutrinoSyncing' = [neutrinoSyncing EXCEPT !.done = FALSE]
  BY DEF ResetDone
<1>3. neutrinoSyncing \in Shown
  BY <1>1, Types
<1>4. TypeOK'
  <2>1. neutrinoSyncing' \in Shown
    BY <1>2, <1>3 DEF Shown
  <2>2. QED
    BY <1>1, <1>2, <2>1, WatcherTypes DEF Steps
<1>5. PICK known \in Shown :
        /\ Shows(known)
        /\ IF follower.at = "follow"
           THEN /\ Known(log, known, follower.first, Handled)
                /\ follower.pos = follower.first
           ELSE known = Nothing
  BY <1>1, <1>2 DEF InStep
<1>6. known = Nothing /\ neutrinoSyncing.current = 0 /\ neutrinoSyncing.total = 0
  BY <1>2, <1>5 DEF Shows
<1>7. neutrinoSyncing' = known
  <2>1. PICK done : neutrinoSyncing = ProgressOf(0, 0, done)
    BY <1>3, <1>6, ShownType
  <2>2. neutrinoSyncing' = ProgressOf(0, 0, FALSE)
    BY <1>2, <2>1 DEF ProgressOf
  <2>3. QED
    BY <1>6, <2>2 DEF Nothing, ProgressOf
<1>8. Shows(known)'
  BY <1>2, <1>7 DEF Shows
<1>9. Handled' = Handled
  BY <1>2 DEF Handled
<1>10. InStep'
  BY <1>2, <1>5, <1>8, <1>9 DEF InStep, Shown, Nothing
<1>11. QED
  BY <1>1, <1>2, <1>4, <1>10, WatcherRuns DEF IInv

-----------------------------------------------------------------------------
(* The theorems.                                                           *)

LEMMA StutterInv ==
    ASSUME IInv, UNCHANGED vars
    PROVE  IInv'
<1>1. UNCHANGED <<rev, seen, log, follower, watcher, neutrinoSyncing>>
  BY DEF vars
<1>2. TypeOK /\ InOrderOfRuns /\ StreamOfRuns /\ InStep
  BY DEF IInv
<1>3. InStep'
  BY <1>1, <1>2 DEF InStep, Shows, Levels, Handled, Shown, Nothing
<1>4. TypeOK'
  BY <1>1, <1>2 DEF TypeOK
<1>5. QED
  BY <1>1, <1>2, <1>3, <1>4, WatcherRuns DEF IInv

LEMMA NextInv ==
    ASSUME IInv, [Next]_vars
    PROVE  IInv'
BY StartOrStopInv, WriteInv, LearnInv, TakeContainerInv, FollowInv,
   FollowFailsInv, TakeLineInv, EndStreamInv, LevelInv, SetDoneInv,
   ResetTotalInv, ResetDoneInv, StutterInv
   DEF Next, Watcher, TakeEOF, StreamBreaks

(* The invariant holds in every state of every behaviour of FollowLogs2    *)
(* and Start.                                                              *)
THEOREM Invariance == Spec => []IInv
<1>1. Init => IInv
  BY InitInv
<1>2. IInv /\ [Next]_vars => IInv'
  BY NextInv
<1>3. QED
  BY <1>1, <1>2, PTL DEF Spec

(* Every variable has its type: no line is read that is not in the log.    *)
THEOREM TypeCorrect == Spec => []TypeOK
<1>1. IInv => TypeOK
  BY DEF IInv
<1>2. QED
  BY <1>1, Invariance, PTL

(* FollowLogs opens a stream that holds, as far as it is read, the lines   *)
(* of a single run, when the start it was given is that of the run.        *)
THEOREM StreamsAreOfOneRun == Spec => []OneRunPerStream
<1>1. ASSUME IInv PROVE OneRunPerStream
  <2>1. TypeOK /\ StreamOfRuns
    BY <1>1 DEF IInv
  <2>2. SUFFICES ASSUME follower.at = "follow", follower.since = follower.upto,
                        NEW i \in follower.first..(follower.pos - 1)
                 PROVE  log[i].run = follower.since
    BY DEF OneRunPerStream
  <2>3. i \in DOMAIN log /\ i >= follower.first /\ i < follower.pos
    BY <2>1, Types
  <2>4. log[i].run >= follower.since /\ log[i].run <= follower.upto
    BY <2>1, <2>2, <2>3 DEF StreamOfRuns
  <2>5. log[i].run \in Nat /\ follower.since \in Nat
    BY <2>1, <2>3, Types, EntryType
  <2>6. QED
    BY <2>2, <2>4, <2>5
<1>2. QED
  BY <1>1, Invariance, PTL

(* Whenever the watcher waits for a line, the progress it shows is what    *)
(* the lines of the present stream say, and nothing between two streams.   *)
THEOREM ProgressIsOfStream == Spec => []ProgressOfStream
<1>1. ASSUME IInv PROVE ProgressOfStream
  <2>1. TypeOK /\ StreamOfRuns /\ InStep
    BY <1>1 DEF IInv
  <2>2. SUFFICES ASSUME watcher = "idle"
                 PROVE  neutrinoSyncing =
                          IF follower.at = "follow"
                          THEN Progress(follower.first, follower.pos - 1)
                          ELSE Nothing
    BY DEF ProgressOfStream
  <2>3. PICK known \in Shown :
          /\ Shows(known)
          /\ IF follower.at = "follow"
             THEN Known(log, known, follower.first, Handled)
             ELSE known = Nothing
    BY <2>1 DEF InStep
  <2>4. neutrinoSyncing = known
    BY <2>2, <2>3 DEF Shows
  <2>5. CASE follower.at = "follow"
    <3>1. Known(log, known, follower.first, follower.pos - 1)
      BY <2>2, <2>3, <2>5 DEF Handled
    <3>2. follower.first \in Nat \ {0} /\ follower.pos - 1 \in Nat
      BY <2>1, Types
    <3>3. Progress(follower.first, follower.pos - 1) = known
      BY <3>1, <3>2, KnownIsProgress
    <3>4. QED
      BY <2>4, <2>5, <3>3
  <2>6. CASE follower.at # "follow"
    BY <2>3, <2>4, <2>6
  <2>7. QED
    BY <2>5, <2>6
<1>2. QED
  BY <1>1, Invariance, PTL

=============================================================================
