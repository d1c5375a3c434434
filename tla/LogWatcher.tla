----------------------------- MODULE LogWatcher -----------------------------
(***************************************************************************)
(* service/lnd/logwatcher.go on top of FollowLogs2 and FollowLogs of       *)
(* service/core/single_container_service.go.  A goroutine follows the log  *)
(* of the lnd container, one stream per run of the container, and the      *)
(* watcher keeps the progress of the Neutrino sync by the lines it is      *)
(* handed.  The end of a stream is handed over as the line "--- EOF ---"   *)
(* and resets the progress.                                                *)
(*                                                                         *)
(* Which run to follow comes from the cached inspection of the container,  *)
(* taken here for what InspectedCache promises of it, and ServiceManager   *)
(* implements.  The channels between reader, follower and watcher hold     *)
(* nothing: a line is read when the watcher takes it.                      *)
(***************************************************************************)
EXTENDS Naturals, Sequences, FiniteSets

CONSTANTS
    MaxHeight,    \* block heights are 1..MaxHeight
    MaxRuns,      \* bound on the runs of the container
    MaxLines      \* bound on the lines of its log

ASSUME WatcherAssumption == {MaxHeight, MaxRuns, MaxLines} \subseteq Nat

VARIABLES
    rev,          \* the state of the container: it starts and stops by turns
    seen,         \* the state in the cached inspection
    log,          \* the log of the container, over all runs
    follower,     \* the goroutine of FollowLogs2
    watcher,      \* where Start is in the handling of a line
    neutrinoSyncing

vars == <<rev, seen, log, follower, watcher, neutrinoSyncing>>

Runs == 0..MaxRuns

Cache == INSTANCE InspectedCache

\* The run the container is in, or was in last, and whether it is on.
Run(r)     == (r + 1) \div 2
Running(r) == r % 2 = 1

\* The lines the four patterns tell apart: p2, p1 and p0.
Kinds == {"syncingTo", "fetchingFrom", "caughtUpAt"}
Line  == [kind : Kinds, height : 1..MaxHeight]
EOF   == [kind |-> "EOF", height |-> 0]

Nothing == [current |-> 0, total |-> 0, done |-> FALSE]

Init ==
    /\ Cache!Init
    /\ log = <<>>
    /\ follower = [at |-> "wait", since |-> 0, upto |-> 0, first |-> 1, pos |-> 1]
    /\ watcher = "idle"
    /\ neutrinoSyncing = Nothing

-----------------------------------------------------------------------------
(* The container and the cache.                                            *)

StartOrStop ==
    /\ rev < 2 * MaxRuns
    /\ rev' = rev + 1
    /\ UNCHANGED <<seen, log, follower, watcher, neutrinoSyncing>>

Write ==
    /\ Running(rev)
    /\ Len(log) < MaxLines
    /\ \E line \in Line : log' = Append(log, [run |-> Run(rev), line |-> line])
    /\ UNCHANGED <<rev, seen, follower, watcher, neutrinoSyncing>>

Learn == Cache!Learn /\ UNCHANGED <<log, follower, watcher, neutrinoSyncing>>

-----------------------------------------------------------------------------
(* The follower.                                                           *)

\* WaitContainerRunning returns; startedAt is that of the cached inspection.
TakeContainer ==
    /\ follower.at = "wait"
    /\ Running(seen)
    /\ follower' = [follower EXCEPT !.at = "open", !.since = Run(seen)]
    /\ UNCHANGED <<rev, seen, log, watcher, neutrinoSyncing>>

\* FollowLogs(startedAt, ""): the stream of the lines from `first' on ends
\* with the run that is on, or was the last, at this moment.
FollowFrom(first) ==
    /\ follower.at = "open"
    /\ follower' = [follower EXCEPT !.at = "follow", !.upto = Run(rev),
                                    !.first = first, !.pos = first]
    /\ UNCHANGED <<rev, seen, log, watcher, neutrinoSyncing>>

\* The first line since the start of the run.
FirstSince(run) == Cardinality({i \in DOMAIN log : log[i].run < run}) + 1

\* Mutants of Follow: the first line is left out; the whole log is read.
FollowLate == FollowFrom(FirstSince(follower.since) + 1)

FollowAll == FollowFrom(1)

Follow == FollowFrom(FirstSince(follower.since))

\* FollowLogs fails.  The error is logged, and after the pause the goroutine
\* ranges over the nil channel that came with it: it never gets any further.
FollowFails ==
    /\ follower.at = "open"
    /\ follower' = [follower EXCEPT !.at = "stuck"]
    /\ UNCHANGED <<rev, seen, log, watcher, neutrinoSyncing>>

InStream(i) == i \in DOMAIN log /\ log[i].run <= follower.upto

StreamEnded ==
    /\ ~InStream(follower.pos)
    /\ Run(rev) > follower.upto \/ ~Running(rev)

-----------------------------------------------------------------------------
(* The watcher: Start, assignment by assignment.                           *)

SetCurrent(n) == neutrinoSyncing' = [neutrinoSyncing EXCEPT !.current = n]

SetTotal(n) == neutrinoSyncing' = [neutrinoSyncing EXCEPT !.total = n]

\* A line is matched against p0, p1 and p2.
TakeLine ==
    /\ follower.at = "follow"
    /\ watcher = "idle"
    /\ InStream(follower.pos)
    /\ LET line == log[follower.pos].line
       IN /\ IF line.kind = "syncingTo"
             THEN SetTotal(line.height)
             ELSE SetCurrent(line.height)
          /\ watcher' = IF line.kind = "caughtUpAt" THEN "level" ELSE "idle"
    /\ follower' = [follower EXCEPT !.pos = @ + 1]
    /\ UNCHANGED <<rev, seen, log>>

\* Mutant of TakeEOF: the channel of the stream is not closed.
TakeEOFAndStay ==
    /\ follower.at = "follow"
    /\ watcher = "idle"
    /\ StreamEnded
    /\ SetCurrent(0)
    /\ watcher' = "resetTotal"
    /\ UNCHANGED <<rev, seen, log, follower>>

\* The line "--- EOF ---" is handed over, and FollowLogs2 goes round.
EndStream ==
    /\ follower.at = "follow"
    /\ watcher = "idle"
    /\ SetCurrent(0)
    /\ watcher' = "resetTotal"
    /\ follower' = [follower EXCEPT !.at = "wait"]
    /\ UNCHANGED <<rev, seen, log>>

TakeEOF == StreamEnded /\ EndStream

\* Any error of the reader is taken for the end of the log: of a stream that
\* breaks the rest is not read, though the container may be running.
StreamBreaks == ~StreamEnded /\ EndStream

\* The lesser of current and total becomes the greater.
Level ==
    /\ watcher = "level"
    /\ IF neutrinoSyncing.current < neutrinoSyncing.total
       THEN SetCurrent(neutrinoSyncing.total)
       ELSE SetTotal(neutrinoSyncing.current)
    /\ watcher' = "setDone"
    /\ UNCHANGED <<rev, seen, log, follower>>

SetDone ==
    /\ watcher = "setDone"
    /\ neutrinoSyncing' = [neutrinoSyncing EXCEPT !.done = TRUE]
    /\ watcher' = "idle"
    /\ UNCHANGED <<rev, seen, log, follower>>

\* Mutant of ResetTotal: total is not reset.
ResetNoTotal ==
    /\ watcher = "resetTotal"
    /\ watcher' = "resetDone"
    /\ UNCHANGED <<rev, seen, log, follower, neutrinoSyncing>>

ResetTotal ==
    /\ watcher = "resetTotal"
    /\ SetTotal(0)
    /\ watcher' = "resetDone"
    /\ UNCHANGED <<rev, seen, log, follower>>

ResetDone ==
    /\ watcher = "resetDone"
    /\ neutrinoSyncing' = [neutrinoSyncing EXCEPT !.done = FALSE]
    /\ watcher' = "idle"
    /\ UNCHANGED <<rev, seen, log, follower>>

Watcher == Level \/ SetDone \/ ResetTotal \/ ResetDone

-----------------------------------------------------------------------------
Next ==
    \/ StartOrStop \/ Write \/ Learn
    \/ TakeContainer \/ Follow \/ FollowFails \/ TakeLine \/ TakeEOF
    \/ StreamBreaks \/ Watcher

Spec == Init /\ [][Next]_vars

(* The goroutines run while they can, and the cache follows the container. *)
(* A stream need not break.                                                *)
Fairness ==
    /\ WF_vars(Learn)
    /\ WF_vars(TakeContainer \/ Follow \/ TakeLine \/ TakeEOF)
    /\ WF_vars(Watcher)

FairSpec == Spec /\ Fairness

-----------------------------------------------------------------------------
Heights == 0..MaxHeight

TypeOK ==
    /\ rev \in 0..(2 * MaxRuns) /\ seen \in 0..rev
    /\ log \in Seq([run : Runs, line : Line])
    /\ follower \in [at : {"wait", "open", "follow", "stuck"}, since : Runs,
                     upto : Runs, first : 1..(Len(log) + 1), pos : 1..(Len(log) + 1)]
    /\ watcher \in {"idle", "level", "setDone", "resetTotal", "resetDone"}
    /\ neutrinoSyncing \in [current : Heights, total : Heights, done : BOOLEAN]

\* What the lines, taken one after the other, say of the sync.
Larger(a, b) == IF a < b THEN b ELSE a

Told(known, entry) ==
    LET h == entry.line.height
    IN CASE entry.line.kind = "syncingTo"    -> [known EXCEPT !.total = h]
         [] entry.line.kind = "fetchingFrom" -> [known EXCEPT !.current = h]
         [] OTHER -> [current |-> Larger(h, known.total),
                      total |-> Larger(h, known.total), done |-> TRUE]

\* The lines from `first' to `last' of the log.
Progress(first, last) ==
    LET upto[i \in (first - 1)..last] ==
          IF i < first THEN Nothing ELSE Told(upto[i - 1], log[i])
    IN upto[last]

(* The progress that is shown is what the lines of the present stream say, *)
(* and nothing between two streams: no trace of an earlier stream is left, *)
(* however the end of one, the reset and the start of the next interleave. *)
ProgressOfStream ==
    watcher = "idle" =>
      neutrinoSyncing = IF follower.at = "follow"
                        THEN Progress(follower.first, follower.pos - 1)
                        ELSE Nothing

(* As long as the cache was up to date when a stream was opened, the       *)
(* stream holds the lines of a single run.  (With an outdated inspection   *)
(* it starts with the lines of an earlier run, and their progress is taken *)
(* for that of the present one.)                                           *)
OneRunPerStream ==
    follower.at = "follow" /\ follower.since = follower.upto
      => \A i \in follower.first..(follower.pos - 1) : log[i].run = follower.since

(* A container that stays up is followed to the end of its log, whatever   *)
(* restarts and broken streams came before, unless FollowLogs failed once: *)
(* after a stream that broke, the next starts with the run again.          *)
CatchesUp ==
    <>[]Running(rev) /\ <>[][~StreamBreaks]_vars =>
      <>[](\/ follower.at = "stuck"
           \/ /\ follower.at = "follow"
              /\ follower.upto = Run(rev)
              /\ follower.pos = Len(log) + 1
              /\ watcher = "idle")
=============================================================================
