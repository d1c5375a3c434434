------------------------- MODULE MCLauncherRegistry -------------------------
(* LauncherRegistry for TLC.  Launchers and calls are interchangeable, so  *)
(* they come in the order of their names.  Launchers share the slice and   *)
(* nothing else, and calls meet only at one launcher, so there are several *)
(* of the ones or of the others.  What is left out is only what need not   *)
(* happen: that a launcher attaches, disconnects or sends a request of its *)
(* own, and that a call begins.                                            *)
EXTENDS LauncherRegistry, FiniteSets

CONSTANTS l1, l2, l3, c1, c2, c3

Attached == {l \in Launchers : attach[l].at # "idle"}
Begun    == {c \in Callers : caller[c].at # "idle"}

ByName ==
    /\ Attached \in {{}, {l1}, {l1, l2}, {l1, l2, l3}}
    /\ Begun \in {{}, {c1}, {c1, c2}, {c1, c2, c3}}

OnlyAnswers == \A l \in Launchers : own[l] = 0

\* Three launchers; two, and a call that is passed to the first; or one with
\* two calls, or with three while it stays connected and only answers.
Scenario ==
    /\ ByName
    /\ \/ Begun = {} /\ OnlyAnswers
       \/ Cardinality(Attached) = 2 /\ Cardinality(Begun) = 1 /\ OnlyAnswers
       \/ Cardinality(Attached) < 2 /\ Cardinality(Begun) < 3
       \/ Attached = {l1} /\ open[l1] /\ OnlyAnswers

ScenarioSpec == Init /\ [][Next /\ Scenario']_vars /\ Fairness
=============================================================================
