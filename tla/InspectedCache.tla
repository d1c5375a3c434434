--------------------------- MODULE InspectedCache ---------------------------
(***************************************************************************)
(* What a service promises of its cached inspection: the container goes    *)
(* through numbered states, and what the cache shows moves from older ones *)
(* to newer ones, never back and never ahead of the container.  Module     *)
(* ServiceManager implements it, for every name, as long as initContainer  *)
(* does not interfere; module LogWatcher relies on it.                     *)
(***************************************************************************)
EXTENDS Naturals

VARIABLES
    rev,      \* the state of the container, by its number
    seen      \* the state that is cached

Init == rev = 0 /\ seen = 0

Change == rev' > rev /\ UNCHANGED seen

\* An inspection made in between is stored.
Learn == seen' \in seen..rev /\ UNCHANGED rev

Next == Change \/ Learn

Spec == Init /\ [][Next]_<<rev, seen>>
=============================================================================
