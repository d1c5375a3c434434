-------------------------- MODULE MCLauncherAgent --------------------------
(* LauncherAgent for TLC: requests are interchangeable, and one that has   *)
(* stalled is, for what may never happen, one that takes no step.          *)
EXTENDS LauncherAgent, TLC

Symmetry == Permutations(Clients)

NoStall == \A c \in Clients : client[c].at # "stalled"
=============================================================================
