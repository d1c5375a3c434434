----------------------------- MODULE MCConsole -----------------------------
(* Instances of Console for TLC. *)
EXTENDS Console, TLC

Interchangeable == Permutations(Conns) \cup Permutations(Ids)
=============================================================================
