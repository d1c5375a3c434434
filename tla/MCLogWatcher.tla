---------------------------- MODULE MCLogWatcher ----------------------------
(* Instances of LogWatcher for TLC. *)
EXTENDS LogWatcher
=============================================================================
