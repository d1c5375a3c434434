-------------------------- MODULE MCServiceManager --------------------------
(* ServiceManager for TLC: the instances are in the configurations. *)
EXTENDS ServiceManager
=============================================================================
