----------------------------- MODULE MCRestApi -----------------------------
(* The instance of RestApi for TLC: xud, and one connection of boltz.      *)
EXTENDS RestApi, TLC

CONSTANTS xud, btc

XudAndBoltz == <<<<xud>>, <<btc>>>>

Interchangeable == Permutations(Requests)
=============================================================================
