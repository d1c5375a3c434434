----------------------------- MODULE MCGrpcConn -----------------------------
(* The instance of GrpcConn for TLC: boltz, which closes one of its two    *)
(* connections after the other.                                            *)
EXTENDS GrpcConn

CONSTANTS btc, ltc

BoltzAlone == <<<<btc, ltc>>>>
=============================================================================
