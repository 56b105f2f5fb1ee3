-------------------------- MODULE MCGatewayWrites --------------------------
(* A small instance of the gateway's writes for TLC. *)
EXTENDS GatewayWrites, TLC

Symmetry == Permutations(Names) \cup Permutations(Hashes)
=============================================================================
