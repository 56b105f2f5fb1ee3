--------------------------- MODULE MCPramaanChain ---------------------------
(* A small instance of the contract for TLC. *)
EXTENDS PramaanChain, TLC

\* Neither the hashes nor the accounts without a role at deployment are told apart.
Symmetry == Permutations(Hashes) \cup Permutations(Accounts \ {Deployer})
=============================================================================
