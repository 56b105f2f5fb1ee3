--------------------------- MODULE MCAppWorkflow ---------------------------
(* Small instances of the application backend for TLC. *)
EXTENDS AppWorkflow, TLC

Symmetry == Permutations(Requests) \cup Permutations(Hashes)
                \cup Permutations(Calls) \cup Permutations(Accounts \ {Deployer})
                \cup Permutations(Institutions)
=============================================================================
