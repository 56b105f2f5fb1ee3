---------------------------- MODULE MCVerification ----------------------------
EXTENDS Verification, TLC
Symmetry == Permutations(Hashes) \cup Permutations(Slots)
=============================================================================
