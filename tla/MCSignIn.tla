------------------------------ MODULE MCSignIn ------------------------------
EXTENDS SignIn, TLC
MCSymmetry == Permutations(Tabs) \cup Permutations(Accounts)
=============================================================================
