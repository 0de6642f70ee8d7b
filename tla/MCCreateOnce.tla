---------------------------- MODULE MCCreateOnce ----------------------------
EXTENDS CreateOnce, TLC

Symmetry == Permutations(Request) \cup Permutations(Replica)
=============================================================================
