---------------------------- MODULE MCGameStore ----------------------------
EXTENDS GameStore, TLC

Symmetry == Permutations(Proc) \cup Permutations(Name)
=============================================================================
