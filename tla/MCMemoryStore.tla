--------------------------- MODULE MCMemoryStore ---------------------------
EXTENDS MemoryStore, TLC

\* Callers and keys are interchangeable (used by the runs without liveness).
Symmetry == Permutations(Caller) \cup Permutations(Key)
=============================================================================
