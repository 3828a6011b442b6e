--------------------------- MODULE MCMemoryRecords ---------------------------
EXTENDS MemoryRecords, TLC

Symmetry == Permutations(Conversations) \cup Permutations(Creators)
=============================================================================
