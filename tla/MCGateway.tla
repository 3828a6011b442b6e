------------------------------ MODULE MCGateway ------------------------------
EXTENDS Gateway, TLC

Symmetry == Permutations(Clients) \cup Permutations(Conversations) \cup Permutations(Slots)
=============================================================================
