----------------------------- MODULE MCIdentity -----------------------------
EXTENDS Identity, TLC

Symmetry == Permutations(Processes) \cup Permutations(UUIDs)
=============================================================================
