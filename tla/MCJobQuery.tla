----------------------------- MODULE MCJobQuery -----------------------------
EXTENDS JobQuery, TLC
Symmetry == Permutations(Requests)
=============================================================================
