----------------------------- MODULE MCLsfScan -----------------------------
EXTENDS LsfScan, TLC
AnyCaller == Permutations(Callers)
=============================================================================
