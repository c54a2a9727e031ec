----------------------------- MODULE MCSources -----------------------------
EXTENDS Sources, TLC
=============================================================================
