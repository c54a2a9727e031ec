------------------------- MODULE MCCollectorService -------------------------
EXTENDS CollectorService, TLC
NoOffset == {0}
SetBack  == {0, -3}
=============================================================================
