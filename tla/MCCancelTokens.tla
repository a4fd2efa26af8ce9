--------------------------- MODULE MCCancelTokens ---------------------------
EXTENDS CancelTokens
CONSTANTS c1, c2, m1, m2, s1, x1
=============================================================================
