------------------------- MODULE MCOperationLedger -------------------------
EXTENDS OperationLedger
CONSTANTS o1, o2, i1, i2, c1, c2

TwoOps == {o1, o2}
TwoInvocations == {i1, i2}
TwoCallers == {c1, c2}
=============================================================================
