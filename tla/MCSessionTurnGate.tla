------------------------- MODULE MCSessionTurnGate -------------------------
EXTENDS SessionTurnGate, TLC

Symmetry == Permutations(Tasks) \union Permutations(Sessions) \union Permutations(Locks)
=============================================================================
