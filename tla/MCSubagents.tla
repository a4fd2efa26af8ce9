----------------------------- MODULE MCSubagents -----------------------------
EXTENDS Subagents, TLC

CONSTANTS k1, k2, t1

\* Both children belong to one turn.
MCTurn == k1 :> t1 @@ k2 :> t1
=============================================================================
