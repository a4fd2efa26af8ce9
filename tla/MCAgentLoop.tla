----------------------------- MODULE MCAgentLoop -----------------------------
(***************************************************************************)
(* Model values for AgentLoop.                                             *)
(***************************************************************************)
EXTENDS AgentLoop

CONSTANTS read, run, i1

TwoTools == {read, run}
Workflow == {run}
TwoIds == {i1, NoId}
=============================================================================
