-------------------------- MODULE MCWorkflowEngine --------------------------
EXTENDS WorkflowEngine

\* The first slot always runs, the others may be skipped.
MCConditional == Slots \ {1}
=============================================================================
