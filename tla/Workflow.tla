------------------------------ MODULE Workflow ------------------------------
(***************************************************************************)
(* backend/modules/agent/workflow.py: the state of one workflow of several *)
(* child agents, and what its result promises.  WorkflowEngine says how it *)
(* comes about.                                                            *)
(***************************************************************************)
EXTENDS Naturals

CONSTANTS NSlots,
          Conditional,  \* slots with a condition
          Pool          \* places for children that run at once

Slots == 1 .. NSlots

ASSUME WorkflowAssumption ==
    NSlots \in Nat \ {0} /\ Conditional \subseteq Slots /\ Pool \in Nat \ {0}

VARIABLES
    mode,
    deps,       \* slot -> its depends_on
    token,      \* the turn has a cancel token
    stack,      \* of the cycle check: the slots whose _dfs has begun and not returned
    visited,
    todo,       \* slot -> the parents that _dfs has still to look at
    at,         \* where the engine is
    round,      \* of a council
    phase,      \* slot -> SlotPhase; "raised": its task ended with CancelledError
    skipped,    \* slots whose condition was not met
    child,      \* slot -> its child of this round
    failures,   \* slots in _child_failures
    cancelled,  \* it is set
    result      \* what run_outcome returns or raises

Alive == {"queued", "running"}

\* "aborted": its task ends with CancelledError; "lost": its record was deleted.
Ended == {"succeeded", "failed", "called off", "aborted", "lost"}

\* The slots in a phase.
In(p) == {s \in Slots : phase[s] = p}

\* Slots that depend on each other in a circle.
Cyclic == \E S \in SUBSET Slots : S # {} /\ \A s \in S : deps[s] \intersect S # {}

\* A graph is refused exactly if it has a cycle: slots that share a dependency make none
\* (workflow.py:294-311, 486).
OnlyCyclesAreRejected ==
    at \notin {"new", "checking"} => (result = "rejected" <=> Cyclic)

\* No child is made behind a slot that failed or has not ended, however far behind
\* (workflow.py:496-500).
NothingRunsBehindAFailure ==
    \A s \in Slots : child[s] # "none" => deps[s] \subseteq In("done")

\* A workflow that reports success has run every slot to a good end, or skipped it for its
\* condition (workflow.py:108-115).
SuccessIsComplete ==
    result = "success" =>
        \A s \in Slots : phase[s] = "done" /\ (child[s] = "succeeded" \/ s \in skipped)

\* The result of a workflow is there only when all its children have ended, except for
\* graphs that were called off (workflow.py:612-615, 565).
ResultsComeLast ==
    result \notin {"none", "cancelled"} \/ (result = "cancelled" /\ mode # "graph")
        => \A s \in Slots : child[s] \notin Alive

\* What a graph does not do: a terminal result waits for every child that was started
\* (workflow.py:613-614).
NoChildOutlivesItsWorkflow == at = "over" => \A s \in Slots : child[s] \notin Alive
=============================================================================
