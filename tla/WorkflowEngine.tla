--------------------------- MODULE WorkflowEngine ---------------------------
(***************************************************************************)
(* backend/modules/agent/workflow.py: how a Workflow is run, as a pipeline, *)
(* a dependency graph or a council of two rounds.                          *)
(*                                                                         *)
(* The engine dispatches slots (stages, members), each of which awaits its *)
(* child in a task of asyncio.gather's.  A child waits for a place in the  *)
(* pool of the subagent manager (see Subagents) and then runs; cancelled   *)
(* while it waits it takes the slot that awaits it along (its CancelledError *)
(* is no Exception), cancelled while it runs it ends with a structured     *)
(* outcome.  All share one cancel token, if the turn has one.              *)
(*                                                                         *)
(* Prompts and outputs are left out: a condition on an output may hold or  *)
(* not.  Faulty variants stand before the definitions they replace.        *)
(***************************************************************************)
EXTENDS Workflow, FiniteSets, SequencesExt

graph == <<mode, deps, token>>
search == <<stack, visited, todo>>
vars == <<graph, search, at, round, phase, skipped, child, failures, cancelled, result>>

TypeOK ==
    /\ mode \in {"pipeline", "graph", "council"}
    /\ deps \in [Slots -> SUBSET Slots]
    /\ stack \in Seq(Slots) /\ visited \subseteq Slots /\ todo \in [Slots -> SUBSET Slots]
    /\ at \in {"new", "checking", "scheduling", "launching", "gathering", "over"}
    /\ round \in 1 .. 2
    /\ phase \in [Slots -> {"waiting", "active", "done", "failed", "raised"}]
    /\ skipped \subseteq Slots /\ failures \subseteq Slots
    /\ child \in [Slots -> {"none"} \union Alive \union Ended]
    /\ token \in BOOLEAN /\ cancelled \in BOOLEAN
    /\ result \in {"none", "rejected", "success", "failure", "cancelled", "raised"}

Init ==
    /\ mode \in {"pipeline", "graph", "council"}
    /\ deps \in IF mode = "graph" THEN [Slots -> SUBSET Slots] ELSE {[s \in Slots |-> {}]}
    /\ stack = <<>> /\ visited = {} /\ todo = deps
    /\ at = "new" /\ round = 1
    /\ phase = [s \in Slots |-> "waiting"]
    /\ skipped = {} /\ failures = {}
    /\ child = [s \in Slots |-> "none"]
    /\ token \in BOOLEAN /\ cancelled = FALSE
    /\ result = "none"

Set(S, p) == [s \in Slots |-> IF s \in S THEN p ELSE phase[s]]

Over(r) == at' = "over" /\ result' = r

-----------------------------------------------------------------------------
(***************************************************************************)
(* _detect_cycle: depth first along depends_on.  Its calls are steps, and  *)
(* nothing comes between them; the orders of slots and of their            *)
(* dependencies, which the user chose, are left open.                      *)
(***************************************************************************)
AnySeen(parent) == TRUE

\* in_stack, for a slot that was visited.
OnPath(parent) == parent \in ToSet(stack)

BeginsCheck ==
    /\ at = "new" /\ mode = "graph"
    /\ at' = "checking"
    /\ UNCHANGED <<graph, search, round, phase, skipped, child, failures, cancelled, result>>

\* The call of _dfs.
Visit(n) == stack' = Append(stack, n) /\ visited' = visited \union {n}

Root(n) ==
    /\ at = "checking" /\ stack = <<>> /\ n \notin visited
    /\ Visit(n)
    /\ UNCHANGED <<graph, todo, at, round, phase, skipped, child, failures, cancelled, result>>

\* The next of the parents of the slot at the top.
Looks(parent) ==
    /\ at = "checking" /\ stack # <<>> /\ parent \in todo[Last(stack)]
    /\ todo' = [todo EXCEPT ![Last(stack)] = @ \ {parent}]

LooksUp(parent) ==
    /\ Looks(parent) /\ (parent \in visited => ~OnPath(parent))
    /\ IF parent \in visited THEN UNCHANGED <<stack, visited>> ELSE Visit(parent)
    /\ UNCHANGED <<graph, at, round, phase, skipped, child, failures, cancelled, result>>

\* A cycle: the exception leaves run_graph.
Rejects(parent) ==
    /\ Looks(parent) /\ parent \in visited /\ OnPath(parent)
    /\ Over("rejected")
    /\ UNCHANGED <<graph, stack, visited, round, phase, skipped, child, failures, cancelled>>

Returns ==
    /\ at = "checking" /\ stack # <<>> /\ todo[Last(stack)] = {}
    /\ stack' = Front(stack)
    /\ UNCHANGED <<graph, visited, todo, at, round, phase, skipped, child, failures, cancelled,
                   result>>

Accepts ==
    /\ at = "checking" /\ stack = <<>> /\ visited = Slots
    /\ at' = "scheduling"
    /\ UNCHANGED <<graph, search, round, phase, skipped, child, failures, cancelled, result>>

Check ==
    \/ BeginsCheck \/ Returns \/ Accepts
    \/ \E n \in Slots : Root(n) \/ LooksUp(n) \/ Rejects(n)

-----------------------------------------------------------------------------
(***************************************************************************)
(* The engine.                                                             *)
(***************************************************************************)
\* Pipelines and councils have nothing to check.
Begins ==
    /\ at = "new" /\ mode # "graph"
    /\ at' = "scheduling"
    /\ UNCHANGED <<graph, search, round, phase, skipped, child, failures, cancelled, result>>

\* The check at the top of a pass of the loop, a stage, or the second round.
CalledOff ==
    /\ at = "scheduling" /\ cancelled
    /\ mode = "council" => round = 2
    /\ mode \in {"graph", "pipeline"} => In("waiting") # {}
    /\ Over("cancelled")
    /\ UNCHANGED <<graph, search, round, phase, skipped, child, failures, cancelled>>

Proceeds == at = "scheduling" /\ ~(cancelled /\ (mode = "council" => round = 2))

\* A slot that failed counts as settled.
ReadyWhenSettled ==
    {s \in In("waiting") : deps[s] \subseteq In("done") \union In("failed")}

\* A slot that was skipped is done.
Ready == {s \in In("waiting") : deps[s] \subseteq In("done")}

\* The slots of a round of gather: of the ready ones those whose condition is met; the next
\* stage; all members.
Dispatch(S) ==
    /\ Proceeds
    /\ \/ mode = "graph" /\ S \subseteq Ready /\ Ready # {} /\ Ready \ S \subseteq Conditional
       \/ mode = "pipeline" /\ \E s \in In("waiting") : S = {s} /\ \A r \in In("waiting") : s <= r
       \/ mode = "council" /\ S = Slots
    /\ phase' = [s \in Slots |-> IF s \in S THEN "active"
                                 ELSE IF mode = "graph" /\ s \in Ready THEN "done"
                                 ELSE phase[s]]
    /\ skipped' = IF mode = "graph" THEN skipped \union (Ready \ S) ELSE skipped
    /\ at' = IF S = {} THEN "scheduling" ELSE "launching"
    /\ child' = [s \in Slots |-> IF s \in S THEN "none" ELSE child[s]]
    /\ UNCHANGED <<graph, search, round, failures, cancelled, result>>

\* No slot is ready: the loop goes on as long as slots wait.
NeverBlocked == FALSE /\ UNCHANGED vars

\* No slot is ready: those right behind a failed one are marked, and the loop is left.
Blocked ==
    /\ Proceeds /\ mode = "graph" /\ In("waiting") # {} /\ Ready = {}
    /\ phase' = Set({s \in In("waiting") : deps[s] \intersect In("failed") # {}}, "failed")
    /\ Over(IF failures = {} THEN "success" ELSE "failure")
    /\ UNCHANGED <<graph, search, round, skipped, child, failures, cancelled>>

Finishes ==
    /\ at = "scheduling" /\ mode # "council" /\ In("waiting") = {}
    /\ Over(IF failures = {} THEN "success" ELSE "failure")
    /\ UNCHANGED <<graph, search, round, phase, skipped, child, failures, cancelled>>

\* The slots' tasks begin together: each asks the token and creates its child.
Launch ==
    /\ at = "launching"
    /\ IF cancelled
       THEN /\ phase' = Set(In("active"), "raised")
            /\ Over("cancelled")
            /\ UNCHANGED child
       ELSE /\ child' = [s \in Slots |-> IF phase[s] = "active" THEN "queued" ELSE child[s]]
            /\ at' = "gathering"
            /\ UNCHANGED <<phase, result>>
    /\ UNCHANGED <<graph, search, round, skipped, failures, cancelled>>

-----------------------------------------------------------------------------
(***************************************************************************)
(* Children, and the slots that await them.                                *)
(***************************************************************************)
GetsPlace(s) ==
    /\ child[s] = "queued"
    /\ Cardinality({r \in Slots : child[r] = "running"}) < Pool
    /\ child' = [child EXCEPT ![s] = "running"]
    /\ UNCHANGED <<graph, search, at, round, phase, skipped, failures, cancelled, result>>

\* One that was called off, or fails, still ends with an outcome; but a cancellation that comes
\* before the first step of its runner, or while its record is written, leaves its task, and
\* the record may be deleted before the slot has read it.  Without a token nothing but its
\* end tells that a running child was called off.
ChildEnds(s) ==
    /\ child[s] = "running"
    /\ \E o \in IF cancelled \/ ~token THEN Ended ELSE Ended \ {"called off"} :
         child' = [child EXCEPT ![s] = o]
    /\ UNCHANGED <<graph, search, at, round, phase, skipped, failures, cancelled, result>>

\* The user cancels one child: the token it sets, if it has one, is the workflow's.
CancelChild(s) ==
    /\ child[s] \in Alive
    /\ cancelled' = token
    /\ child' = [child EXCEPT ![s] = IF @ = "queued" THEN "aborted" ELSE @]
    /\ UNCHANGED <<graph, search, at, round, phase, skipped, failures, result>>

\* The user stops the turn.
CancelTurn ==
    /\ token /\ ~cancelled /\ at \in {"new", "launching", "gathering"}
    /\ cancelled' = TRUE
    /\ UNCHANGED <<graph, search, at, round, phase, skipped, child, failures, result>>

\* What the end of a slot means to the engine, if it is still there: a pipeline awaits its
\* stage; gather passes on the first CancelledError, a council's gather collects them.
RaisesAtOnce(m) == TRUE

Raises(m) == m # "council"

NothingRecorded(s) == failures

\* What a child reports; the exception for a lost record counts where _run_slot catches it.
WithFailure(s) ==
    IF child[s] \in {"failed", "called off"} \/ (child[s] = "lost" /\ mode = "graph")
    THEN failures \union {s} ELSE failures

SlotEnds(s) ==
    /\ phase[s] = "active" /\ child[s] \in Ended
    /\ failures' = WithFailure(s)
    /\ phase' = [phase EXCEPT ![s] = CASE child[s] = "succeeded" -> "done"
                                       [] child[s] = "aborted" -> "raised"
                                       [] OTHER -> "failed"]
    /\ IF at = "gathering" /\ child[s] = "aborted" /\ Raises(mode)
       THEN Over("cancelled")
       ELSE IF at = "gathering" /\ child[s] # "succeeded" /\ mode = "pipeline"
       THEN Over(IF child[s] = "lost" THEN "raised" ELSE "failure")
       ELSE UNCHANGED <<at, result>>
    /\ UNCHANGED <<graph, search, round, skipped, child, cancelled>>

Gathered ==
    /\ at = "gathering" /\ mode # "council" /\ In("active") = {}
    /\ at' = "scheduling"
    /\ UNCHANGED <<graph, search, round, phase, skipped, child, failures, cancelled, result>>

\* _finish_round: the first of the errors counts, unless a child reported a failure.  Then
\* with or without a second round.
RoundEnds ==
    /\ at = "gathering" /\ mode = "council" /\ In("active") = {}
    /\ \/ In("done") # Slots
          /\ \E s \in Slots \ In("done") :
                Over(CASE failures # {} -> "failure"
                       [] failures = {} /\ phase[s] = "raised" -> "cancelled"
                       [] OTHER -> "raised")
          /\ UNCHANGED round
       \/ In("done") = Slots /\ round = 1
          /\ at' = "scheduling" /\ round' = 2 /\ UNCHANGED result
       \/ In("done") = Slots /\ (round = 2 \/ ~cancelled)
          /\ Over("success") /\ UNCHANGED round
    /\ UNCHANGED <<graph, search, phase, skipped, child, failures, cancelled>>

-----------------------------------------------------------------------------
Engine ==
    \/ Check
    \/ Begins \/ CalledOff \/ Blocked \/ Finishes \/ Launch
    \/ \E S \in SUBSET Slots : Dispatch(S)
    \/ Gathered \/ RoundEnds

Child(s) == GetsPlace(s) \/ ChildEnds(s) \/ SlotEnds(s)

Next == Engine \/ (\E s \in Slots : Child(s) \/ CancelChild(s)) \/ CancelTurn

Spec == Init /\ [][Next]_vars

\* asyncio runs what is ready, and every child ends (Subagents!ChildrenEnd).
FairSpec ==
    /\ Spec
    /\ WF_vars(Engine)
    /\ \A s \in Slots : WF_vars(ChildEnds(s) \/ SlotEnds(s)) /\ SF_vars(GetsPlace(s))

\* Every workflow ends if its children do.
WorkflowsEnd == <>(at = "over")
=============================================================================
