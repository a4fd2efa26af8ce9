-------------------------- MODULE SubagentsProofs --------------------------
(***************************************************************************)
(* Proofs about Subagents: the pool of children is respected, no child     *)
(* works that cannot be stopped, whoever waits for a child finds a result, *)
(* what was reported stays true, and the manager implements ChildPool, for *)
(* every number of children, of turns and of places.  And about            *)
(* WorkflowEngine, whose slots await such children: graphs with a cycle,   *)
(* and only they, are refused, success is complete, and results come last, *)
(* for every number of slots.                                              *)
(*                                                                         *)
(* The pool is counted by where _run_task is, the children that work by    *)
(* where their runners are; RunnerInPool relates the two.                  *)
(***************************************************************************)
EXTENDS Subagents, Workflow, FiniteSetTheorems, SequenceTheorems, TLAPS

\* A child is started once: the record is there before the task is.
StartedOnce ==
    \A k \in Tasks : /\ status[k] = "absent" => opc[k] = "none" /\ spc[k] = "idle"
                     /\ spc[k] = "creating" => opc[k] = "none" /\ k \in Spawned

\* A runner has not ended only while its _run_task awaits it.
RunnerInPool == \A k \in Tasks : rpc[k] \notin {"none", "ended"} => opc[k] = "awaiting"

\* A child that waits for its place can be stopped or is being stopped.
QueuedCanBeStopped ==
    \A k \in Tasks : opc[k] \in {"new", "queued"} => k \in running \union ocancel

\* No more places are taken than there are.
PoolCount == Cardinality(InPool) <= MaxConcurrent

\* A child whose result can be read: it has ended for good, and there is an outcome for a spawn
\* tool that finds the record.
Readable(k) ==
    /\ status[k] \in Terminal
    /\ k \in Spawned \intersect listed => outcome[k] # "none"

\* Before _run_task has its place there is no runner, and before it exists nothing can be
\* stopped or settled.
RunnersComeLater ==
    \A k \in Tasks :
        /\ rpc[k] # "none" \/ k \in rcancel => opc[k] \notin {"none", "new", "queued"}
        /\ k \in done \union running \union ocancel => opc[k] # "none"

\* A child that is cancelled before its runner has begun was settled by whoever cancelled it,
\* unless it is a workflow's or its record was deleted, and does not begin.
EarlyStopsAreSettled ==
    \A k \in Tasks :
        /\ opc[k] \in {"new", "queued"} /\ k \in done => k \in ocancel
        /\ opc[k] \in {"new", "queued"} /\ k \in ocancel /\ k \in Spawned \intersect listed
              => Readable(k)
        /\ rpc[k] = "new" /\ k \in rcancel /\ k \in Spawned \intersect listed => Readable(k)
        /\ opc[k] \in {"none", "new", "queued"} /\ k \notin ocancel => outcome[k] = "none"
        /\ rpc[k] = "new" => outcome[k] = "none" \/ Readable(k)

\* A child that is past its work has a result; the exception is one that ended with the
\* CancelledError that came before its first step.
EndsAreReadable ==
    \A k \in Tasks :
        /\ k \in done => Readable(k)
        /\ rpc[k] \in {"saving", "savingStop"} => Readable(k)
        /\ opc[k] \in {"saving", "savingCancel"} => Readable(k)
        /\ opc[k] = "awaiting" /\ rpc[k] = "ended" =>
              \/ Readable(k)
              \/ k \in escaped /\ outcome[k] = "none" /\ k \notin Spawned \intersect listed

\* As long as a child has not ended an UNKNOWN outcome is the one it would be given again.
UnknownIsMeant ==
    \A k \in Tasks : outcome[k] = "UNKNOWN" /\ opc[k] # "ended" => PossibleEffect(k)

\* A child that is done, or has reached its time limit, or seemed inactive, does not go on working:
\* it is being cancelled; and a child that is done did not complete.
DoneIsStopped ==
    \A k \in Tasks :
        /\ rpc[k] \in {"new", "running"} /\ k \in done => k \in rcancel
        /\ rpc[k] = "saving" => status[k] = "COMPLETED" /\ k \notin done
        /\ k \in expired \union inactive => opc[k] = "awaiting" /\ rpc[k] # "new"
        /\ k \in expired \union inactive /\ rpc[k] = "running" => k \in rcancel

\* A child that cancel_task has settled, and what its runner makes of it when it stops.
SettledFirst(k) ==
    \/ status[k] = "CANCELLED"
    \/ /\ status[k] = "FAILED" /\ rpc[k] \in {"savingStop", "ended"}
       /\ outcome[k] \in {"UNKNOWN", "TIMED_OUT"}

\* A child that is done while it has still to end is on a token that is set, and the spawn tool
\* does not report the result of such a child; or it has no token, and was settled first.
ReportsComeLast ==
    \A k \in Tasks :
        /\ k \in done /\ opc[k] \notin {"settling", "ended"} =>
              IF Turn[k] \in tokens THEN Turn[k] \in stopped ELSE SettledFirst(k)
        /\ spc[k] = "child" => /\ k \in done /\ outcome[k] # "none"
                               /\ Turn[k] \in tokens => opc[k] \in {"settling", "ended"}

\* The inductive invariant.
IInv ==
    /\ TypeOK
    /\ StartedOnce
    /\ RunnerInPool
    /\ QueuedCanBeStopped
    /\ NoGhosts
    /\ PoolCount
    /\ RunnersComeLater
    /\ EarlyStopsAreSettled
    /\ EndsAreReadable
    /\ UnknownIsMeant
    /\ DoneIsStopped
    /\ ReportsComeLast

-----------------------------------------------------------------------------
(***************************************************************************)
(* Each part of the invariant is kept by every step.                       *)
(***************************************************************************)

\* Every variable keeps its type.
LEMMA TypeStep ==
    ASSUME TypeOK, Next
    PROVE  TypeOK'
<1> USE SubagentAssumption DEF TypeOK, Unfinished, Terminal, Outcomes, OuterPCs, RunnerPCs, SpawnPCs,
            PossibleEffect, CancelledOutcome, TimeoutOutcome,
            record, tables, runner, marks, tools, turns
<1>1. ASSUME NEW k \in Tasks, Spawn(k) PROVE TypeOK'
  BY <1>1 DEF Spawn, Create
<1>2. ASSUME NEW k \in Tasks, Invoke(k) PROVE TypeOK'
  BY <1>2 DEF Invoke, Create
<1>3. ASSUME NEW k \in Tasks, SpawnExecute(k) PROVE TypeOK'
  BY <1>3 DEF SpawnExecute, SetRecord
<1>4. ASSUME NEW k \in Tasks, SpawnError(k) PROVE TypeOK'
  BY <1>4 DEF SpawnError
<1>5. ASSUME NEW k \in Tasks, SpawnGivesUp(k) PROVE TypeOK'
  BY <1>5 DEF SpawnGivesUp
<1>6. ASSUME NEW k \in Tasks, SpawnReturns(k) PROVE TypeOK'
  BY <1>6 DEF SpawnReturns, CancelTask, SetToken, CancelOuter, Settle, SetRecord
<1>7. ASSUME NEW k \in Tasks, SpawnAbandons(k) PROVE TypeOK'
  BY <1>7 DEF SpawnAbandons
<1>8. ASSUME NEW k \in Tasks, Enter(k) PROVE TypeOK'
  BY <1>8 DEF Enter, InPool
<1>9. ASSUME NEW k \in Tasks, Queue(k) PROVE TypeOK'
  BY <1>9 DEF Queue
<1>10. ASSUME NEW k \in Tasks, CancelledNew(k) PROVE TypeOK'
  BY <1>10 DEF CancelledNew
<1>11. ASSUME NEW k \in Tasks, CancelledQueued(k) PROVE TypeOK'
  BY <1>11 DEF CancelledQueued, EndOuter
<1>12. ASSUME NEW k \in Tasks, RunnerEnded(k) PROVE TypeOK'
  BY <1>12 DEF RunnerEnded, EndOuter, SetRecord
<1>13. ASSUME NEW k \in Tasks, Saved(k) PROVE TypeOK'
  BY <1>13 DEF Saved, EndOuter
<1>14. ASSUME NEW k \in Tasks, Settled(k) PROVE TypeOK'
  BY <1>14 DEF Settled, Settle, SetRecord
<1>15. ASSUME NEW k \in Tasks, StartRunner(k) PROVE TypeOK'
  BY <1>15 DEF StartRunner
<1>16. ASSUME NEW k \in Tasks, Escape(k) PROVE TypeOK'
  BY <1>16 DEF Escape
<1>17. ASSUME NEW k \in Tasks, BeginTool(k) PROVE TypeOK'
  BY <1>17 DEF BeginTool, Working
<1>18. ASSUME NEW k \in Tasks, EndTool(k) PROVE TypeOK'
  BY <1>18 DEF EndTool, Working
<1>19. ASSUME NEW k \in Tasks, Stopped(k) PROVE TypeOK'
  BY <1>19 DEF Stopped, StopWith, SetRecord
<1>20. ASSUME NEW k \in Tasks, ToolUnknown(k) PROVE TypeOK'
  BY <1>20 DEF ToolUnknown, StopWith, SetRecord
<1>21. ASSUME NEW k \in Tasks, ToolCancelled(k) PROVE TypeOK'
  BY <1>21 DEF ToolCancelled, StopWith, SetRecord, Working
<1>22. ASSUME NEW k \in Tasks, Complete(k) PROVE TypeOK'
  BY <1>22 DEF Complete, Working, SetRecord
<1>23. ASSUME NEW k \in Tasks, Raise(k) PROVE TypeOK'
  BY <1>23 DEF Raise, Working, SetRecord
<1>24. ASSUME NEW k \in Tasks, RecordSaved(k) PROVE TypeOK'
  BY <1>24 DEF RecordSaved
<1>25. ASSUME NEW k \in Tasks, UserCancels(k) PROVE TypeOK'
  BY <1>25 DEF UserCancels, CancelTask, SetToken, CancelOuter, Settle, SetRecord
<1>26. ASSUME NEW k \in Tasks, Delete(k) PROVE TypeOK'
  BY <1>26 DEF Delete, SetToken, CancelOuter
<1>27. ASSUME NEW k \in Tasks, WorkflowCancelled(k) PROVE TypeOK'
  BY <1>27 DEF WorkflowCancelled, CancelOuter
<1>28. ASSUME NEW k \in Tasks, TimeLimit(k) PROVE TypeOK'
  BY <1>28 DEF TimeLimit, CancelOuter
<1>29. ASSUME NEW k \in Tasks, Watchdog(k) PROVE TypeOK'
  BY <1>29 DEF Watchdog
<1>30. ASSUME NEW t \in Turns, StopTurn(t) PROVE TypeOK'
  BY <1>30 DEF StopTurn
<1> QED
  BY <1>1, <1>2, <1>3, <1>4, <1>5, <1>6, <1>7, <1>8, <1>9, <1>10, <1>11, <1>12, <1>13, <1>14, <1>15,
     <1>16, <1>17, <1>18, <1>19, <1>20, <1>21, <1>22, <1>23, <1>24, <1>25, <1>26, <1>27, <1>28, <1>29, <1>30
  DEF Next, CallerStep, OuterStep, RunnerStep

\* Spawn and Invoke find no task yet, and execute_task is called once for a record.
LEMMA StartedStep ==
    ASSUME TypeOK, StartedOnce, Next
    PROVE  StartedOnce'
<1> USE SubagentAssumption DEF TypeOK, StartedOnce, Unfinished, OuterPCs,
            record, tables, runner, marks, tools, turns
<1>1. ASSUME NEW k \in Tasks, Spawn(k) PROVE StartedOnce'
  BY <1>1 DEF Spawn, Create
<1>2. ASSUME NEW k \in Tasks, Invoke(k) PROVE StartedOnce'
  BY <1>2 DEF Invoke, Create
<1>3. ASSUME NEW k \in Tasks, SpawnExecute(k) PROVE StartedOnce'
  BY <1>3 DEF SpawnExecute, SetRecord
<1>4. ASSUME NEW k \in Tasks, SpawnError(k) PROVE StartedOnce'
  BY <1>4 DEF SpawnError
<1>5. ASSUME NEW k \in Tasks, SpawnGivesUp(k) PROVE StartedOnce'
  BY <1>5 DEF SpawnGivesUp
<1>6. ASSUME NEW k \in Tasks, SpawnReturns(k) PROVE StartedOnce'
  BY <1>6 DEF SpawnReturns, CancelTask, SetToken, CancelOuter, Settle, SetRecord
<1>7. ASSUME NEW k \in Tasks, SpawnAbandons(k) PROVE StartedOnce'
  BY <1>7 DEF SpawnAbandons
<1>8. ASSUME NEW k \in Tasks, Enter(k) PROVE StartedOnce'
  BY <1>8 DEF Enter, InPool
<1>9. ASSUME NEW k \in Tasks, Queue(k) PROVE StartedOnce'
  BY <1>9 DEF Queue
<1>10. ASSUME NEW k \in Tasks, CancelledNew(k) PROVE StartedOnce'
  BY <1>10 DEF CancelledNew
<1>11. ASSUME NEW k \in Tasks, CancelledQueued(k) PROVE StartedOnce'
  BY <1>11 DEF CancelledQueued, EndOuter
<1>12. ASSUME NEW k \in Tasks, RunnerEnded(k) PROVE StartedOnce'
  BY <1>12 DEF RunnerEnded, EndOuter, SetRecord
<1>13. ASSUME NEW k \in Tasks, Saved(k) PROVE StartedOnce'
  BY <1>13 DEF Saved, EndOuter
<1>14. ASSUME NEW k \in Tasks, Settled(k) PROVE StartedOnce'
  BY <1>14 DEF Settled, Settle, SetRecord
<1>15. ASSUME NEW k \in Tasks, StartRunner(k) PROVE StartedOnce'
  BY <1>15 DEF StartRunner
<1>16. ASSUME NEW k \in Tasks, Escape(k) PROVE StartedOnce'
  BY <1>16 DEF Escape
<1>17. ASSUME NEW k \in Tasks, BeginTool(k) PROVE StartedOnce'
  BY <1>17 DEF BeginTool, Working
<1>18. ASSUME NEW k \in Tasks, EndTool(k) PROVE StartedOnce'
  BY <1>18 DEF EndTool, Working
<1>19. ASSUME NEW k \in Tasks, Stopped(k) PROVE StartedOnce'
  BY <1>19 DEF Stopped, StopWith, SetRecord
<1>20. ASSUME NEW k \in Tasks, ToolUnknown(k) PROVE StartedOnce'
  BY <1>20 DEF ToolUnknown, StopWith, SetRecord
<1>21. ASSUME NEW k \in Tasks, ToolCancelled(k) PROVE StartedOnce'
  BY <1>21 DEF ToolCancelled, StopWith, SetRecord, Working
<1>22. ASSUME NEW k \in Tasks, Complete(k) PROVE StartedOnce'
  BY <1>22 DEF Complete, Working, SetRecord
<1>23. ASSUME NEW k \in Tasks, Raise(k) PROVE StartedOnce'
  BY <1>23 DEF Raise, Working, SetRecord
<1>24. ASSUME NEW k \in Tasks, RecordSaved(k) PROVE StartedOnce'
  BY <1>24 DEF RecordSaved
<1>25. ASSUME NEW k \in Tasks, UserCancels(k) PROVE StartedOnce'
  BY <1>25 DEF UserCancels, CancelTask, SetToken, CancelOuter, Settle, SetRecord
<1>26. ASSUME NEW k \in Tasks, Delete(k) PROVE StartedOnce'
  BY <1>26 DEF Delete, SetToken, CancelOuter
<1>27. ASSUME NEW k \in Tasks, WorkflowCancelled(k) PROVE StartedOnce'
  BY <1>27 DEF WorkflowCancelled, CancelOuter
<1>28. ASSUME NEW k \in Tasks, TimeLimit(k) PROVE StartedOnce'
  BY <1>28 DEF TimeLimit, CancelOuter
<1>29. ASSUME NEW k \in Tasks, Watchdog(k) PROVE StartedOnce'
  BY <1>29 DEF Watchdog
<1>30. ASSUME NEW t \in Turns, StopTurn(t) PROVE StartedOnce'
  BY <1>30 DEF StopTurn
<1> QED
  BY <1>1, <1>2, <1>3, <1>4, <1>5, <1>6, <1>7, <1>8, <1>9, <1>10, <1>11, <1>12, <1>13, <1>14, <1>15,
     <1>16, <1>17, <1>18, <1>19, <1>20, <1>21, <1>22, <1>23, <1>24, <1>25, <1>26, <1>27, <1>28, <1>29, <1>30
  DEF Next, CallerStep, OuterStep, RunnerStep

\* _run_task leaves its await only when the runner has ended: a cancellation that finds it
\* there goes to the runner.
LEMMA RunnerStepInPool ==
    ASSUME TypeOK, StartedOnce, RunnerInPool, Next
    PROVE  RunnerInPool'
<1> USE SubagentAssumption DEF TypeOK, StartedOnce, RunnerInPool, OuterPCs, RunnerPCs,
            record, tables, runner, marks, tools, turns
<1>1. ASSUME NEW k \in Tasks, Spawn(k) PROVE RunnerInPool'
  BY <1>1 DEF Spawn, Create
<1>2. ASSUME NEW k \in Tasks, Invoke(k) PROVE RunnerInPool'
  <2>1. opc[k] = "none" /\ rpc[k] \in {"none", "ended"}
    BY <1>2, SMTT(30) DEF Invoke, Create
  <2>2. opc' = [opc EXCEPT ![k] = "new"] /\ rpc' = rpc
    BY <1>2 DEF Invoke
  <2> QED BY <2>1, <2>2
<1>3. ASSUME NEW k \in Tasks, SpawnExecute(k) PROVE RunnerInPool'
  <2>1. opc[k] = "none" /\ rpc[k] \in {"none", "ended"}
    BY <1>3, SMTT(30) DEF SpawnExecute
  <2>2. opc' = [opc EXCEPT ![k] = "new"] /\ rpc' = rpc
    BY <1>3 DEF SpawnExecute
  <2> QED BY <2>1, <2>2
<1>4. ASSUME NEW k \in Tasks, SpawnError(k) PROVE RunnerInPool'
  BY <1>4 DEF SpawnError
<1>5. ASSUME NEW k \in Tasks, SpawnGivesUp(k) PROVE RunnerInPool'
  BY <1>5 DEF SpawnGivesUp
<1>6. ASSUME NEW k \in Tasks, SpawnReturns(k) PROVE RunnerInPool'
  BY <1>6 DEF SpawnReturns, CancelTask, SetToken, CancelOuter, Settle, SetRecord
<1>7. ASSUME NEW k \in Tasks, SpawnAbandons(k) PROVE RunnerInPool'
  BY <1>7 DEF SpawnAbandons
<1>8. ASSUME NEW k \in Tasks, Enter(k) PROVE RunnerInPool'
  BY <1>8 DEF Enter
<1>9. ASSUME NEW k \in Tasks, Queue(k) PROVE RunnerInPool'
  BY <1>9 DEF Queue
<1>10. ASSUME NEW k \in Tasks, CancelledNew(k) PROVE RunnerInPool'
  BY <1>10 DEF CancelledNew
<1>11. ASSUME NEW k \in Tasks, CancelledQueued(k) PROVE RunnerInPool'
  BY <1>11 DEF CancelledQueued, EndOuter
<1>12. ASSUME NEW k \in Tasks, RunnerEnded(k) PROVE RunnerInPool'
  BY <1>12 DEF RunnerEnded, EndOuter, SetRecord
<1>13. ASSUME NEW k \in Tasks, Saved(k) PROVE RunnerInPool'
  BY <1>13 DEF Saved, EndOuter
<1>14. ASSUME NEW k \in Tasks, Settled(k) PROVE RunnerInPool'
  BY <1>14 DEF Settled, Settle, SetRecord
<1>15. ASSUME NEW k \in Tasks, StartRunner(k) PROVE RunnerInPool'
  BY <1>15 DEF StartRunner
<1>16. ASSUME NEW k \in Tasks, Escape(k) PROVE RunnerInPool'
  BY <1>16 DEF Escape
<1>17. ASSUME NEW k \in Tasks, BeginTool(k) PROVE RunnerInPool'
  BY <1>17 DEF BeginTool, Working
<1>18. ASSUME NEW k \in Tasks, EndTool(k) PROVE RunnerInPool'
  BY <1>18 DEF EndTool, Working
<1>19. ASSUME NEW k \in Tasks, Stopped(k) PROVE RunnerInPool'
  BY <1>19 DEF Stopped, StopWith, SetRecord
<1>20. ASSUME NEW k \in Tasks, ToolUnknown(k) PROVE RunnerInPool'
  BY <1>20 DEF ToolUnknown, StopWith, SetRecord
<1>21. ASSUME NEW k \in Tasks, ToolCancelled(k) PROVE RunnerInPool'
  BY <1>21 DEF ToolCancelled, StopWith, SetRecord, Working
<1>22. ASSUME NEW k \in Tasks, Complete(k) PROVE RunnerInPool'
  BY <1>22 DEF Complete, Working, SetRecord
<1>23. ASSUME NEW k \in Tasks, Raise(k) PROVE RunnerInPool'
  BY <1>23 DEF Raise, Working, SetRecord
<1>24. ASSUME NEW k \in Tasks, RecordSaved(k) PROVE RunnerInPool'
  BY <1>24 DEF RecordSaved
<1>25. ASSUME NEW k \in Tasks, UserCancels(k) PROVE RunnerInPool'
  BY <1>25 DEF UserCancels, CancelTask, SetToken, CancelOuter, Settle, SetRecord
<1>26. ASSUME NEW k \in Tasks, Delete(k) PROVE RunnerInPool'
  BY <1>26 DEF Delete, SetToken, CancelOuter
<1>27. ASSUME NEW k \in Tasks, WorkflowCancelled(k) PROVE RunnerInPool'
  BY <1>27 DEF WorkflowCancelled, CancelOuter
<1>28. ASSUME NEW k \in Tasks, TimeLimit(k) PROVE RunnerInPool'
  BY <1>28 DEF TimeLimit, CancelOuter
<1>29. ASSUME NEW k \in Tasks, Watchdog(k) PROVE RunnerInPool'
  BY <1>29 DEF Watchdog
<1>30. ASSUME NEW t \in Turns, StopTurn(t) PROVE RunnerInPool'
  BY <1>30 DEF StopTurn
<1> QED
  BY <1>1, <1>2, <1>3, <1>4, <1>5, <1>6, <1>7, <1>8, <1>9, <1>10, <1>11, <1>12, <1>13, <1>14, <1>15,
     <1>16, <1>17, <1>18, <1>19, <1>20, <1>21, <1>22, <1>23, <1>24, <1>25, <1>26, <1>27, <1>28, <1>29, <1>30
  DEF Next, CallerStep, OuterStep, RunnerStep

\* What takes a waiting child out of the table cancels it in the same step.
LEMMA QueuedStep ==
    ASSUME TypeOK, QueuedCanBeStopped, Next
    PROVE  QueuedCanBeStopped'
<1> USE SubagentAssumption DEF TypeOK, QueuedCanBeStopped, OuterPCs,
            record, tables, runner, marks, tools, turns
<1>1. ASSUME NEW k \in Tasks, Spawn(k) PROVE QueuedCanBeStopped'
  BY <1>1 DEF Spawn, Create
<1>2. ASSUME NEW k \in Tasks, Invoke(k) PROVE QueuedCanBeStopped'
  BY <1>2 DEF Invoke, Create
<1>3. ASSUME NEW k \in Tasks, SpawnExecute(k) PROVE QueuedCanBeStopped'
  BY <1>3 DEF SpawnExecute, SetRecord
<1>4. ASSUME NEW k \in Tasks, SpawnError(k) PROVE QueuedCanBeStopped'
  BY <1>4 DEF SpawnError
<1>5. ASSUME NEW k \in Tasks, SpawnGivesUp(k) PROVE QueuedCanBeStopped'
  BY <1>5 DEF SpawnGivesUp
<1>6. ASSUME NEW k \in Tasks, SpawnReturns(k) PROVE QueuedCanBeStopped'
  BY <1>6 DEF SpawnReturns, CancelTask, SetToken, CancelOuter, Settle, SetRecord
<1>7. ASSUME NEW k \in Tasks, SpawnAbandons(k) PROVE QueuedCanBeStopped'
  BY <1>7 DEF SpawnAbandons
<1>8. ASSUME NEW k \in Tasks, Enter(k) PROVE QueuedCanBeStopped'
  BY <1>8 DEF Enter, InPool
<1>9. ASSUME NEW k \in Tasks, Queue(k) PROVE QueuedCanBeStopped'
  BY <1>9 DEF Queue
<1>10. ASSUME NEW k \in Tasks, CancelledNew(k) PROVE QueuedCanBeStopped'
  BY <1>10 DEF CancelledNew
<1>11. ASSUME NEW k \in Tasks, CancelledQueued(k) PROVE QueuedCanBeStopped'
  BY <1>11 DEF CancelledQueued, EndOuter
<1>12. ASSUME NEW k \in Tasks, RunnerEnded(k) PROVE QueuedCanBeStopped'
  BY <1>12 DEF RunnerEnded, EndOuter, SetRecord
<1>13. ASSUME NEW k \in Tasks, Saved(k) PROVE QueuedCanBeStopped'
  BY <1>13 DEF Saved, EndOuter
<1>14. ASSUME NEW k \in Tasks, Settled(k) PROVE QueuedCanBeStopped'
  BY <1>14 DEF Settled, Settle, SetRecord
<1>15. ASSUME NEW k \in Tasks, StartRunner(k) PROVE QueuedCanBeStopped'
  BY <1>15 DEF StartRunner
<1>16. ASSUME NEW k \in Tasks, Escape(k) PROVE QueuedCanBeStopped'
  BY <1>16 DEF Escape
<1>17. ASSUME NEW k \in Tasks, BeginTool(k) PROVE QueuedCanBeStopped'
  BY <1>17 DEF BeginTool, Working
<1>18. ASSUME NEW k \in Tasks, EndTool(k) PROVE QueuedCanBeStopped'
  BY <1>18 DEF EndTool, Working
<1>19. ASSUME NEW k \in Tasks, Stopped(k) PROVE QueuedCanBeStopped'
  BY <1>19 DEF Stopped, StopWith, SetRecord
<1>20. ASSUME NEW k \in Tasks, ToolUnknown(k) PROVE QueuedCanBeStopped'
  BY <1>20 DEF ToolUnknown, StopWith, SetRecord
<1>21. ASSUME NEW k \in Tasks, ToolCancelled(k) PROVE QueuedCanBeStopped'
  BY <1>21 DEF ToolCancelled, StopWith, SetRecord, Working
<1>22. ASSUME NEW k \in Tasks, Complete(k) PROVE QueuedCanBeStopped'
  BY <1>22 DEF Complete, Working, SetRecord
<1>23. ASSUME NEW k \in Tasks, Raise(k) PROVE QueuedCanBeStopped'
  BY <1>23 DEF Raise, Working, SetRecord
<1>24. ASSUME NEW k \in Tasks, RecordSaved(k) PROVE QueuedCanBeStopped'
  BY <1>24 DEF RecordSaved
<1>25. ASSUME NEW k \in Tasks, UserCancels(k) PROVE QueuedCanBeStopped'
  BY <1>25 DEF UserCancels, CancelTask, SetToken, CancelOuter, Settle, SetRecord
<1>26. ASSUME NEW k \in Tasks, Delete(k) PROVE QueuedCanBeStopped'
  BY <1>26 DEF Delete, SetToken, CancelOuter
<1>27. ASSUME NEW k \in Tasks, WorkflowCancelled(k) PROVE QueuedCanBeStopped'
  BY <1>27 DEF WorkflowCancelled, CancelOuter
<1>28. ASSUME NEW k \in Tasks, TimeLimit(k) PROVE QueuedCanBeStopped'
  BY <1>28 DEF TimeLimit, CancelOuter
<1>29. ASSUME NEW k \in Tasks, Watchdog(k) PROVE QueuedCanBeStopped'
  BY <1>29 DEF Watchdog
<1>30. ASSUME NEW t \in Turns, StopTurn(t) PROVE QueuedCanBeStopped'
  BY <1>30 DEF StopTurn
<1> QED
  BY <1>1, <1>2, <1>3, <1>4, <1>5, <1>6, <1>7, <1>8, <1>9, <1>10, <1>11, <1>12, <1>13, <1>14, <1>15,
     <1>16, <1>17, <1>18, <1>19, <1>20, <1>21, <1>22, <1>23, <1>24, <1>25, <1>26, <1>27, <1>28, <1>29, <1>30
  DEF Next, CallerStep, OuterStep, RunnerStep

\* A child gets its place with the table entry that QueuedCanBeStopped gives it, and what
\* removes the entry of a child that works cancels the runner.
LEMMA GhostStep ==
    ASSUME TypeOK, StartedOnce, RunnerInPool, QueuedCanBeStopped, NoGhosts, Next
    PROVE  NoGhosts'
<1> USE SubagentAssumption DEF TypeOK, StartedOnce, RunnerInPool, QueuedCanBeStopped, NoGhosts,
            OuterPCs, RunnerPCs,
            record, tables, runner, marks, tools, turns
<1>1. ASSUME NEW k \in Tasks, Spawn(k) PROVE NoGhosts'
  BY <1>1 DEF Spawn, Create
<1>2. ASSUME NEW k \in Tasks, Invoke(k) PROVE NoGhosts'
  BY <1>2 DEF Invoke, Create
<1>3. ASSUME NEW k \in Tasks, SpawnExecute(k) PROVE NoGhosts'
  BY <1>3 DEF SpawnExecute, SetRecord
<1>4. ASSUME NEW k \in Tasks, SpawnError(k) PROVE NoGhosts'
  BY <1>4 DEF SpawnError
<1>5. ASSUME NEW k \in Tasks, SpawnGivesUp(k) PROVE NoGhosts'
  BY <1>5 DEF SpawnGivesUp
<1>6. ASSUME NEW k \in Tasks, SpawnReturns(k) PROVE NoGhosts'
  BY <1>6 DEF SpawnReturns, CancelTask, SetToken, CancelOuter, Settle, SetRecord
<1>7. ASSUME NEW k \in Tasks, SpawnAbandons(k) PROVE NoGhosts'
  BY <1>7 DEF SpawnAbandons
<1>8. ASSUME NEW k \in Tasks, Enter(k) PROVE NoGhosts'
  BY <1>8 DEF Enter
<1>9. ASSUME NEW k \in Tasks, Queue(k) PROVE NoGhosts'
  BY <1>9 DEF Queue
<1>10. ASSUME NEW k \in Tasks, CancelledNew(k) PROVE NoGhosts'
  BY <1>10 DEF CancelledNew
<1>11. ASSUME NEW k \in Tasks, CancelledQueued(k) PROVE NoGhosts'
  BY <1>11 DEF CancelledQueued, EndOuter
<1>12. ASSUME NEW k \in Tasks, RunnerEnded(k) PROVE NoGhosts'
  BY <1>12 DEF RunnerEnded, EndOuter, SetRecord
<1>13. ASSUME NEW k \in Tasks, Saved(k) PROVE NoGhosts'
  BY <1>13 DEF Saved, EndOuter
<1>14. ASSUME NEW k \in Tasks, Settled(k) PROVE NoGhosts'
  BY <1>14 DEF Settled, Settle, SetRecord
<1>15. ASSUME NEW k \in Tasks, StartRunner(k) PROVE NoGhosts'
  BY <1>15 DEF StartRunner
<1>16. ASSUME NEW k \in Tasks, Escape(k) PROVE NoGhosts'
  BY <1>16 DEF Escape
<1>17. ASSUME NEW k \in Tasks, BeginTool(k) PROVE NoGhosts'
  BY <1>17 DEF BeginTool, Working
<1>18. ASSUME NEW k \in Tasks, EndTool(k) PROVE NoGhosts'
  BY <1>18 DEF EndTool, Working
<1>19. ASSUME NEW k \in Tasks, Stopped(k) PROVE NoGhosts'
  BY <1>19 DEF Stopped, StopWith, SetRecord
<1>20. ASSUME NEW k \in Tasks, ToolUnknown(k) PROVE NoGhosts'
  BY <1>20 DEF ToolUnknown, StopWith, SetRecord
<1>21. ASSUME NEW k \in Tasks, ToolCancelled(k) PROVE NoGhosts'
  BY <1>21 DEF ToolCancelled, StopWith, SetRecord, Working
<1>22. ASSUME NEW k \in Tasks, Complete(k) PROVE NoGhosts'
  BY <1>22 DEF Complete, Working, SetRecord
<1>23. ASSUME NEW k \in Tasks, Raise(k) PROVE NoGhosts'
  BY <1>23 DEF Raise, Working, SetRecord
<1>24. ASSUME NEW k \in Tasks, RecordSaved(k) PROVE NoGhosts'
  BY <1>24 DEF RecordSaved
<1>25. ASSUME NEW k \in Tasks, UserCancels(k) PROVE NoGhosts'
  BY <1>25 DEF UserCancels, CancelTask, SetToken, CancelOuter, Settle, SetRecord
<1>26. ASSUME NEW k \in Tasks, Delete(k) PROVE NoGhosts'
  BY <1>26 DEF Delete, SetToken, CancelOuter
<1>27. ASSUME NEW k \in Tasks, WorkflowCancelled(k) PROVE NoGhosts'
  BY <1>27 DEF WorkflowCancelled, CancelOuter
<1>28. ASSUME NEW k \in Tasks, TimeLimit(k) PROVE NoGhosts'
  BY <1>28 DEF TimeLimit, CancelOuter
<1>29. ASSUME NEW k \in Tasks, Watchdog(k) PROVE NoGhosts'
  BY <1>29 DEF Watchdog
<1>30. ASSUME NEW t \in Turns, StopTurn(t) PROVE NoGhosts'
  BY <1>30 DEF StopTurn
<1> QED
  BY <1>1, <1>2, <1>3, <1>4, <1>5, <1>6, <1>7, <1>8, <1>9, <1>10, <1>11, <1>12, <1>13, <1>14, <1>15,
     <1>16, <1>17, <1>18, <1>19, <1>20, <1>21, <1>22, <1>23, <1>24, <1>25, <1>26, <1>27, <1>28, <1>29, <1>30
  DEF Next, CallerStep, OuterStep, RunnerStep

\* Only Enter takes a place, and it finds one that is free.
LEMMA PoolStep ==
    ASSUME TypeOK, StartedOnce, PoolCount, Next
    PROVE  PoolCount'
<1> USE SubagentAssumption DEF TypeOK, StartedOnce, OuterPCs,
            record, tables, runner, marks, tools, turns
<1>. DEFINE Kept == InPool' \subseteq InPool
<1>a. IsFiniteSet(InPool) /\ Cardinality(InPool) \in Nat
  BY FS_Subset, FS_CardinalityType DEF InPool
<1>b. ASSUME NEW k \in Tasks, Enter(k) PROVE PoolCount'
  <2>1. InPool' = InPool \union {k} /\ Cardinality(InPool) < MaxConcurrent
    BY <1>b DEF Enter, InPool
  <2>2. k \notin InPool
    BY <1>b DEF Enter, InPool
  <2>3. Cardinality(InPool \union {k}) = Cardinality(InPool) + 1
    BY <1>a, <2>2, FS_AddElement
  <2> QED BY <1>a, <2>1, <2>3 DEF PoolCount
<1>1. ASSUME NEW k \in Tasks, Spawn(k) PROVE Kept
  BY <1>1 DEF Spawn, Create, InPool
<1>2. ASSUME NEW k \in Tasks, Invoke(k) PROVE Kept
  BY <1>2 DEF Invoke, Create, InPool
<1>3. ASSUME NEW k \in Tasks, SpawnExecute(k) PROVE Kept
  BY <1>3 DEF SpawnExecute, SetRecord, InPool
<1>4. ASSUME NEW k \in Tasks, SpawnError(k) PROVE Kept
  BY <1>4 DEF SpawnError, InPool
<1>5. ASSUME NEW k \in Tasks, SpawnGivesUp(k) PROVE Kept
  BY <1>5 DEF SpawnGivesUp, InPool
<1>6. ASSUME NEW k \in Tasks, SpawnReturns(k) PROVE Kept
  BY <1>6 DEF SpawnReturns, CancelTask, SetToken, CancelOuter, Settle, SetRecord, InPool
<1>7. ASSUME NEW k \in Tasks, SpawnAbandons(k) PROVE Kept
  BY <1>7 DEF SpawnAbandons, InPool
<1>8. ASSUME NEW k \in Tasks, Queue(k) PROVE Kept
  BY <1>8 DEF Queue, InPool
<1>9. ASSUME NEW k \in Tasks, CancelledNew(k) PROVE Kept
  BY <1>9 DEF CancelledNew, InPool
<1>10. ASSUME NEW k \in Tasks, CancelledQueued(k) PROVE Kept
  BY <1>10 DEF CancelledQueued, EndOuter, InPool
<1>11. ASSUME NEW k \in Tasks, RunnerEnded(k) PROVE Kept
  BY <1>11 DEF RunnerEnded, EndOuter, SetRecord, InPool
<1>12. ASSUME NEW k \in Tasks, Saved(k) PROVE Kept
  BY <1>12 DEF Saved, EndOuter, InPool
<1>13. ASSUME NEW k \in Tasks, Settled(k) PROVE Kept
  BY <1>13 DEF Settled, Settle, SetRecord, InPool
<1>14. ASSUME NEW k \in Tasks, StartRunner(k) PROVE Kept
  BY <1>14 DEF StartRunner, InPool
<1>15. ASSUME NEW k \in Tasks, Escape(k) PROVE Kept
  BY <1>15 DEF Escape, InPool
<1>16. ASSUME NEW k \in Tasks, BeginTool(k) PROVE Kept
  BY <1>16 DEF BeginTool, Working, InPool
<1>17. ASSUME NEW k \in Tasks, EndTool(k) PROVE Kept
  BY <1>17 DEF EndTool, Working, InPool
<1>18. ASSUME NEW k \in Tasks, Stopped(k) PROVE Kept
  BY <1>18 DEF Stopped, StopWith, SetRecord, InPool
<1>19. ASSUME NEW k \in Tasks, ToolUnknown(k) PROVE Kept
  BY <1>19 DEF ToolUnknown, StopWith, SetRecord, InPool
<1>20. ASSUME NEW k \in Tasks, ToolCancelled(k) PROVE Kept
  BY <1>20 DEF ToolCancelled, StopWith, SetRecord, Working, InPool
<1>21. ASSUME NEW k \in Tasks, Complete(k) PROVE Kept
  BY <1>21 DEF Complete, Working, SetRecord, InPool
<1>22. ASSUME NEW k \in Tasks, Raise(k) PROVE Kept
  BY <1>22 DEF Raise, Working, SetRecord, InPool
<1>23. ASSUME NEW k \in Tasks, RecordSaved(k) PROVE Kept
  BY <1>23 DEF RecordSaved, InPool
<1>24. ASSUME NEW k \in Tasks, UserCancels(k) PROVE Kept
  BY <1>24 DEF UserCancels, CancelTask, SetToken, CancelOuter, Settle, SetRecord, InPool
<1>25. ASSUME NEW k \in Tasks, Delete(k) PROVE Kept
  BY <1>25 DEF Delete, SetToken, CancelOuter, InPool
<1>26. ASSUME NEW k \in Tasks, WorkflowCancelled(k) PROVE Kept
  BY <1>26 DEF WorkflowCancelled, CancelOuter, InPool
<1>27. ASSUME NEW k \in Tasks, TimeLimit(k) PROVE Kept
  BY <1>27 DEF TimeLimit, CancelOuter, InPool
<1>28. ASSUME NEW k \in Tasks, Watchdog(k) PROVE Kept
  BY <1>28 DEF Watchdog, InPool
<1>29. ASSUME NEW t \in Turns, StopTurn(t) PROVE Kept
  BY <1>29 DEF StopTurn, InPool
<1>30. Kept => PoolCount'
  <2> SUFFICES ASSUME Kept PROVE PoolCount'
    OBVIOUS
  <2>1. Cardinality(InPool') <= Cardinality(InPool) /\ Cardinality(InPool') \in Nat
    BY <1>a, FS_Subset, FS_CardinalityType
  <2> QED BY <1>a, <2>1 DEF PoolCount
<1>31. CASE \E k \in Tasks : Enter(k)
  BY <1>31, <1>b
<1>32. CASE ~\E k \in Tasks : Enter(k)
  <2> HIDE DEF Kept
  <2> QED BY <1>32, <1>30, <1>1, <1>2, <1>3, <1>4, <1>5, <1>6, <1>7, <1>8, <1>9, <1>10, <1>11, <1>12,
            <1>13, <1>14, <1>15, <1>16, <1>17, <1>18, <1>19, <1>20, <1>21, <1>22, <1>23, <1>24,
            <1>25, <1>26, <1>27, <1>28, <1>29
         DEF Next, CallerStep, OuterStep, RunnerStep
<1> QED BY <1>31, <1>32

\* Only Enter makes a runner, and Spawn and Invoke find no task yet.
LEMMA LaterStep ==
    ASSUME TypeOK, StartedOnce, RunnerInPool, RunnersComeLater, Next
    PROVE  RunnersComeLater'
<1> USE SubagentAssumption DEF TypeOK, StartedOnce, RunnerInPool, RunnersComeLater, OuterPCs, RunnerPCs,
            record, tables, runner, marks, tools, turns
<1>1. ASSUME NEW k \in Tasks, Spawn(k) PROVE RunnersComeLater'
  BY <1>1 DEF Spawn, Create
<1>2. ASSUME NEW k \in Tasks, Invoke(k) PROVE RunnersComeLater'
  BY <1>2 DEF Invoke, Create
<1>3. ASSUME NEW k \in Tasks, SpawnExecute(k) PROVE RunnersComeLater'
  BY <1>3 DEF SpawnExecute, SetRecord
<1>4. ASSUME NEW k \in Tasks, SpawnError(k) PROVE RunnersComeLater'
  BY <1>4 DEF SpawnError
<1>5. ASSUME NEW k \in Tasks, SpawnGivesUp(k) PROVE RunnersComeLater'
  BY <1>5 DEF SpawnGivesUp
<1>6. ASSUME NEW k \in Tasks, SpawnReturns(k) PROVE RunnersComeLater'
  BY <1>6 DEF SpawnReturns, CancelTask, SetToken, CancelOuter, Settle, SetRecord
<1>7. ASSUME NEW k \in Tasks, SpawnAbandons(k) PROVE RunnersComeLater'
  BY <1>7 DEF SpawnAbandons
<1>8. ASSUME NEW k \in Tasks, Enter(k) PROVE RunnersComeLater'
  BY <1>8 DEF Enter
<1>9. ASSUME NEW k \in Tasks, Queue(k) PROVE RunnersComeLater'
  BY <1>9 DEF Queue
<1>10. ASSUME NEW k \in Tasks, CancelledNew(k) PROVE RunnersComeLater'
  BY <1>10 DEF CancelledNew
<1>11. ASSUME NEW k \in Tasks, CancelledQueued(k) PROVE RunnersComeLater'
  BY <1>11 DEF CancelledQueued, EndOuter
<1>12. ASSUME NEW k \in Tasks, RunnerEnded(k) PROVE RunnersComeLater'
  BY <1>12 DEF RunnerEnded, EndOuter, SetRecord
<1>13. ASSUME NEW k \in Tasks, Saved(k) PROVE RunnersComeLater'
  BY <1>13 DEF Saved, EndOuter
<1>14. ASSUME NEW k \in Tasks, Settled(k) PROVE RunnersComeLater'
  BY <1>14 DEF Settled, Settle, SetRecord
<1>15. ASSUME NEW k \in Tasks, StartRunner(k) PROVE RunnersComeLater'
  BY <1>15 DEF StartRunner
<1>16. ASSUME NEW k \in Tasks, Escape(k) PROVE RunnersComeLater'
  BY <1>16 DEF Escape
<1>17. ASSUME NEW k \in Tasks, BeginTool(k) PROVE RunnersComeLater'
  BY <1>17 DEF BeginTool, Working
<1>18. ASSUME NEW k \in Tasks, EndTool(k) PROVE RunnersComeLater'
  BY <1>18 DEF EndTool, Working
<1>19. ASSUME NEW k \in Tasks, Stopped(k) PROVE RunnersComeLater'
  BY <1>19 DEF Stopped, StopWith, SetRecord
<1>20. ASSUME NEW k \in Tasks, ToolUnknown(k) PROVE RunnersComeLater'
  BY <1>20 DEF ToolUnknown, StopWith, SetRecord
<1>21. ASSUME NEW k \in Tasks, ToolCancelled(k) PROVE RunnersComeLater'
  BY <1>21 DEF ToolCancelled, StopWith, SetRecord, Working
<1>22. ASSUME NEW k \in Tasks, Complete(k) PROVE RunnersComeLater'
  BY <1>22 DEF Complete, Working, SetRecord
<1>23. ASSUME NEW k \in Tasks, Raise(k) PROVE RunnersComeLater'
  BY <1>23 DEF Raise, Working, SetRecord
<1>24. ASSUME NEW k \in Tasks, RecordSaved(k) PROVE RunnersComeLater'
  BY <1>24 DEF RecordSaved
<1>25. ASSUME NEW k \in Tasks, UserCancels(k) PROVE RunnersComeLater'
  BY <1>25 DEF UserCancels, CancelTask, SetToken, CancelOuter, Settle, SetRecord
<1>26. ASSUME NEW k \in Tasks, Delete(k) PROVE RunnersComeLater'
  BY <1>26 DEF Delete, SetToken, CancelOuter
<1>27. ASSUME NEW k \in Tasks, WorkflowCancelled(k) PROVE RunnersComeLater'
  BY <1>27 DEF WorkflowCancelled, CancelOuter
<1>28. ASSUME NEW k \in Tasks, TimeLimit(k) PROVE RunnersComeLater'
  BY <1>28 DEF TimeLimit, CancelOuter
<1>29. ASSUME NEW k \in Tasks, Watchdog(k) PROVE RunnersComeLater'
  BY <1>29 DEF Watchdog
<1>30. ASSUME NEW t \in Turns, StopTurn(t) PROVE RunnersComeLater'
  BY <1>30 DEF StopTurn
<1> QED
  BY <1>1, <1>2, <1>3, <1>4, <1>5, <1>6, <1>7, <1>8, <1>9, <1>10, <1>11, <1>12, <1>13, <1>14, <1>15,
     <1>16, <1>17, <1>18, <1>19, <1>20, <1>21, <1>22, <1>23, <1>24, <1>25, <1>26, <1>27, <1>28, <1>29, <1>30
  DEF Next, CallerStep, OuterStep, RunnerStep

\* cancel_task cancels the task and settles it in one step, and the other stops of a child that
\* has not begun are a workflow's or come with the deletion of the record.
LEMMA EarlyStep ==
    ASSUME TypeOK, StartedOnce, RunnerInPool, RunnersComeLater,
           EarlyStopsAreSettled, EndsAreReadable, Next
    PROVE  EarlyStopsAreSettled'
<1> USE SubagentAssumption DEF TypeOK, StartedOnce, RunnerInPool, RunnersComeLater, EarlyStopsAreSettled,
            EndsAreReadable, Readable, Unfinished, Terminal, Outcomes, OuterPCs, RunnerPCs,
            PossibleEffect, CancelledOutcome, TimeoutOutcome, record, tables, runner, marks, tools, turns
<1>1. ASSUME NEW k \in Tasks, Spawn(k) PROVE EarlyStopsAreSettled'
  BY <1>1 DEF Spawn, Create
<1>2. ASSUME NEW k \in Tasks, Invoke(k) PROVE EarlyStopsAreSettled'
  BY <1>2 DEF Invoke, Create
<1>3. ASSUME NEW k \in Tasks, SpawnExecute(k) PROVE EarlyStopsAreSettled'
  BY <1>3 DEF SpawnExecute, SetRecord
<1>4. ASSUME NEW k \in Tasks, SpawnError(k) PROVE EarlyStopsAreSettled'
  BY <1>4 DEF SpawnError
<1>5. ASSUME NEW k \in Tasks, SpawnGivesUp(k) PROVE EarlyStopsAreSettled'
  BY <1>5 DEF SpawnGivesUp
<1>6. ASSUME NEW k \in Tasks, SpawnReturns(k) PROVE EarlyStopsAreSettled'
  BY <1>6 DEF SpawnReturns, CancelTask, SetToken, CancelOuter, Settle, SetRecord
<1>7. ASSUME NEW k \in Tasks, SpawnAbandons(k) PROVE EarlyStopsAreSettled'
  BY <1>7 DEF SpawnAbandons
<1>8. ASSUME NEW k \in Tasks, Enter(k) PROVE EarlyStopsAreSettled'
  BY <1>8 DEF Enter
<1>9. ASSUME NEW k \in Tasks, Queue(k) PROVE EarlyStopsAreSettled'
  BY <1>9 DEF Queue
<1>10. ASSUME NEW k \in Tasks, CancelledNew(k) PROVE EarlyStopsAreSettled'
  BY <1>10 DEF CancelledNew
<1>11. ASSUME NEW k \in Tasks, CancelledQueued(k) PROVE EarlyStopsAreSettled'
  BY <1>11 DEF CancelledQueued, EndOuter
<1>12. ASSUME NEW k \in Tasks, RunnerEnded(k) PROVE EarlyStopsAreSettled'
  BY <1>12 DEF RunnerEnded, EndOuter, SetRecord
<1>13. ASSUME NEW k \in Tasks, Saved(k) PROVE EarlyStopsAreSettled'
  BY <1>13 DEF Saved, EndOuter
<1>14. ASSUME NEW k \in Tasks, Settled(k) PROVE EarlyStopsAreSettled'
  BY <1>14 DEF Settled, Settle, SetRecord
<1>15. ASSUME NEW k \in Tasks, StartRunner(k) PROVE EarlyStopsAreSettled'
  BY <1>15 DEF StartRunner
<1>16. ASSUME NEW k \in Tasks, Escape(k) PROVE EarlyStopsAreSettled'
  BY <1>16 DEF Escape
<1>17. ASSUME NEW k \in Tasks, BeginTool(k) PROVE EarlyStopsAreSettled'
  BY <1>17 DEF BeginTool, Working
<1>18. ASSUME NEW k \in Tasks, EndTool(k) PROVE EarlyStopsAreSettled'
  BY <1>18 DEF EndTool, Working
<1>19. ASSUME NEW k \in Tasks, Stopped(k) PROVE EarlyStopsAreSettled'
  BY <1>19 DEF Stopped, StopWith, SetRecord
<1>20. ASSUME NEW k \in Tasks, ToolUnknown(k) PROVE EarlyStopsAreSettled'
  BY <1>20 DEF ToolUnknown, StopWith, SetRecord
<1>21. ASSUME NEW k \in Tasks, ToolCancelled(k) PROVE EarlyStopsAreSettled'
  BY <1>21 DEF ToolCancelled, StopWith, SetRecord, Working
<1>22. ASSUME NEW k \in Tasks, Complete(k) PROVE EarlyStopsAreSettled'
  BY <1>22 DEF Complete, Working, SetRecord
<1>23. ASSUME NEW k \in Tasks, Raise(k) PROVE EarlyStopsAreSettled'
  BY <1>23 DEF Raise, Working, SetRecord
<1>24. ASSUME NEW k \in Tasks, RecordSaved(k) PROVE EarlyStopsAreSettled'
  BY <1>24 DEF RecordSaved
<1>25. ASSUME NEW k \in Tasks, UserCancels(k) PROVE EarlyStopsAreSettled'
  BY <1>25 DEF UserCancels, CancelTask, SetToken, CancelOuter, Settle, SetRecord
<1>26. ASSUME NEW k \in Tasks, Delete(k) PROVE EarlyStopsAreSettled'
  BY <1>26 DEF Delete, SetToken, CancelOuter
<1>27. ASSUME NEW k \in Tasks, WorkflowCancelled(k) PROVE EarlyStopsAreSettled'
  BY <1>27 DEF WorkflowCancelled, CancelOuter
<1>28. ASSUME NEW k \in Tasks, TimeLimit(k) PROVE EarlyStopsAreSettled'
  BY <1>28 DEF TimeLimit, CancelOuter
<1>29. ASSUME NEW k \in Tasks, Watchdog(k) PROVE EarlyStopsAreSettled'
  BY <1>29 DEF Watchdog
<1>30. ASSUME NEW t \in Turns, StopTurn(t) PROVE EarlyStopsAreSettled'
  BY <1>30 DEF StopTurn
<1> QED
  BY <1>1, <1>2, <1>3, <1>4, <1>5, <1>6, <1>7, <1>8, <1>9, <1>10, <1>11, <1>12, <1>13, <1>14, <1>15,
     <1>16, <1>17, <1>18, <1>19, <1>20, <1>21, <1>22, <1>23, <1>24, <1>25, <1>26, <1>27, <1>28, <1>29, <1>30
  DEF Next, CallerStep, OuterStep, RunnerStep

\* Whatever ends a child writes its status, and an outcome unless the CancelledError came too
\* early; a result once written is not taken back, because the child cannot begin again.
LEMMA EndsStep ==
    ASSUME TypeOK, StartedOnce, RunnerInPool, RunnersComeLater,
           EarlyStopsAreSettled, EndsAreReadable, Next
    PROVE  EndsAreReadable'
<1> USE SubagentAssumption DEF TypeOK, StartedOnce, RunnerInPool, RunnersComeLater, EarlyStopsAreSettled,
            EndsAreReadable, Readable, Unfinished, Terminal, Outcomes, OuterPCs, RunnerPCs,
            PossibleEffect, CancelledOutcome, TimeoutOutcome, record, tables, runner, marks, tools, turns
<1>1. ASSUME NEW k \in Tasks, Spawn(k) PROVE EndsAreReadable'
  BY <1>1 DEF Spawn, Create
<1>2. ASSUME NEW k \in Tasks, Invoke(k) PROVE EndsAreReadable'
  BY <1>2 DEF Invoke, Create
<1>3. ASSUME NEW k \in Tasks, SpawnExecute(k) PROVE EndsAreReadable'
  BY <1>3 DEF SpawnExecute, SetRecord
<1>4. ASSUME NEW k \in Tasks, SpawnError(k) PROVE EndsAreReadable'
  BY <1>4 DEF SpawnError
<1>5. ASSUME NEW k \in Tasks, SpawnGivesUp(k) PROVE EndsAreReadable'
  BY <1>5 DEF SpawnGivesUp
<1>6. ASSUME NEW k \in Tasks, SpawnReturns(k) PROVE EndsAreReadable'
  BY <1>6 DEF SpawnReturns, CancelTask, SetToken, CancelOuter, Settle, SetRecord
<1>7. ASSUME NEW k \in Tasks, SpawnAbandons(k) PROVE EndsAreReadable'
  BY <1>7 DEF SpawnAbandons
<1>8. ASSUME NEW k \in Tasks, Enter(k) PROVE EndsAreReadable'
  BY <1>8 DEF Enter
<1>9. ASSUME NEW k \in Tasks, Queue(k) PROVE EndsAreReadable'
  BY <1>9 DEF Queue
<1>10. ASSUME NEW k \in Tasks, CancelledNew(k) PROVE EndsAreReadable'
  BY <1>10 DEF CancelledNew
<1>11. ASSUME NEW k \in Tasks, CancelledQueued(k) PROVE EndsAreReadable'
  BY <1>11 DEF CancelledQueued, EndOuter
<1>12. ASSUME NEW k \in Tasks, RunnerEnded(k) PROVE EndsAreReadable'
  BY <1>12 DEF RunnerEnded, EndOuter, SetRecord
<1>13. ASSUME NEW k \in Tasks, Saved(k) PROVE EndsAreReadable'
  BY <1>13 DEF Saved, EndOuter
<1>14. ASSUME NEW k \in Tasks, Settled(k) PROVE EndsAreReadable'
  BY <1>14 DEF Settled, Settle, SetRecord
<1>15. ASSUME NEW k \in Tasks, StartRunner(k) PROVE EndsAreReadable'
  BY <1>15 DEF StartRunner
<1>16. ASSUME NEW k \in Tasks, Escape(k) PROVE EndsAreReadable'
  BY <1>16 DEF Escape
<1>17. ASSUME NEW k \in Tasks, BeginTool(k) PROVE EndsAreReadable'
  BY <1>17 DEF BeginTool, Working
<1>18. ASSUME NEW k \in Tasks, EndTool(k) PROVE EndsAreReadable'
  BY <1>18 DEF EndTool, Working
<1>19. ASSUME NEW k \in Tasks, Stopped(k) PROVE EndsAreReadable'
  BY <1>19 DEF Stopped, StopWith, SetRecord
<1>20. ASSUME NEW k \in Tasks, ToolUnknown(k) PROVE EndsAreReadable'
  BY <1>20 DEF ToolUnknown, StopWith, SetRecord
<1>21. ASSUME NEW k \in Tasks, ToolCancelled(k) PROVE EndsAreReadable'
  BY <1>21 DEF ToolCancelled, StopWith, SetRecord, Working
<1>22. ASSUME NEW k \in Tasks, Complete(k) PROVE EndsAreReadable'
  BY <1>22 DEF Complete, Working, SetRecord
<1>23. ASSUME NEW k \in Tasks, Raise(k) PROVE EndsAreReadable'
  BY <1>23 DEF Raise, Working, SetRecord
<1>24. ASSUME NEW k \in Tasks, RecordSaved(k) PROVE EndsAreReadable'
  BY <1>24 DEF RecordSaved
<1>25. ASSUME NEW k \in Tasks, UserCancels(k) PROVE EndsAreReadable'
  BY <1>25 DEF UserCancels, CancelTask, SetToken, CancelOuter, Settle, SetRecord
<1>26. ASSUME NEW k \in Tasks, Delete(k) PROVE EndsAreReadable'
  BY <1>26 DEF Delete, SetToken, CancelOuter
<1>27. ASSUME NEW k \in Tasks, WorkflowCancelled(k) PROVE EndsAreReadable'
  BY <1>27 DEF WorkflowCancelled, CancelOuter
<1>28. ASSUME NEW k \in Tasks, TimeLimit(k) PROVE EndsAreReadable'
  BY <1>28 DEF TimeLimit, CancelOuter
<1>29. ASSUME NEW k \in Tasks, Watchdog(k) PROVE EndsAreReadable'
  BY <1>29 DEF Watchdog
<1>30. ASSUME NEW t \in Turns, StopTurn(t) PROVE EndsAreReadable'
  BY <1>30 DEF StopTurn
<1> QED
  BY <1>1, <1>2, <1>3, <1>4, <1>5, <1>6, <1>7, <1>8, <1>9, <1>10, <1>11, <1>12, <1>13, <1>14, <1>15,
     <1>16, <1>17, <1>18, <1>19, <1>20, <1>21, <1>22, <1>23, <1>24, <1>25, <1>26, <1>27, <1>28, <1>29, <1>30
  DEF Next, CallerStep, OuterStep, RunnerStep

\* A tool that ends after the outcome was UNKNOWN leaves its effect, and the effects are kept
\* until the child has ended.
LEMMA UnknownStep ==
    ASSUME TypeOK, StartedOnce, RunnerInPool, RunnersComeLater, UnknownIsMeant,
           DoneIsStopped, Next
    PROVE  UnknownIsMeant'
<1> USE SubagentAssumption DEF TypeOK, StartedOnce, RunnerInPool, RunnersComeLater, UnknownIsMeant,
            DoneIsStopped, Unfinished, Terminal, Outcomes, OuterPCs, RunnerPCs,
            PossibleEffect, CancelledOutcome, TimeoutOutcome, record, tables, runner, marks, tools, turns
<1>1. ASSUME NEW k \in Tasks, Spawn(k) PROVE UnknownIsMeant'
  BY <1>1 DEF Spawn, Create
<1>2. ASSUME NEW k \in Tasks, Invoke(k) PROVE UnknownIsMeant'
  BY <1>2 DEF Invoke, Create
<1>3. ASSUME NEW k \in Tasks, SpawnExecute(k) PROVE UnknownIsMeant'
  BY <1>3 DEF SpawnExecute, SetRecord
<1>4. ASSUME NEW k \in Tasks, SpawnError(k) PROVE UnknownIsMeant'
  BY <1>4 DEF SpawnError
<1>5. ASSUME NEW k \in Tasks, SpawnGivesUp(k) PROVE UnknownIsMeant'
  BY <1>5 DEF SpawnGivesUp
<1>6. ASSUME NEW k \in Tasks, SpawnReturns(k) PROVE UnknownIsMeant'
  BY <1>6 DEF SpawnReturns, CancelTask, SetToken, CancelOuter, Settle, SetRecord
<1>7. ASSUME NEW k \in Tasks, SpawnAbandons(k) PROVE UnknownIsMeant'
  BY <1>7 DEF SpawnAbandons
<1>8. ASSUME NEW k \in Tasks, Enter(k) PROVE UnknownIsMeant'
  BY <1>8 DEF Enter
<1>9. ASSUME NEW k \in Tasks, Queue(k) PROVE UnknownIsMeant'
  BY <1>9 DEF Queue
<1>10. ASSUME NEW k \in Tasks, CancelledNew(k) PROVE UnknownIsMeant'
  BY <1>10 DEF CancelledNew
<1>11. ASSUME NEW k \in Tasks, CancelledQueued(k) PROVE UnknownIsMeant'
  BY <1>11 DEF CancelledQueued, EndOuter
<1>12. ASSUME NEW k \in Tasks, RunnerEnded(k) PROVE UnknownIsMeant'
  BY <1>12 DEF RunnerEnded, EndOuter, SetRecord
<1>13. ASSUME NEW k \in Tasks, Saved(k) PROVE UnknownIsMeant'
  BY <1>13 DEF Saved, EndOuter
<1>14. ASSUME NEW k \in Tasks, Settled(k) PROVE UnknownIsMeant'
  BY <1>14 DEF Settled, Settle, SetRecord
<1>15. ASSUME NEW k \in Tasks, StartRunner(k) PROVE UnknownIsMeant'
  BY <1>15 DEF StartRunner
<1>16. ASSUME NEW k \in Tasks, Escape(k) PROVE UnknownIsMeant'
  BY <1>16 DEF Escape
<1>17. ASSUME NEW k \in Tasks, BeginTool(k) PROVE UnknownIsMeant'
  BY <1>17 DEF BeginTool, Working
<1>18. ASSUME NEW k \in Tasks, EndTool(k) PROVE UnknownIsMeant'
  BY <1>18 DEF EndTool, Working
<1>19. ASSUME NEW k \in Tasks, Stopped(k) PROVE UnknownIsMeant'
  BY <1>19 DEF Stopped, StopWith, SetRecord
<1>20. ASSUME NEW k \in Tasks, ToolUnknown(k) PROVE UnknownIsMeant'
  BY <1>20 DEF ToolUnknown, StopWith, SetRecord
<1>21. ASSUME NEW k \in Tasks, ToolCancelled(k) PROVE UnknownIsMeant'
  BY <1>21 DEF ToolCancelled, StopWith, SetRecord, Working
<1>22. ASSUME NEW k \in Tasks, Complete(k) PROVE UnknownIsMeant'
  BY <1>22 DEF Complete, Working, SetRecord
<1>23. ASSUME NEW k \in Tasks, Raise(k) PROVE UnknownIsMeant'
  BY <1>23 DEF Raise, Working, SetRecord
<1>24. ASSUME NEW k \in Tasks, RecordSaved(k) PROVE UnknownIsMeant'
  BY <1>24 DEF RecordSaved
<1>25. ASSUME NEW k \in Tasks, UserCancels(k) PROVE UnknownIsMeant'
  BY <1>25 DEF UserCancels, CancelTask, SetToken, CancelOuter, Settle, SetRecord
<1>26. ASSUME NEW k \in Tasks, Delete(k) PROVE UnknownIsMeant'
  BY <1>26 DEF Delete, SetToken, CancelOuter
<1>27. ASSUME NEW k \in Tasks, WorkflowCancelled(k) PROVE UnknownIsMeant'
  BY <1>27 DEF WorkflowCancelled, CancelOuter
<1>28. ASSUME NEW k \in Tasks, TimeLimit(k) PROVE UnknownIsMeant'
  BY <1>28 DEF TimeLimit, CancelOuter
<1>29. ASSUME NEW k \in Tasks, Watchdog(k) PROVE UnknownIsMeant'
  BY <1>29 DEF Watchdog
<1>30. ASSUME NEW t \in Turns, StopTurn(t) PROVE UnknownIsMeant'
  BY <1>30 DEF StopTurn
<1> QED
  BY <1>1, <1>2, <1>3, <1>4, <1>5, <1>6, <1>7, <1>8, <1>9, <1>10, <1>11, <1>12, <1>13, <1>14, <1>15,
     <1>16, <1>17, <1>18, <1>19, <1>20, <1>21, <1>22, <1>23, <1>24, <1>25, <1>26, <1>27, <1>28, <1>29, <1>30
  DEF Next, CallerStep, OuterStep, RunnerStep

\* cancel_task cancels the task it settles, and finds nothing to settle in a child that has
\* completed.
LEMMA DoneStep ==
    ASSUME TypeOK, StartedOnce, RunnerInPool, RunnersComeLater, EarlyStopsAreSettled,
           EndsAreReadable, DoneIsStopped, Next
    PROVE  DoneIsStopped'
<1> USE SubagentAssumption DEF TypeOK, StartedOnce, RunnerInPool, RunnersComeLater, EarlyStopsAreSettled,
            EndsAreReadable, DoneIsStopped, Readable, Unfinished, Terminal, OuterPCs, RunnerPCs,
            record, tables, runner, marks, tools, turns
<1>1. ASSUME NEW k \in Tasks, Spawn(k) PROVE DoneIsStopped'
  BY <1>1 DEF Spawn, Create
<1>2. ASSUME NEW k \in Tasks, Invoke(k) PROVE DoneIsStopped'
  BY <1>2 DEF Invoke, Create
<1>3. ASSUME NEW k \in Tasks, SpawnExecute(k) PROVE DoneIsStopped'
  BY <1>3 DEF SpawnExecute, SetRecord
<1>4. ASSUME NEW k \in Tasks, SpawnError(k) PROVE DoneIsStopped'
  BY <1>4 DEF SpawnError
<1>5. ASSUME NEW k \in Tasks, SpawnGivesUp(k) PROVE DoneIsStopped'
  BY <1>5 DEF SpawnGivesUp
<1>6. ASSUME NEW k \in Tasks, SpawnReturns(k) PROVE DoneIsStopped'
  BY <1>6 DEF SpawnReturns, CancelTask, SetToken, CancelOuter, Settle, SetRecord
<1>7. ASSUME NEW k \in Tasks, SpawnAbandons(k) PROVE DoneIsStopped'
  BY <1>7 DEF SpawnAbandons
<1>8. ASSUME NEW k \in Tasks, Enter(k) PROVE DoneIsStopped'
  BY <1>8 DEF Enter
<1>9. ASSUME NEW k \in Tasks, Queue(k) PROVE DoneIsStopped'
  BY <1>9 DEF Queue
<1>10. ASSUME NEW k \in Tasks, CancelledNew(k) PROVE DoneIsStopped'
  BY <1>10 DEF CancelledNew
<1>11. ASSUME NEW k \in Tasks, CancelledQueued(k) PROVE DoneIsStopped'
  BY <1>11 DEF CancelledQueued, EndOuter
<1>12. ASSUME NEW k \in Tasks, RunnerEnded(k) PROVE DoneIsStopped'
  BY <1>12 DEF RunnerEnded, EndOuter, SetRecord
<1>13. ASSUME NEW k \in Tasks, Saved(k) PROVE DoneIsStopped'
  BY <1>13 DEF Saved, EndOuter
<1>14. ASSUME NEW k \in Tasks, Settled(k) PROVE DoneIsStopped'
  BY <1>14 DEF Settled, Settle, SetRecord
<1>15. ASSUME NEW k \in Tasks, StartRunner(k) PROVE DoneIsStopped'
  BY <1>15 DEF StartRunner
<1>16. ASSUME NEW k \in Tasks, Escape(k) PROVE DoneIsStopped'
  BY <1>16 DEF Escape
<1>17. ASSUME NEW k \in Tasks, BeginTool(k) PROVE DoneIsStopped'
  BY <1>17 DEF BeginTool, Working
<1>18. ASSUME NEW k \in Tasks, EndTool(k) PROVE DoneIsStopped'
  BY <1>18 DEF EndTool, Working
<1>19. ASSUME NEW k \in Tasks, Stopped(k) PROVE DoneIsStopped'
  BY <1>19 DEF Stopped, StopWith, SetRecord
<1>20. ASSUME NEW k \in Tasks, ToolUnknown(k) PROVE DoneIsStopped'
  BY <1>20 DEF ToolUnknown, StopWith, SetRecord
<1>21. ASSUME NEW k \in Tasks, ToolCancelled(k) PROVE DoneIsStopped'
  BY <1>21 DEF ToolCancelled, StopWith, SetRecord, Working
<1>22. ASSUME NEW k \in Tasks, Complete(k) PROVE DoneIsStopped'
  BY <1>22 DEF Complete, Working, SetRecord
<1>23. ASSUME NEW k \in Tasks, Raise(k) PROVE DoneIsStopped'
  BY <1>23 DEF Raise, Working, SetRecord
<1>24. ASSUME NEW k \in Tasks, RecordSaved(k) PROVE DoneIsStopped'
  BY <1>24 DEF RecordSaved
<1>25. ASSUME NEW k \in Tasks, UserCancels(k) PROVE DoneIsStopped'
  BY <1>25 DEF UserCancels, CancelTask, SetToken, CancelOuter, Settle, SetRecord
<1>26. ASSUME NEW k \in Tasks, Delete(k) PROVE DoneIsStopped'
  BY <1>26 DEF Delete, SetToken, CancelOuter
<1>27. ASSUME NEW k \in Tasks, WorkflowCancelled(k) PROVE DoneIsStopped'
  BY <1>27 DEF WorkflowCancelled, CancelOuter
<1>28. ASSUME NEW k \in Tasks, TimeLimit(k) PROVE DoneIsStopped'
  BY <1>28 DEF TimeLimit, CancelOuter
<1>29. ASSUME NEW k \in Tasks, Watchdog(k) PROVE DoneIsStopped'
  BY <1>29 DEF Watchdog
<1>30. ASSUME NEW t \in Turns, StopTurn(t) PROVE DoneIsStopped'
  BY <1>30 DEF StopTurn
<1> QED
  BY <1>1, <1>2, <1>3, <1>4, <1>5, <1>6, <1>7, <1>8, <1>9, <1>10, <1>11, <1>12, <1>13, <1>14, <1>15,
     <1>16, <1>17, <1>18, <1>19, <1>20, <1>21, <1>22, <1>23, <1>24, <1>25, <1>26, <1>27, <1>28, <1>29, <1>30
  DEF Next, CallerStep, OuterStep, RunnerStep

\* Only cancel_task releases the waiters of a child that has still to end; it sets the token if
\* there is one, and otherwise leaves a child that its runner may at most call a failure.
LEMMA ReportsStep ==
    ASSUME TypeOK, StartedOnce, RunnerInPool, RunnersComeLater, EarlyStopsAreSettled,
           EndsAreReadable, UnknownIsMeant, DoneIsStopped, ReportsComeLast, Next
    PROVE  ReportsComeLast'
<1> USE SubagentAssumption DEF TypeOK, StartedOnce, RunnerInPool, RunnersComeLater, EndsAreReadable,
            EarlyStopsAreSettled, UnknownIsMeant, DoneIsStopped, ReportsComeLast, SettledFirst,
            Readable, Unfinished, Terminal, Outcomes, OuterPCs, RunnerPCs, PossibleEffect, CancelledOutcome, TimeoutOutcome, record, tables, runner, marks, tools, turns
<1>1. ASSUME NEW k \in Tasks, Spawn(k) PROVE ReportsComeLast'
  BY <1>1 DEF Spawn, Create
<1>2. ASSUME NEW k \in Tasks, Invoke(k) PROVE ReportsComeLast'
  BY <1>2 DEF Invoke, Create
<1>3. ASSUME NEW k \in Tasks, SpawnExecute(k) PROVE ReportsComeLast'
  BY <1>3 DEF SpawnExecute, SetRecord
<1>4. ASSUME NEW k \in Tasks, SpawnError(k) PROVE ReportsComeLast'
  BY <1>4 DEF SpawnError
<1>5. ASSUME NEW k \in Tasks, SpawnGivesUp(k) PROVE ReportsComeLast'
  BY <1>5 DEF SpawnGivesUp
<1>6. ASSUME NEW k \in Tasks, SpawnReturns(k) PROVE ReportsComeLast'
  BY <1>6 DEF SpawnReturns, CancelTask, SetToken, CancelOuter, Settle, SetRecord
<1>7. ASSUME NEW k \in Tasks, SpawnAbandons(k) PROVE ReportsComeLast'
  BY <1>7 DEF SpawnAbandons
<1>8. ASSUME NEW k \in Tasks, Enter(k) PROVE ReportsComeLast'
  BY <1>8 DEF Enter
<1>9. ASSUME NEW k \in Tasks, Queue(k) PROVE ReportsComeLast'
  BY <1>9 DEF Queue
<1>10. ASSUME NEW k \in Tasks, CancelledNew(k) PROVE ReportsComeLast'
  BY <1>10 DEF CancelledNew
<1>11. ASSUME NEW k \in Tasks, CancelledQueued(k) PROVE ReportsComeLast'
  BY <1>11 DEF CancelledQueued, EndOuter
<1>12. ASSUME NEW k \in Tasks, RunnerEnded(k) PROVE ReportsComeLast'
  BY <1>12 DEF RunnerEnded, EndOuter, SetRecord
<1>13. ASSUME NEW k \in Tasks, Saved(k) PROVE ReportsComeLast'
  BY <1>13 DEF Saved, EndOuter
<1>14. ASSUME NEW k \in Tasks, Settled(k) PROVE ReportsComeLast'
  BY <1>14 DEF Settled, Settle, SetRecord
<1>15. ASSUME NEW k \in Tasks, StartRunner(k) PROVE ReportsComeLast'
  BY <1>15 DEF StartRunner
<1>16. ASSUME NEW k \in Tasks, Escape(k) PROVE ReportsComeLast'
  BY <1>16 DEF Escape
<1>17. ASSUME NEW k \in Tasks, BeginTool(k) PROVE ReportsComeLast'
  BY <1>17 DEF BeginTool, Working
<1>18. ASSUME NEW k \in Tasks, EndTool(k) PROVE ReportsComeLast'
  BY <1>18 DEF EndTool, Working
<1>19. ASSUME NEW k \in Tasks, Stopped(k) PROVE ReportsComeLast'
  BY <1>19 DEF Stopped, StopWith, SetRecord
<1>20. ASSUME NEW k \in Tasks, ToolUnknown(k) PROVE ReportsComeLast'
  BY <1>20 DEF ToolUnknown, StopWith, SetRecord
<1>21. ASSUME NEW k \in Tasks, ToolCancelled(k) PROVE ReportsComeLast'
  BY <1>21 DEF ToolCancelled, StopWith, SetRecord, Working
<1>22. ASSUME NEW k \in Tasks, Complete(k) PROVE ReportsComeLast'
  BY <1>22 DEF Complete, Working, SetRecord
<1>23. ASSUME NEW k \in Tasks, Raise(k) PROVE ReportsComeLast'
  BY <1>23 DEF Raise, Working, SetRecord
<1>24. ASSUME NEW k \in Tasks, RecordSaved(k) PROVE ReportsComeLast'
  BY <1>24 DEF RecordSaved
<1>25. ASSUME NEW k \in Tasks, UserCancels(k) PROVE ReportsComeLast'
  BY <1>25 DEF UserCancels, CancelTask, SetToken, CancelOuter, Settle, SetRecord
<1>26. ASSUME NEW k \in Tasks, Delete(k) PROVE ReportsComeLast'
  BY <1>26 DEF Delete, SetToken, CancelOuter
<1>27. ASSUME NEW k \in Tasks, WorkflowCancelled(k) PROVE ReportsComeLast'
  BY <1>27 DEF WorkflowCancelled, CancelOuter
<1>28. ASSUME NEW k \in Tasks, TimeLimit(k) PROVE ReportsComeLast'
  BY <1>28 DEF TimeLimit, CancelOuter
<1>29. ASSUME NEW k \in Tasks, Watchdog(k) PROVE ReportsComeLast'
  BY <1>29 DEF Watchdog
<1>30. ASSUME NEW t \in Turns, StopTurn(t) PROVE ReportsComeLast'
  BY <1>30 DEF StopTurn
<1> QED
  BY <1>1, <1>2, <1>3, <1>4, <1>5, <1>6, <1>7, <1>8, <1>9, <1>10, <1>11, <1>12, <1>13, <1>14, <1>15,
     <1>16, <1>17, <1>18, <1>19, <1>20, <1>21, <1>22, <1>23, <1>24, <1>25, <1>26, <1>27, <1>28, <1>29, <1>30
  DEF Next, CallerStep, OuterStep, RunnerStep

-----------------------------------------------------------------------------
(***************************************************************************)
(* The theorems.                                                           *)
(***************************************************************************)

\* At the start there is no child.
LEMMA InitIInv ==
    ASSUME Init
    PROVE  IInv
<1>1. TypeOK /\ StartedOnce /\ RunnerInPool /\ QueuedCanBeStopped /\ NoGhosts
  BY SubagentAssumption
  DEF Init, TypeOK, Outcomes, OuterPCs, RunnerPCs, SpawnPCs, StartedOnce, RunnerInPool,
      QueuedCanBeStopped, NoGhosts
<1>2. InPool = {}
  BY DEF Init, InPool
<1>3. PoolCount
  BY <1>2, FS_EmptySet, SubagentAssumption DEF PoolCount
<1>4. RunnersComeLater /\ EarlyStopsAreSettled /\ EndsAreReadable /\ ReportsComeLast
  BY SubagentAssumption
  DEF Init, Readable, RunnersComeLater, EarlyStopsAreSettled, EndsAreReadable, ReportsComeLast
<1>5. UnknownIsMeant /\ DoneIsStopped
  BY DEF Init, UnknownIsMeant, DoneIsStopped
<1> QED BY <1>1, <1>3, <1>4, <1>5 DEF IInv

\* A step that changes nothing keeps the invariant.
LEMMA StutterIInv ==
    ASSUME IInv, UNCHANGED vars
    PROVE  IInv'
<1> USE DEF IInv, vars, record, tables, runner, marks, tools, turns
<1>1. TypeOK' /\ StartedOnce'
  BY DEF TypeOK, StartedOnce
<1>2. RunnerInPool' /\ QueuedCanBeStopped' /\ NoGhosts'
  BY DEF RunnerInPool, QueuedCanBeStopped, NoGhosts
<1>3. PoolCount'
  BY DEF PoolCount, InPool
<1>4. RunnersComeLater' /\ EarlyStopsAreSettled' /\ EndsAreReadable' /\ ReportsComeLast'
  BY DEF Readable, RunnersComeLater, EarlyStopsAreSettled, EndsAreReadable, ReportsComeLast,
         SettledFirst
<1>5. UnknownIsMeant' /\ DoneIsStopped'
  BY DEF UnknownIsMeant, DoneIsStopped, PossibleEffect
<1> QED BY <1>1, <1>2, <1>3, <1>4, <1>5

\* IInv is inductive.
THEOREM SubagentsInductive == Spec => []IInv
<1>1. Init => IInv
  BY InitIInv
<1>2. IInv /\ [Next]_vars => IInv'
  BY TypeStep, StartedStep, RunnerStepInPool, QueuedStep, GhostStep, PoolStep, LaterStep, EarlyStep,
     EndsStep, UnknownStep, DoneStep, ReportsStep, StutterIInv DEF IInv
<1> QED BY <1>1, <1>2, PTL DEF Spec

\* Every reachable state has the types of TypeOK.
THEOREM SubagentsTypeCorrect == Spec => []TypeOK
<1>1. IInv => TypeOK
  BY DEF IInv
<1> QED BY <1>1, SubagentsInductive, PTL

\* PoolIsRespected for every number of children and places: the children whose runners work
\* are among those that have a place, and those are never more than MaxConcurrent, however
\* children are stopped (_run_task).
THEOREM PoolNeverOverfull == Spec => []PoolIsRespected
<1>1. ASSUME IInv PROVE PoolIsRespected
  <2>1. AtWork \subseteq InPool
    BY <1>1 DEF IInv, RunnerInPool, InPool, AtWork
  <2>2. IsFiniteSet(InPool)
    BY FS_Subset, SubagentAssumption DEF InPool
  <2>3. /\ Cardinality(AtWork) <= Cardinality(InPool)
        /\ Cardinality(AtWork) \in Nat /\ Cardinality(InPool) \in Nat
    BY <2>1, <2>2, FS_Subset, FS_CardinalityType
  <2>4. Cardinality(InPool) <= MaxConcurrent
    BY <1>1 DEF IInv, PoolCount
  <2>5. Cardinality(AtWork) <= MaxConcurrent
    BY <2>3, <2>4, SubagentAssumption
  <2> QED BY <2>5 DEF PoolIsRespected
<1> QED BY <1>1, SubagentsInductive, PTL

\* NoGhosts for every number of children and turns: no order of deletions, cancellations and
\* starts leaves a child at work that is in no table and is not being cancelled (delete_task).
THEOREM NoChildIsLost == Spec => []NoGhosts
<1>1. IInv => NoGhosts
  BY DEF IInv
<1> QED BY <1>1, SubagentsInductive, PTL

\* The results that the spawn tool has reported are those of the step before.
Reported ==
    \A k \in Tasks :
        spc[k] = "child" /\ (Turn[k] \in tokens \/ status[k] # "CANCELLED")
           => UNCHANGED <<status[k], outcome[k]>>

\* What the spawn tool reported is not written over.  With a token the runner is gone, _run_task
\* is past its last write, and _settle_cancelled_task finds nothing left to settle; without one a
\* child that is no longer CANCELLED was stopped by its runner, and the time limit finds the
\* outcome that it would write.
LEMMA ReportedIsKept ==
    ASSUME TypeOK, StartedOnce, RunnerInPool, RunnersComeLater, EarlyStopsAreSettled,
           EndsAreReadable, UnknownIsMeant, DoneIsStopped, ReportsComeLast, Next
    PROVE  Reported
<1> USE SubagentAssumption DEF TypeOK, StartedOnce, RunnerInPool, RunnersComeLater,
            EarlyStopsAreSettled, EndsAreReadable, UnknownIsMeant, DoneIsStopped, ReportsComeLast,
            SettledFirst, PossibleEffect, CancelledOutcome, TimeoutOutcome,
            Readable, Unfinished, Terminal, OuterPCs, RunnerPCs, Reported,
            record, tables, runner, marks, tools, turns
<1>1. ASSUME NEW k \in Tasks, Spawn(k) PROVE Reported
  BY <1>1 DEF Spawn, Create
<1>2. ASSUME NEW k \in Tasks, Invoke(k) PROVE Reported
  BY <1>2 DEF Invoke, Create
<1>3. ASSUME NEW k \in Tasks, SpawnExecute(k) PROVE Reported
  BY <1>3 DEF SpawnExecute, SetRecord
<1>4. ASSUME NEW k \in Tasks, SpawnError(k) PROVE Reported
  BY <1>4 DEF SpawnError
<1>5. ASSUME NEW k \in Tasks, SpawnGivesUp(k) PROVE Reported
  BY <1>5 DEF SpawnGivesUp
<1>6. ASSUME NEW k \in Tasks, SpawnReturns(k) PROVE Reported
  BY <1>6 DEF SpawnReturns, CancelTask, SetToken, CancelOuter, Settle, SetRecord
<1>7. ASSUME NEW k \in Tasks, SpawnAbandons(k) PROVE Reported
  BY <1>7 DEF SpawnAbandons
<1>8. ASSUME NEW k \in Tasks, Enter(k) PROVE Reported
  BY <1>8 DEF Enter
<1>9. ASSUME NEW k \in Tasks, Queue(k) PROVE Reported
  BY <1>9 DEF Queue
<1>10. ASSUME NEW k \in Tasks, CancelledNew(k) PROVE Reported
  BY <1>10 DEF CancelledNew
<1>11. ASSUME NEW k \in Tasks, CancelledQueued(k) PROVE Reported
  BY <1>11 DEF CancelledQueued, EndOuter
<1>12. ASSUME NEW k \in Tasks, RunnerEnded(k) PROVE Reported
  BY <1>12 DEF RunnerEnded, EndOuter, SetRecord
<1>13. ASSUME NEW k \in Tasks, Saved(k) PROVE Reported
  BY <1>13 DEF Saved, EndOuter
<1>14. ASSUME NEW k \in Tasks, Settled(k) PROVE Reported
  BY <1>14 DEF Settled, Settle, SetRecord
<1>15. ASSUME NEW k \in Tasks, StartRunner(k) PROVE Reported
  BY <1>15 DEF StartRunner
<1>16. ASSUME NEW k \in Tasks, Escape(k) PROVE Reported
  BY <1>16 DEF Escape
<1>17. ASSUME NEW k \in Tasks, BeginTool(k) PROVE Reported
  BY <1>17 DEF BeginTool, Working
<1>18. ASSUME NEW k \in Tasks, EndTool(k) PROVE Reported
  BY <1>18 DEF EndTool, Working
<1>19. ASSUME NEW k \in Tasks, Stopped(k) PROVE Reported
  BY <1>19 DEF Stopped, StopWith, SetRecord
<1>20. ASSUME NEW k \in Tasks, ToolUnknown(k) PROVE Reported
  BY <1>20 DEF ToolUnknown, StopWith, SetRecord
<1>21. ASSUME NEW k \in Tasks, ToolCancelled(k) PROVE Reported
  BY <1>21 DEF ToolCancelled, StopWith, SetRecord, Working
<1>22. ASSUME NEW k \in Tasks, Complete(k) PROVE Reported
  BY <1>22 DEF Complete, Working, SetRecord
<1>23. ASSUME NEW k \in Tasks, Raise(k) PROVE Reported
  BY <1>23 DEF Raise, Working, SetRecord
<1>24. ASSUME NEW k \in Tasks, RecordSaved(k) PROVE Reported
  BY <1>24 DEF RecordSaved
<1>25. ASSUME NEW k \in Tasks, UserCancels(k) PROVE Reported
  BY <1>25 DEF UserCancels, CancelTask, SetToken, CancelOuter, Settle, SetRecord
<1>26. ASSUME NEW k \in Tasks, Delete(k) PROVE Reported
  BY <1>26 DEF Delete, SetToken, CancelOuter
<1>27. ASSUME NEW k \in Tasks, WorkflowCancelled(k) PROVE Reported
  BY <1>27 DEF WorkflowCancelled, CancelOuter
<1>28. ASSUME NEW k \in Tasks, TimeLimit(k) PROVE Reported
  BY <1>28 DEF TimeLimit, CancelOuter
<1>29. ASSUME NEW k \in Tasks, Watchdog(k) PROVE Reported
  BY <1>29 DEF Watchdog
<1>30. ASSUME NEW t \in Turns, StopTurn(t) PROVE Reported
  BY <1>30 DEF StopTurn
<1> QED
  BY <1>1, <1>2, <1>3, <1>4, <1>5, <1>6, <1>7, <1>8, <1>9, <1>10, <1>11, <1>12, <1>13, <1>14, <1>15,
     <1>16, <1>17, <1>18, <1>19, <1>20, <1>21, <1>22, <1>23, <1>24, <1>25, <1>26, <1>27, <1>28, <1>29, <1>30
  DEF Next, CallerStep, OuterStep, RunnerStep

\* DoneIsReadable for every number of children and turns: whatever stops a child, and whenever,
\* who waits for done_event finds that it has ended, and the spawn tool finds an outcome
\* (_settle_cancelled_task).
THEOREM DoneMeansReadable == Spec => []DoneIsReadable
<1>1. IInv => DoneIsReadable
  BY DEF IInv, TypeOK, EndsAreReadable, Readable, DoneIsReadable
<1> QED BY <1>1, SubagentsInductive, PTL

\* ReportsStayTrue: the status and the outcome of a child are never written again once the
\* spawn tool has told the agent about them, in a turn with a cancel token; in one without, a
\* reported completion or failure is not (cancel_task, spawn.py:184).
THEOREM ReportsAreFinal == Spec => ReportsStayTrue
<1>1. ASSUME IInv, [Next]_vars
      PROVE  [Reported]_vars
  BY <1>1, ReportedIsKept DEF IInv
<1> QED BY <1>1, SubagentsInductive, PTL DEF Spec, ReportsStayTrue, Reported

-----------------------------------------------------------------------------
(***************************************************************************)
(* The manager implements ChildPool.                                       *)
(***************************************************************************)

\* Who is past its done callback has its done_event.
EndedAreDone == \A k \in Tasks : opc[k] = "ended" => k \in done

LEMMA EndedStep ==
    ASSUME TypeOK, EndedAreDone, [Next]_vars
    PROVE  EndedAreDone'
<1> USE DEF TypeOK, EndedAreDone, OuterPCs, record, tables, runner, marks, tools, turns
<1>1. ASSUME NEW k \in Tasks,
            Spawn(k) \/ Invoke(k) \/ SpawnExecute(k) \/ SpawnError(k) \/ SpawnGivesUp(k)
            \/ SpawnReturns(k) \/ SpawnAbandons(k)
      PROVE  EndedAreDone'
  BY <1>1 DEF Spawn, Create, Invoke, SpawnExecute, SetRecord, SpawnError, SpawnGivesUp,
         SpawnReturns, CancelTask, CancelOuter, Settle, SpawnAbandons
<1>2. ASSUME NEW k \in Tasks,
            Enter(k) \/ Queue(k) \/ CancelledNew(k) \/ CancelledQueued(k) \/ RunnerEnded(k)
            \/ Saved(k) \/ Settled(k)
      PROVE  EndedAreDone'
  BY <1>2 DEF Enter, Queue, CancelledNew, CancelledQueued, EndOuter, RunnerEnded, SetRecord,
         Saved, Settled, Settle
<1>3. ASSUME NEW k \in Tasks,
            StartRunner(k) \/ Escape(k) \/ BeginTool(k) \/ EndTool(k) \/ Stopped(k)
            \/ ToolUnknown(k) \/ ToolCancelled(k) \/ Complete(k) \/ Raise(k) \/ RecordSaved(k)
      PROVE  EndedAreDone'
  BY <1>3 DEF StartRunner, Escape, BeginTool, Working, EndTool, Stopped, StopWith, SetRecord,
         ToolUnknown, ToolCancelled, Complete, Raise, RecordSaved
<1>4. ASSUME NEW k \in Tasks,
            UserCancels(k) \/ Delete(k) \/ WorkflowCancelled(k) \/ TimeLimit(k)
            \/ Watchdog(k)
      PROVE  EndedAreDone'
  BY <1>4 DEF UserCancels, CancelTask, SetToken, CancelOuter, Settle, SetRecord, Delete, WorkflowCancelled,
         TimeLimit, Watchdog
<1>5. CASE (\E t \in Turns : StopTurn(t)) \/ UNCHANGED vars
  BY <1>5 DEF StopTurn, vars
<1> QED
  BY <1>1, <1>2, <1>3, <1>4, <1>5 DEF Next, CallerStep, OuterStep, RunnerStep

\* Of a child that nothing happens to ChildPool sees nothing.
Unseen(k) ==
    /\ Stage(opc[k])' = Stage(opc[k])
    /\ rpc'[k] \in {"none", "ended"} <=> rpc[k] \in {"none", "ended"}
    /\ opc'[k] = "ended" <=> opc[k] = "ended"
    /\ opc[k] = "ended" => outcome'[k] = outcome[k]

\* If ChildPool sees nothing of any child it stutters.
LEMMA UnseenStutters ==
    ASSUME \A k \in Tasks : Unseen(k)
    PROVE  UNCHANGED Places!vars
<1>1. [k \in Tasks |-> Stage(opc[k])]' = [k \in Tasks |-> Stage(opc[k])]
  BY DEF Unseen
<1>2. AtWork' = AtWork
  BY DEF Unseen, AtWork
<1>3. [k \in Tasks |-> IF opc[k] = "ended" THEN outcome[k] ELSE "none"]'
        = [k \in Tasks |-> IF opc[k] = "ended" THEN outcome[k] ELSE "none"]
  BY DEF Unseen
<1> QED
  BY <1>1, <1>2, <1>3 DEF Places!vars

\* A child that moves on, and no other.
LEMMA OneMoves ==
    ASSUME NEW k \in Tasks, \A j \in Tasks \ {k} : Unseen(j),
           NEW from, NEW to, Stage(opc[k]) = from, Stage(opc[k])' = to
    PROVE  Places!Moves(k, from, to)
<1>1. [j \in Tasks |-> Stage(opc[j])]'
        = [[j \in Tasks |-> Stage(opc[j])] EXCEPT ![k] = to]
  BY DEF Unseen
<1> QED
  BY <1>1 DEF Places!Moves

\* Nobody starts to work or stops working; nobody's result changes.
LEMMA WorkStays ==
    ASSUME \A j \in Tasks : rpc'[j] \in {"none", "ended"} <=> rpc[j] \in {"none", "ended"}
    PROVE  AtWork' = AtWork
BY DEF AtWork

LEMMA ResultsStay ==
    ASSUME \A j \in Tasks : /\ opc'[j] = "ended" <=> opc[j] = "ended"
                            /\ opc[j] = "ended" => outcome'[j] = outcome[j]
    PROVE  [j \in Tasks |-> IF opc[j] = "ended" THEN outcome[j] ELSE "none"]'
             = [j \in Tasks |-> IF opc[j] = "ended" THEN outcome[j] ELSE "none"]
OBVIOUS

\* The steps of which ChildPool sees nothing: a write to the record of a child that is over would
\* be seen, and there is none.
LEMMA QuietSteps ==
    ASSUME TypeOK, StartedOnce, RunnerInPool, RunnersComeLater, EndsAreReadable, EndedAreDone,
           NEW k \in Tasks,
           Spawn(k) \/ SpawnError(k) \/ SpawnGivesUp(k) \/ SpawnReturns(k)
           \/ SpawnAbandons(k) \/ Queue(k) \/ StartRunner(k) \/ BeginTool(k) \/ EndTool(k)
           \/ Stopped(k) \/ ToolUnknown(k) \/ ToolCancelled(k) \/ Complete(k) \/ Raise(k)
           \/ UserCancels(k) \/ Delete(k) \/ WorkflowCancelled(k) \/ TimeLimit(k)
           \/ Watchdog(k)
    PROVE  \A j \in Tasks : Unseen(j)
<1> USE DEF TypeOK, StartedOnce, RunnerInPool, RunnersComeLater, EndsAreReadable, EndedAreDone,
            Readable, Unfinished, Terminal, OuterPCs, RunnerPCs, Unseen, Stage,
            record, tables, runner, marks, tools, turns
<1>1. CASE Spawn(k) \/ SpawnError(k) \/ SpawnGivesUp(k) \/ SpawnReturns(k)
             \/ SpawnAbandons(k)
  BY <1>1 DEF Spawn, Create, SpawnError, SpawnGivesUp, SpawnReturns, CancelTask, CancelOuter,
         Settle, SetRecord, SpawnAbandons
<1>2. CASE Queue(k) \/ StartRunner(k) \/ BeginTool(k) \/ EndTool(k) \/ Stopped(k)
             \/ ToolUnknown(k) \/ ToolCancelled(k) \/ Complete(k) \/ Raise(k)
  BY <1>2 DEF Queue, StartRunner, BeginTool, Working, EndTool, Stopped, StopWith, SetRecord,
         ToolUnknown, ToolCancelled, Complete, Raise
<1>3. CASE UserCancels(k) \/ Delete(k) \/ WorkflowCancelled(k) \/ TimeLimit(k)
             \/ Watchdog(k)
  BY <1>3 DEF UserCancels, CancelTask, SetToken, CancelOuter, Settle, SetRecord, Delete, WorkflowCancelled,
         TimeLimit, Watchdog
<1> QED
  BY <1>1, <1>2, <1>3

\* ChildPool counts as the manager does.
LEMMA SameCount == \A S : Places!Cardinality(S) = Cardinality(S)
BY DEF Places!Cardinality, Cardinality

\* The other steps are the steps of ChildPool.
LEMMA LoudSteps ==
    ASSUME TypeOK, StartedOnce, RunnerInPool, RunnersComeLater, EndsAreReadable, EndedAreDone,
           NEW k \in Tasks,
           Invoke(k) \/ SpawnExecute(k) \/ Enter(k) \/ CancelledNew(k) \/ CancelledQueued(k)
           \/ RunnerEnded(k) \/ Saved(k) \/ Settled(k) \/ Escape(k) \/ RecordSaved(k)
    PROVE  Places!Next \/ UNCHANGED Places!vars
<1> DEFINE Others == \A j \in Tasks \ {k} : Unseen(j)
           Work == \A j \in Tasks : rpc'[j] \in {"none", "ended"} <=> rpc[j] \in {"none", "ended"}
           Kept == \A j \in Tasks : /\ opc'[j] = "ended" <=> opc[j] = "ended"
                                    /\ opc[j] = "ended" => outcome'[j] = outcome[j]
<1> USE DEF TypeOK, StartedOnce, RunnerInPool, RunnersComeLater, OuterPCs, RunnerPCs, Unseen, Stage,
            record, tables, runner, marks, tools, turns
<1> HIDE DEF Others, Work, Kept
<1>1. CASE Invoke(k) \/ SpawnExecute(k)
  <2>1. Others /\ Work /\ Kept /\ Stage(opc[k]) = "new" /\ Stage(opc[k])' = "waiting"
    BY <1>1 DEF Invoke, Create, SpawnExecute, SetRecord, Others, Work, Kept
  <2>2. Places!Start(k)
    BY OneMoves, WorkStays, ResultsStay, <2>1 DEF Places!Start, Others, Work, Kept
  <2> QED
    BY <2>2 DEF Places!Next
<1>2. CASE Enter(k)
  <2>1. Others /\ Kept /\ Stage(opc[k]) = "waiting" /\ Stage(opc[k])' = "placed"
    BY <1>2 DEF Enter, Others, Kept
  <2>2. AtWork' = AtWork \union {k}
    BY <1>2 DEF Enter, AtWork
  <2>3. Places!Placed = InPool
    BY DEF Places!Placed, InPool
  <2>4. Cardinality(Places!Placed) < MaxConcurrent
    BY <1>2, <2>3 DEF Enter
  <2>5. Places!Moves(k, "waiting", "placed")
    BY OneMoves, <2>1 DEF Others
  <2>6. [j \in Tasks |-> IF opc[j] = "ended" THEN outcome[j] ELSE "none"]'
          = [j \in Tasks |-> IF opc[j] = "ended" THEN outcome[j] ELSE "none"]
    BY ResultsStay, <2>1 DEF Kept
  <2>7. Places!Admit(k)
    BY SameCount, <2>2, <2>4, <2>5, <2>6 DEF Places!Admit
  <2> QED
    BY <2>7 DEF Places!Next
<1>3. CASE CancelledNew(k) \/ CancelledQueued(k)
  <2>1. Others /\ Work /\ Kept /\ Stage(opc[k]) = "waiting" /\ Stage(opc[k])' = "leaving"
    BY <1>3 DEF CancelledNew, CancelledQueued, EndOuter, Others, Work, Kept
  <2>2. Places!GiveUp(k)
    BY OneMoves, WorkStays, ResultsStay, <2>1 DEF Places!GiveUp, Others, Work, Kept
  <2> QED
    BY <2>2 DEF Places!Next
<1>4. CASE Escape(k) \/ RecordSaved(k)
  <2>1. Kept /\ opc' = opc
    BY <1>4 DEF Escape, RecordSaved, Kept
  <2>2. k \in AtWork /\ AtWork' = AtWork \ {k}
    BY <1>4 DEF Escape, RecordSaved, AtWork
  <2>3. Places!Rest(k)
    BY ResultsStay, <2>1, <2>2 DEF Places!Rest, Kept
  <2> QED
    BY <2>3 DEF Places!Next
<1>5. CASE RunnerEnded(k)
  <2>1. Others /\ Work /\ Kept /\ k \notin AtWork /\ Stage(opc[k]) = "placed"
    BY <1>5 DEF RunnerEnded, EndOuter, SetRecord, AtWork, Others, Work, Kept
  <2>2. opc'[k] \in {"saving", "savingCancel", "settling"}
    BY <1>5 DEF RunnerEnded, EndOuter, SetRecord
  <2>3. CASE opc'[k] = "saving"
    <3>1. Unseen(k)
      BY <1>5, <2>1, <2>3 DEF RunnerEnded, Work, Kept
    <3> QED
      BY <2>1, <3>1, UnseenStutters DEF Others
  <2>4. CASE opc'[k] \in {"savingCancel", "settling"}
    <3>1. Places!Release(k)
      BY OneMoves, WorkStays, ResultsStay, <2>1, <2>4 DEF Places!Release, Others, Work, Kept
    <3> QED
      BY <3>1 DEF Places!Next
  <2> QED
    BY <2>2, <2>3, <2>4
<1>6. CASE Saved(k)
  <2>1. Others /\ Work /\ Kept /\ Stage(opc[k])' = "leaving"
    BY <1>6 DEF Saved, EndOuter, Others, Work, Kept
  <2>2. CASE opc[k] = "saving"
    <3>1. k \notin AtWork
      BY <2>2 DEF AtWork
    <3>2. Places!Release(k)
      BY OneMoves, WorkStays, ResultsStay, <2>1, <2>2, <3>1
      DEF Places!Release, Others, Work, Kept
    <3> QED
      BY <3>2 DEF Places!Next
  <2>3. CASE opc[k] = "savingCancel"
    <3>1. Unseen(k)
      BY <2>1, <2>3 DEF Work, Kept
    <3> QED
      BY <2>1, <3>1, UnseenStutters DEF Others
  <2> QED
    BY <1>6, <2>2, <2>3 DEF Saved
<1>7. CASE Settled(k)
  <2>1. Others /\ Work /\ Stage(opc[k]) = "leaving" /\ Stage(opc[k])' = "over"
    BY <1>7 DEF Settled, Settle, SetRecord, Others, Work
  <2>2. outcome'[k] \in Outcomes \ {"none"}
    BY <1>7 DEF Settled, Settle, SetRecord, CancelledOutcome, Outcomes
  <2>3. [j \in Tasks |-> IF opc[j] = "ended" THEN outcome[j] ELSE "none"]'
          = [[j \in Tasks |-> IF opc[j] = "ended" THEN outcome[j] ELSE "none"]
                EXCEPT ![k] = outcome'[k]]
    <3>1. \A j \in Tasks \ {k} : opc'[j] = opc[j] /\ outcome'[j] = outcome[j]
      BY <1>7 DEF Settled, Settle, SetRecord
    <3>2. opc'[k] = "ended"
      BY <1>7 DEF Settled
    <3> DEFINE R == [j \in Tasks |-> IF opc[j] = "ended" THEN outcome[j] ELSE "none"]
    <3>3. \A j \in Tasks : R'[j] = IF j = k THEN outcome'[k] ELSE R[j]
      BY <3>1, <3>2
    <3> QED
      BY <3>3
  <2>4. Places!Conclude(k)
    BY OneMoves, WorkStays, <2>1, <2>2, <2>3 DEF Places!Conclude, Others, Work
  <2> QED
    BY <2>4 DEF Places!Next
<1> QED
  BY <1>1, <1>2, <1>3, <1>4, <1>5, <1>6, <1>7

\* A child that nobody has started is new.
LEMMA PlacesInit == Init => Places!Init
BY DEF Init, Places!Init, Stage, AtWork

\* The manager implements ChildPool, for every number of children and of places: whatever stops
\* children, and whenever, each works only in a place it has waited for, gives it back once it
\* has stopped, and comes to one result that stays (_run_task, _settle_cancelled_task).
THEOREM ManagerImplementsPool == Spec => ChildrenKeepToThePool
<1>1. Init => Places!Init /\ EndedAreDone
  BY PlacesInit DEF Init, EndedAreDone
<1>2. IInv /\ EndedAreDone /\ [Next]_vars => EndedAreDone'
  BY EndedStep DEF IInv
<1>3. IInv /\ EndedAreDone /\ [Next]_vars => [Places!Next]_(Places!vars)
  <2> SUFFICES ASSUME IInv, EndedAreDone, [Next]_vars
               PROVE  Places!Next \/ UNCHANGED Places!vars
    OBVIOUS
  <2>1. CASE \E t \in Turns : StopTurn(t)
    <3>1. \A j \in Tasks : Unseen(j)
      BY <2>1 DEF StopTurn, Unseen, record, runner
    <3> QED
      BY <3>1, UnseenStutters
  <2>2. CASE UNCHANGED vars
    <3>1. \A j \in Tasks : Unseen(j)
      BY <2>2 DEF vars, Unseen, record, runner
    <3> QED
      BY <3>1, UnseenStutters
  <2>3. ASSUME NEW k \in Tasks,
               \/ Spawn(k) \/ Invoke(k) \/ CallerStep(k) \/ SpawnAbandons(k)
               \/ OuterStep(k) \/ RunnerStep(k)
               \/ UserCancels(k) \/ Delete(k) \/ WorkflowCancelled(k) \/ TimeLimit(k) \/ Watchdog(k)
        PROVE  Places!Next \/ UNCHANGED Places!vars
    BY <2>3, QuietSteps, LoudSteps, UnseenStutters DEF IInv, CallerStep, OuterStep, RunnerStep
  <2> QED
    BY <2>1, <2>2, <2>3 DEF Next
<1> QED
  BY <1>1, <1>2, <1>3, SubagentsInductive, PTL DEF Spec, ChildrenKeepToThePool, Places!Spec

-----------------------------------------------------------------------------
(***************************************************************************)
(* The workflow, whose slots await such children.                          *)
(***************************************************************************)

\* How the workflow is run.
W == INSTANCE WorkflowEngine

-----------------------------------------------------------------------------
(***************************************************************************)
(* The workflow: the cycle check.                                          *)
(***************************************************************************)

OnStack(s) == \E i \in 1 .. Len(stack) : stack[i] = s

\* The slots whose call of _dfs has returned.
Returned == {s \in visited : ~OnStack(s)}

\* The stack is a path along depends_on of slots that were visited, each once.
PathInv ==
    /\ \A i \in 1 .. Len(stack) : stack[i] \in visited
    /\ \A i, j \in 1 .. Len(stack) : stack[i] = stack[j] => i = j
    /\ \A i \in 1 .. Len(stack) - 1 : stack[i + 1] \in deps[stack[i]]

\* What a slot on the stack has looked at has returned, but for the one it is calling.
TodoInv ==
    /\ \A s \in W!Slots : todo[s] \subseteq deps[s] /\ (s \notin visited => todo[s] = deps[s])
    /\ \A i \in 1 .. Len(stack) : \A d \in deps[stack[i]] \ todo[stack[i]] :
          d \in Returned \/ (i < Len(stack) /\ d = stack[i + 1])

\* The slots that have returned depend only on each other, and not in a circle.
ReturnedInv ==
    /\ \A s \in Returned : deps[s] \subseteq Returned
    /\ \A S \in SUBSET Returned : S # {} => \E s \in S : deps[s] \intersect S = {}

\* The check is sound as far as it has come, and its verdict is right.
CheckInv ==
    /\ at \in {"new", "checking"} => PathInv /\ TodoInv /\ ReturnedInv
    /\ at = "checking" => mode = "graph"
    /\ mode # "graph" => \A s \in W!Slots : deps[s] = {}
    /\ W!OnlyCyclesAreRejected
    /\ result = "rejected" => at = "over"

\* A call of _dfs puts a slot on the stack that was not visited.
LEMMA VisitKeepsCheck ==
    ASSUME W!TypeOK, PathInv, TodoInv, ReturnedInv, NEW n \in W!Slots, n \notin visited, W!Visit(n),
           deps' = deps,
           \/ stack = <<>> /\ todo' = todo
           \/ /\ stack # <<>> /\ n \in todo[stack[Len(stack)]]
              /\ todo' = [todo EXCEPT ![stack[Len(stack)]] = @ \ {n}]
    PROVE  PathInv' /\ TodoInv' /\ ReturnedInv'
<1> DEFINE q == stack
           r == stack'
           L == Len(stack)
<1>1. /\ q \in Seq(W!Slots) /\ L \in Nat
      /\ \A i \in 1 .. L : q[i] \in W!Slots
      /\ q = <<>> => L = 0
  BY EmptySeq, LenProperties DEF W!TypeOK
<1>2. /\ r \in Seq(W!Slots) /\ Len(r) = L + 1
      /\ \A i \in 1 .. L : r[i] = q[i]
      /\ r[L + 1] = n
  BY <1>1, AppendProperties DEF W!Visit
<1>3. visited' = visited \union {n} /\ visited \subseteq W!Slots
  BY DEF W!Visit, W!TypeOK
<1>4. \A s \in W!Slots : todo[s] \subseteq W!Slots /\ deps[s] \subseteq W!Slots
  BY DEF W!TypeOK
<1>5. /\ \A s \in W!Slots : todo'[s] \subseteq todo[s]
      /\ \A s \in W!Slots : (L = 0 \/ s # q[L]) => todo'[s] = todo[s]
      /\ L # 0 => todo'[q[L]] = todo[q[L]] \ {n} /\ n \in deps[q[L]]
  <2>1. CASE stack = <<>> /\ todo' = todo
    BY <2>1, <1>1
  <2>2. CASE /\ stack # <<>> /\ n \in todo[stack[Len(stack)]]
             /\ todo' = [todo EXCEPT ![stack[Len(stack)]] = @ \ {n}]
    <3>1. L \in 1 .. L
      BY <2>2, <1>1, EmptySeq
    <3>2. q[L] \in W!Slots /\ todo \in [W!Slots -> SUBSET W!Slots]
      BY <3>1, <1>1 DEF W!TypeOK
    <3> QED
      BY <2>2, <3>1, <3>2 DEF TodoInv
  <2> QED
    BY <2>1, <2>2
<1> HIDE DEF q, r, L
<1>6. PathInv'
  <2>1. \A i \in 1 .. Len(r) : r[i] \in visited'
    BY <1>1, <1>2, <1>3 DEF PathInv, q, L
  <2>2. \A i, j \in 1 .. Len(r) : r[i] = r[j] => i = j
    BY <1>1, <1>2, <1>3 DEF PathInv, q, L
  <2>3. \A i \in 1 .. Len(r) - 1 : r[i + 1] \in deps'[r[i]]
    <3> SUFFICES ASSUME NEW i \in 1 .. Len(r) - 1 PROVE r[i + 1] \in deps[r[i]]
      OBVIOUS
    <3>1. CASE i = L
      BY <3>1, <1>1, <1>2, <1>5
    <3>2. CASE i # L
      <4>1. i \in 1 .. L - 1 /\ i \in 1 .. L /\ i + 1 \in 1 .. L
        BY <3>2, <1>1, <1>2
      <4>2. q[i + 1] \in deps[q[i]]
        BY <4>1 DEF PathInv, q, L
      <4> QED
        BY <4>1, <4>2, <1>2
    <3> QED
      BY <3>1, <3>2
  <2> QED
    BY <2>1, <2>2, <2>3 DEF PathInv, r
<1>7. Returned' = Returned
  <2>1. \A s : OnStack(s)' <=> (OnStack(s) \/ s = n)
    BY <1>1, <1>2 DEF OnStack, q, r, L
  <2> QED
    BY <2>1, <1>3 DEF Returned
<1>8. \A s \in W!Slots : todo'[s] \subseteq deps'[s] /\ (s \notin visited' => todo'[s] = deps'[s])
  <2> SUFFICES ASSUME NEW s \in W!Slots
               PROVE  todo'[s] \subseteq deps[s] /\ (s \notin visited' => todo'[s] = deps[s])
    OBVIOUS
  <2>1. L # 0 => q[L] \in visited
    BY <1>1 DEF PathInv, q, L
  <2> QED
    BY <2>1, <1>3, <1>5 DEF TodoInv
<1>9. ASSUME NEW i \in 1 .. Len(r), NEW d \in deps[r[i]] \ todo'[r[i]]
      PROVE  d \in Returned \/ (i < Len(r) /\ d = r[i + 1])
  <2>1. CASE i = L + 1
    <3>1. todo'[n] = deps[n]
      <4>1. L # 0 => q[L] \in visited
        BY <1>1 DEF PathInv, q, L
      <4> QED
        BY <4>1, <1>5 DEF TodoInv
    <3> QED
      BY <2>1, <3>1, <1>2, <1>9
  <2>2. CASE i = L
    <3>1. i \in 1 .. L /\ r[i] = q[L] /\ L # 0 /\ r[i + 1] = n
      BY <2>2, <1>1, <1>2
    <3>2. d = n \/ d \in deps[q[L]] \ todo[q[L]]
      BY <3>1, <1>5, <1>9
    <3>3. d = n \/ d \in Returned
      BY <3>1, <3>2, <1>1, <2>2 DEF TodoInv, q, L
    <3> QED
      BY <3>1, <3>3, <1>1, <1>2, <2>2
  <2>3. CASE i \in 1 .. L - 1
    <3>1. i \in 1 .. L /\ i + 1 \in 1 .. L /\ L \in 1 .. L /\ L # 0 /\ i # L
      BY <2>3, <1>1
    <3>2. q[i] # q[L] /\ r[i] = q[i] /\ r[i + 1] = q[i + 1] /\ q[i] \in W!Slots
      BY <3>1, <1>1, <1>2 DEF PathInv, q, L
    <3>3. d \in deps[q[i]] \ todo[q[i]]
      BY <3>2, <1>5, <1>9
    <3>4. d \in Returned \/ d = q[i + 1]
      BY <3>1, <3>3 DEF TodoInv, q, L
    <3> QED
      BY <3>1, <3>2, <3>4, <1>1, <1>2
  <2> QED
    BY <2>1, <2>2, <2>3, <1>1, <1>2
<1>10. TodoInv'
  BY <1>7, <1>8, <1>9 DEF TodoInv, r
<1>11. ReturnedInv'
  BY <1>7 DEF ReturnedInv
<1> QED
  BY <1>6, <1>10, <1>11

\* A look at a slot whose call has returned.
LEMMA LookKeepsCheck ==
    ASSUME W!TypeOK, PathInv, TodoInv, ReturnedInv, stack # <<>>,
           NEW n \in Returned, n \in todo[stack[Len(stack)]],
           todo' = [todo EXCEPT ![stack[Len(stack)]] = @ \ {n}],
           deps' = deps, stack' = stack, visited' = visited
    PROVE  PathInv' /\ TodoInv' /\ ReturnedInv'
<1> DEFINE top == stack[Len(stack)]
<1>1. /\ Len(stack) \in Nat /\ \A i \in 1 .. Len(stack) : stack[i] \in W!Slots
      /\ Len(stack) \in 1 .. Len(stack)
  BY EmptySeq, LenProperties DEF W!TypeOK
<1>2. /\ \A s \in W!Slots : s # top => todo'[s] = todo[s]
      /\ todo'[top] = todo[top] \ {n} /\ top \in W!Slots /\ top \in visited
  BY <1>1 DEF W!TypeOK, PathInv
<1>3. PathInv' /\ ReturnedInv' /\ Returned' = Returned
  BY DEF PathInv, ReturnedInv, Returned, OnStack
<1>4. \A s \in W!Slots : todo'[s] \subseteq deps'[s] /\ (s \notin visited' => todo'[s] = deps'[s])
  BY <1>2 DEF TodoInv
<1>5. ASSUME NEW i \in 1 .. Len(stack), NEW d \in deps[stack[i]] \ todo'[stack[i]]
      PROVE  d \in Returned \/ (i < Len(stack) /\ d = stack[i + 1])
  <2>1. d = n \/ d \notin todo[stack[i]]
    BY <1>1, <1>2, <1>5
  <2> QED
    BY <2>1, <1>5 DEF TodoInv
<1> QED
  BY <1>3, <1>4, <1>5 DEF TodoInv

\* A call that returns has looked at all its slot depends on, and they have returned.
LEMMA ReturnKeepsCheck ==
    ASSUME W!TypeOK, PathInv, TodoInv, ReturnedInv, stack # <<>>,
           todo[stack[Len(stack)]] = {},
           stack' = SubSeq(stack, 1, Len(stack) - 1),
           deps' = deps, todo' = todo, visited' = visited
    PROVE  PathInv' /\ TodoInv' /\ ReturnedInv'
<1> DEFINE q == stack
           r == stack'
           L == Len(stack)
<1> PICK n : n = stack[Len(stack)]
  OBVIOUS
<1>1. /\ q \in Seq(W!Slots) /\ L \in Nat /\ L \in 1 .. L
      /\ \A i \in 1 .. L : q[i] \in W!Slots
  BY EmptySeq, LenProperties DEF W!TypeOK
<1>2. /\ r \in Seq(W!Slots) /\ Len(r) = L - 1
      /\ \A i \in 1 .. L - 1 : r[i] = q[i]
  <2>1. 1 \in 1 .. L + 1 /\ L - 1 \in 0 .. L /\ r = SubSeq(q, 1, L - 1)
    BY <1>1
  <2> HIDE DEF q, r, L
  <2>2. /\ r \in Seq(W!Slots)
        /\ Len(r) = IF 1 <= L - 1 THEN L - 1 - 1 + 1 ELSE 0
        /\ \A i \in 1 .. L - 1 - 1 + 1 : r[i] = q[1 + i - 1]
    BY <1>1, <2>1, SubSeqProperties DEF L
  <2> QED
    BY <1>1, <2>2
<1>3. n \in W!Slots /\ n \in visited /\ n = q[L] /\ todo[n] = {}
  BY <1>1 DEF PathInv
<1> HIDE DEF q, r, L
<1>4. PathInv'
  <2>1. \A i \in 1 .. Len(r) : r[i] \in visited
    BY <1>1, <1>2 DEF PathInv, q, L
  <2>2. \A i, j \in 1 .. Len(r) : r[i] = r[j] => i = j
    BY <1>1, <1>2 DEF PathInv, q, L
  <2>3. \A i \in 1 .. Len(r) - 1 : r[i + 1] \in deps[r[i]]
    BY <1>1, <1>2 DEF PathInv, q, L
  <2> QED
    BY <2>1, <2>2, <2>3 DEF PathInv, r
<1>5. Returned' = Returned \union {n} /\ n \notin Returned
  <2>1. \A s : OnStack(s) <=> (OnStack(s)' \/ s = n)
    BY <1>1, <1>2, <1>3 DEF OnStack, q, r, L
  <2>2. ~OnStack(n)'
    <3> SUFFICES ASSUME NEW i \in 1 .. Len(r), r[i] = n PROVE FALSE
      BY DEF OnStack, r
    <3>1. i \in 1 .. L /\ i # L /\ q[i] = q[L]
      BY <1>1, <1>2, <1>3
    <3> QED
      BY <3>1, <1>1 DEF PathInv, q, L
  <2> QED
    BY <2>1, <2>2, <1>3 DEF Returned
<1>6. deps[n] \subseteq Returned
  <2> SUFFICES ASSUME NEW d \in deps[n] PROVE d \in Returned
    OBVIOUS
  <2>1. d \in Returned \/ (L < L /\ d = q[L + 1])
    BY <1>1, <1>3 DEF TodoInv, q, L
  <2> QED
    BY <2>1, <1>1
<1>7. TodoInv'
  <2>1. ASSUME NEW i \in 1 .. Len(r), NEW d \in deps[r[i]] \ todo[r[i]]
        PROVE  d \in Returned' \/ (i < Len(r) /\ d = r[i + 1])
    <3>1. i \in 1 .. L /\ i # L /\ r[i] = q[i]
      BY <1>1, <1>2
    <3>2. d \in Returned \/ d = q[i + 1]
      BY <3>1, <2>1 DEF TodoInv, q, L
    <3>3. CASE i = L - 1
      BY <3>2, <3>3, <1>1, <1>3, <1>5
    <3>4. CASE i # L - 1
      BY <3>1, <3>2, <3>4, <1>1, <1>2, <1>5
    <3> QED
      BY <3>3, <3>4
  <2> QED
    BY <2>1 DEF TodoInv, r
<1>8. ReturnedInv'
  <2>1. \A s \in Returned' : deps[s] \subseteq Returned'
    BY <1>5, <1>6 DEF ReturnedInv
  <2>2. ASSUME NEW S \in SUBSET Returned', S # {}
        PROVE  \E s \in S : deps[s] \intersect S = {}
    <3>1. CASE S \ {n} = {}
      <4>1. S = {n}
        BY <3>1, <2>2
      <4> QED
        BY <4>1, <1>5, <1>6
    <3>2. CASE S \ {n} # {}
      <4>1. S \ {n} \in SUBSET Returned
        BY <1>5
      <4>2. PICK s \in S \ {n} : deps[s] \intersect (S \ {n}) = {}
        BY <3>2, <4>1 DEF ReturnedInv
      <4>3. n \notin deps[s]
        BY <4>1, <4>2, <1>5 DEF ReturnedInv
      <4> QED
        BY <4>2, <4>3
    <3> QED
      BY <3>1, <3>2
  <2> QED
    BY <2>1, <2>2 DEF ReturnedInv
<1> QED
  BY <1>4, <1>7, <1>8

\* A parent that is on the path closes a circle.
LEMMA PathCloses ==
    ASSUME W!TypeOK, PathInv, NEW n, stack # <<>>, n \in deps[stack[Len(stack)]], OnStack(n)
    PROVE  W!Cyclic
<1>1. /\ Len(stack) \in Nat /\ \A i \in 1 .. Len(stack) : stack[i] \in W!Slots
      /\ Len(stack) \in 1 .. Len(stack)
  BY EmptySeq, LenProperties DEF W!TypeOK
<1>2. PICK k \in 1 .. Len(stack) : stack[k] = n
  BY DEF OnStack
<1> DEFINE S == {stack[i] : i \in k .. Len(stack)}
<1>3. S \in SUBSET W!Slots /\ S # {} /\ n \in S
  <2>1. k \in k .. Len(stack) /\ \A i \in k .. Len(stack) : i \in 1 .. Len(stack)
    BY <1>1
  <2> QED
    BY <2>1, <1>1, <1>2
<1>4. ASSUME NEW i \in k .. Len(stack) PROVE deps[stack[i]] \intersect S # {}
  <2>1. CASE i = Len(stack)
    BY <2>1, <1>3
  <2>2. CASE i # Len(stack)
    <3>1. i \in 1 .. Len(stack) - 1 /\ i + 1 \in k .. Len(stack)
      BY <2>2, <1>1
    <3>2. stack[i + 1] \in S /\ stack[i + 1] \in deps[stack[i]]
      BY <3>1 DEF PathInv
    <3> QED
      BY <3>2
  <2> QED
    BY <2>1, <2>2
<1> HIDE DEF S
<1>5. \A s \in S : deps[s] \intersect S # {}
  BY <1>4 DEF S
<1> QED
  BY <1>3, <1>5 DEF W!Cyclic

\* The steps of the cycle check, with its vocabulary reduced to that of sequences.
LEMMA StackFacts ==
    ASSUME W!TypeOK
    PROVE  /\ W!Last(stack) = stack[Len(stack)]
           /\ W!Front(stack) = SubSeq(stack, 1, Len(stack) - 1)
           /\ \A n : W!OnPath(n) <=> OnStack(n)
           /\ stack = <<>> => \A n : ~OnStack(n)
           /\ stack # <<>> => stack[Len(stack)] \in W!Slots
                              /\ SubSeq(stack, 1, Len(stack) - 1) \in Seq(W!Slots)
<1>1. /\ stack \in Seq(W!Slots) /\ Len(stack) \in Nat
      /\ \A i \in 1 .. Len(stack) : stack[i] \in W!Slots
      /\ stack # <<>> => Len(stack) \in 1 .. Len(stack)
      /\ stack = <<>> => Len(stack) = 0
  BY EmptySeq, LenProperties DEF W!TypeOK
<1>2. \A n : W!OnPath(n) <=> OnStack(n)
  BY DEF W!OnPath, W!ToSet, OnStack
<1>3. stack = <<>> => \A n : ~OnStack(n)
  BY <1>1 DEF OnStack
<1>4. SubSeq(stack, 1, Len(stack) - 1) \in Seq(W!Slots)
  <2>1. \A i \in 1 .. Len(stack) - 1 : stack[i] \in W!Slots
    BY <1>1
  <2> QED
    BY <2>1, <1>1, SubSeqProperties
<1> QED
  BY <1>1, <1>2, <1>3, <1>4 DEF W!Last, W!Front

\* Every step keeps the types.
LEMMA WorkflowType == W!TypeOK /\ [W!Next]_(W!vars) => W!TypeOK'
<1> SUFFICES ASSUME W!TypeOK, [W!Next]_(W!vars) PROVE W!TypeOK'
  OBVIOUS
<1> USE DEF W!TypeOK, W!Over, W!Set, W!Alive, W!Ended, W!graph, W!search
<1>1. CASE W!Check
  <2> PICK top : top = stack[Len(stack)]
    OBVIOUS
  <2> HIDE DEF W!TypeOK
  <2>1. /\ W!Last(stack) = top
        /\ W!Front(stack) = SubSeq(stack, 1, Len(stack) - 1)
        /\ stack # <<>> => top \in W!Slots /\ SubSeq(stack, 1, Len(stack) - 1) \in Seq(W!Slots)
    BY StackFacts
  <2> USE DEF W!TypeOK
  <2>2. \A n \in W!Slots : Append(stack, n) \in Seq(W!Slots)
    BY AppendProperties
  <2>3. CASE W!BeginsCheck
    BY <2>3 DEF W!BeginsCheck
  <2>4. CASE W!Returns
    BY <2>1, <2>4 DEF W!Returns
  <2>5. CASE W!Accepts
    BY <2>5 DEF W!Accepts
  <2>6. ASSUME NEW n \in W!Slots, W!Root(n) PROVE W!TypeOK'
    BY <2>2, <2>6 DEF W!Root, W!Visit
  <2>7. ASSUME NEW n \in W!Slots, W!LooksUp(n) PROVE W!TypeOK'
    <3>1. todo' \in [W!Slots -> SUBSET W!Slots]
      BY <2>1, <2>7 DEF W!LooksUp, W!Looks
    <3>2. stack' \in Seq(W!Slots) /\ visited' \subseteq W!Slots
      BY <2>2, <2>7 DEF W!LooksUp, W!Visit
    <3> QED
      BY <2>7, <3>1, <3>2 DEF W!LooksUp
  <2>8. ASSUME NEW n \in W!Slots, W!Rejects(n) PROVE W!TypeOK'
    BY <2>1, <2>8 DEF W!Rejects, W!Looks
  <2> QED
    BY <1>1, <2>3, <2>4, <2>5, <2>6, <2>7, <2>8 DEF W!Check
<1>2. CASE W!Begins
  BY <1>2 DEF W!Begins
<1>3. CASE W!CalledOff
  BY <1>3 DEF W!CalledOff
<1>4. CASE W!Blocked
  BY <1>4 DEF W!Blocked
<1>5. CASE W!Finishes
  BY <1>5 DEF W!Finishes
<1>6. CASE W!Launch
  BY <1>6 DEF W!Launch
<1>7. ASSUME NEW S \in SUBSET W!Slots, W!Dispatch(S) PROVE W!TypeOK'
  <2>1. W!Ready \subseteq W!Slots
    BY DEF W!Ready, W!In
  <2>2. phase' \in [W!Slots -> {"waiting", "active", "done", "failed", "raised"}]
    BY <1>7 DEF W!Dispatch
  <2>3. skipped' \subseteq W!Slots /\ child' \in [W!Slots -> {"none"} \union W!Alive \union W!Ended]
    BY <2>1, <1>7 DEF W!Dispatch
  <2> QED
    BY <2>2, <2>3, <1>7 DEF W!Dispatch
<1>8. CASE W!Gathered
  BY <1>8 DEF W!Gathered
<1>9. CASE W!RoundEnds
  <2>1. result' \in {"none", "rejected", "success", "failure", "cancelled", "raised"}
        /\ at' \in {"new", "checking", "scheduling", "launching", "gathering", "over"}
        /\ round' \in 1 .. 2
    <3>1. CASE at' = "over" /\ round' = round /\ result' \in {"failure", "cancelled", "raised",
                                                          "success"}
      BY <3>1
    <3>2. CASE at' = "scheduling" /\ round' = 2 /\ result' = result
      <4> HIDE DEF W!TypeOK
      <4>1. 2 \in 1 .. 2
        OBVIOUS
      <4>2. round' \in 1 .. 2
        BY <3>2, <4>1, Zenon
      <4> QED
        BY <3>2, <4>2 DEF W!TypeOK
    <3>3. ASSUME NEW s \in W!Slots,
                 W!Over(CASE failures # {} -> "failure"
                          [] failures = {} /\ phase[s] = "raised" -> "cancelled"
                          [] OTHER -> "raised")
          PROVE  at' = "over" /\ result' \in {"failure", "cancelled", "raised"}
      BY <3>3
    <3> QED
      BY <1>9, <3>1, <3>2, <3>3 DEF W!RoundEnds
  <2> QED
    BY <2>1, <1>9 DEF W!RoundEnds
<1>10. ASSUME NEW s \in W!Slots, W!Child(s) PROVE W!TypeOK'
  <2>1. CASE W!GetsPlace(s)
    BY <2>1 DEF W!GetsPlace
  <2>2. CASE W!ChildEnds(s)
    BY <2>2 DEF W!ChildEnds
  <2>3. CASE W!SlotEnds(s)
    BY <2>3 DEF W!SlotEnds, W!WithFailure
  <2> QED
    BY <1>10, <2>1, <2>2, <2>3 DEF W!Child
<1>11. ASSUME NEW s \in W!Slots, W!CancelChild(s) PROVE W!TypeOK'
  BY <1>11 DEF W!CancelChild
<1>12. CASE W!CancelTurn
  BY <1>12 DEF W!CancelTurn
<1>13. CASE UNCHANGED W!vars
  BY <1>13 DEF W!vars
<1> QED
  BY <1>1, <1>2, <1>3, <1>4, <1>5, <1>6, <1>7, <1>8, <1>9, <1>10, <1>11, <1>12, <1>13
     DEF W!Next, W!Engine

\* The steps that are not the check's.
Runs ==
    \/ W!CalledOff \/ W!Blocked \/ W!Finishes \/ W!Launch
    \/ \E S \in SUBSET W!Slots : W!Dispatch(S)
    \/ W!Gathered \/ W!RoundEnds
    \/ \E s \in W!Slots : W!Child(s) \/ W!CancelChild(s)
    \/ W!CancelTurn

\* None of them touches the check or its verdict.
LEMMA RunsLeaveCheck ==
    ASSUME Runs \/ UNCHANGED W!vars
    PROVE  /\ UNCHANGED <<mode, deps, stack, visited, todo>>
           /\ \/ UNCHANGED <<at, result>>
              \/ /\ at \notin {"new", "checking", "over"}
                 /\ at' \notin {"new", "checking"}
                 /\ result' # "rejected" \/ (result' = result /\ at' # "over")
<1> USE DEF W!Over, W!graph, W!search
<1>1. CASE W!CalledOff
  BY <1>1 DEF W!CalledOff
<1>2. CASE W!Blocked
  BY <1>2 DEF W!Blocked, W!Proceeds
<1>3. CASE W!Finishes
  BY <1>3 DEF W!Finishes
<1>4. CASE W!Launch
  BY <1>4 DEF W!Launch
<1>5. ASSUME NEW S \in SUBSET W!Slots, W!Dispatch(S)
      PROVE  /\ UNCHANGED <<mode, deps, stack, visited, todo, result>>
             /\ at = "scheduling" /\ at' \in {"scheduling", "launching"}
  BY <1>5 DEF W!Dispatch, W!Proceeds
<1>6. CASE W!Gathered
  BY <1>6 DEF W!Gathered
<1>7. CASE W!RoundEnds
  BY <1>7 DEF W!RoundEnds
<1>8. ASSUME NEW s \in W!Slots, W!Child(s)
      PROVE  /\ UNCHANGED <<mode, deps, stack, visited, todo>>
             /\ \/ UNCHANGED <<at, result>>
                \/ at = "gathering" /\ at' = "over" /\ result' # "rejected"
  <2>1. CASE W!GetsPlace(s)
    BY <2>1 DEF W!GetsPlace
  <2>2. CASE W!ChildEnds(s)
    BY <2>2 DEF W!ChildEnds
  <2>3. CASE W!SlotEnds(s)
    BY <2>3 DEF W!SlotEnds
  <2> QED
    BY <1>8, <2>1, <2>2, <2>3 DEF W!Child
<1>9. ASSUME NEW s \in W!Slots, W!CancelChild(s)
      PROVE  UNCHANGED <<mode, deps, stack, visited, todo, at, result>>
  BY <1>9 DEF W!CancelChild
<1>10. CASE W!CancelTurn
  BY <1>10 DEF W!CancelTurn
<1>11. CASE UNCHANGED W!vars
  BY <1>11 DEF W!vars
<1> QED
  BY <1>1, <1>2, <1>3, <1>4, <1>5, <1>6, <1>7, <1>8, <1>9, <1>10, <1>11 DEF Runs

\* A graph whose slots have all returned has no cycle.
LEMMA AllReturned ==
    ASSUME ReturnedInv, stack = <<>>, visited = W!Slots, \A n : ~OnStack(n)
    PROVE  ~W!Cyclic
<1>1. Returned = W!Slots
  BY DEF Returned
<1> QED
  BY <1>1 DEF ReturnedInv, W!Cyclic

\* A step of the check.
LEMMA CheckStep == W!TypeOK /\ CheckInv /\ W!Check => CheckInv'
<1> SUFFICES ASSUME W!TypeOK, CheckInv, W!Check PROVE CheckInv'
  OBVIOUS
<1> USE DEF W!graph, W!search, W!Over
<1> PICK top : top = stack[Len(stack)]
  OBVIOUS
<1>1. /\ W!Last(stack) = top
      /\ W!Front(stack) = SubSeq(stack, 1, Len(stack) - 1)
      /\ \A n : W!OnPath(n) <=> OnStack(n)
      /\ stack = <<>> => \A n : ~OnStack(n)
      /\ stack # <<>> => top \in W!Slots
  BY StackFacts
<1>2. mode' = mode /\ deps' = deps
  BY DEF W!Check, W!BeginsCheck, W!Returns, W!Accepts, W!Root, W!LooksUp, W!Rejects
<1>3. W!Cyclic' <=> W!Cyclic
  BY <1>2 DEF W!Cyclic
<1>4. CASE W!BeginsCheck
  BY <1>2, <1>4 DEF W!BeginsCheck, CheckInv, PathInv, TodoInv, ReturnedInv, Returned, OnStack,
     W!OnlyCyclesAreRejected
<1>5. ASSUME at = "checking", at' = "checking", result' = result, PathInv', TodoInv', ReturnedInv'
      PROVE  CheckInv'
  BY <1>2, <1>5 DEF CheckInv, W!OnlyCyclesAreRejected
<1>6. at = "checking" => PathInv /\ TodoInv /\ ReturnedInv
  BY DEF CheckInv
<1>7. CASE W!Returns
  BY <1>1, <1>2, <1>5, <1>6, <1>7, ReturnKeepsCheck DEF W!Returns
<1>8. CASE W!Accepts
  <2>1. ~W!Cyclic
    BY <1>1, <1>6, <1>8, AllReturned DEF W!Accepts
  <2>2. at' = "scheduling" /\ result' # "rejected" /\ mode = "graph"
    BY <1>8 DEF W!Accepts, CheckInv
  <2> QED
    BY <1>2, <1>3, <2>1, <2>2 DEF CheckInv, W!OnlyCyclesAreRejected
<1>9. ASSUME NEW n \in W!Slots, W!Root(n) PROVE CheckInv'
  BY <1>2, <1>5, <1>6, <1>9, VisitKeepsCheck DEF W!Root
<1>10. ASSUME NEW n \in W!Slots, W!LooksUp(n) PROVE CheckInv'
  <2>1. /\ at = "checking" /\ at' = "checking" /\ result' = result
        /\ stack # <<>> /\ n \in todo[top] /\ todo' = [todo EXCEPT ![top] = @ \ {n}]
    BY <1>1, <1>10 DEF W!LooksUp, W!Looks
  <2>2. CASE n \in visited
    <3>1. n \in Returned /\ stack' = stack /\ visited' = visited
      BY <1>1, <1>10, <2>2 DEF W!LooksUp, Returned
    <3> QED
      BY <1>2, <1>5, <1>6, <2>1, <3>1, LookKeepsCheck
  <2>3. CASE n \notin visited
    <3>1. W!Visit(n)
      BY <1>10, <2>3 DEF W!LooksUp
    <3> QED
      BY <1>2, <1>5, <1>6, <2>1, <2>3, <3>1, VisitKeepsCheck
  <2> QED
    BY <2>2, <2>3
<1>11. ASSUME NEW n \in W!Slots, W!Rejects(n) PROVE CheckInv'
  <2>1. /\ at = "checking" /\ at' = "over" /\ result' = "rejected"
        /\ stack # <<>> /\ n \in todo[top] /\ OnStack(n)
    BY <1>1, <1>11 DEF W!Rejects, W!Looks
  <2>2. n \in deps[top]
    BY <1>1, <1>6, <2>1 DEF TodoInv
  <2>3. W!Cyclic
    BY <1>6, <2>1, <2>2, PathCloses
  <2>4. mode = "graph"
    BY <2>1 DEF CheckInv
  <2> QED
    BY <1>2, <1>3, <2>1, <2>3, <2>4 DEF CheckInv, W!OnlyCyclesAreRejected
<1> QED
  BY <1>4, <1>7, <1>8, <1>9, <1>10, <1>11 DEF W!Check

\* Every step keeps the invariant of the check.
LEMMA CheckKept == W!TypeOK /\ CheckInv /\ [W!Next]_(W!vars) => CheckInv'
<1> SUFFICES ASSUME W!TypeOK, CheckInv, [W!Next]_(W!vars) PROVE CheckInv'
  OBVIOUS
<1>1. CASE W!Check
  BY <1>1, CheckStep
<1>2. CASE W!Begins
  <2>1. /\ mode' = mode /\ mode # "graph" /\ deps' = deps /\ at = "new" /\ at' = "scheduling"
        /\ result' = result /\ result # "rejected"
    BY <1>2 DEF W!Begins, W!graph, CheckInv
  <2>2. ~W!Cyclic'
    BY <2>1 DEF CheckInv, W!Cyclic
  <2> QED
    BY <2>1, <2>2 DEF CheckInv, W!OnlyCyclesAreRejected
<1>3. CASE Runs \/ UNCHANGED W!vars
  <2>1. /\ UNCHANGED <<mode, deps, stack, visited, todo>>
        /\ \/ UNCHANGED <<at, result>>
           \/ /\ at \notin {"new", "checking", "over"}
              /\ at' \notin {"new", "checking"}
              /\ result' # "rejected" \/ (result' = result /\ at' # "over")
    BY <1>3, RunsLeaveCheck
  <2>2. (PathInv /\ TodoInv /\ ReturnedInv => PathInv' /\ TodoInv' /\ ReturnedInv')
        /\ (W!Cyclic' <=> W!Cyclic)
    BY <2>1 DEF PathInv, TodoInv, ReturnedInv, Returned, OnStack, W!Cyclic
  <2>3. CASE UNCHANGED <<at, result>>
    BY <2>1, <2>2, <2>3 DEF CheckInv, W!OnlyCyclesAreRejected
  <2>4. CASE /\ at \notin {"new", "checking", "over"}
             /\ at' \notin {"new", "checking"}
             /\ result' # "rejected" \/ (result' = result /\ at' # "over")
    <3>1. result # "rejected" /\ ~W!Cyclic
      BY <2>4 DEF CheckInv, W!OnlyCyclesAreRejected
    <3> QED
      BY <2>1, <2>2, <2>4, <3>1 DEF CheckInv, W!OnlyCyclesAreRejected
  <2> QED
    BY <2>1, <2>3, <2>4
<1> QED
  BY <1>1, <1>2, <1>3 DEF W!Next, W!Engine, Runs

-----------------------------------------------------------------------------
(***************************************************************************)
(* The workflow: slots and their children.                                 *)
(***************************************************************************)

\* A child that is alive has a slot that awaits it, and a slot awaits one only in a round of
\* gather, or behind a graph that was called off; what it depends on was done before.
Awaiting(s) ==
    /\ child[s] \in W!Alive => phase[s] = "active"
    /\ phase[s] = "active" => /\ at \in {"launching", "gathering", "over"}
                              /\ at = "launching" => child[s] = "none"
                              /\ at = "over" => result = "cancelled" /\ mode = "graph"
                              /\ deps[s] \subseteq W!In("done")

\* What a slot that ended stands for.
Standing(s) ==
    /\ phase[s] = "raised" => at = "over" \/ mode = "council"
    /\ phase[s] = "done" => s \in skipped \/ child[s] = "succeeded"
    /\ phase[s] = "failed" /\ at # "over" /\ mode # "council" => s \in failures

\* A pipeline runs one stage at a time.
OneStage ==
    mode = "pipeline" =>
        \A r, s \in W!Slots : phase[r] = "active" /\ phase[s] = "active" => r = s

EngineInv ==
    /\ \A s \in W!Slots : Awaiting(s) /\ Standing(s)
    /\ OneStage
    /\ result = "none" <=> at # "over"
    /\ W!NothingRunsBehindAFailure
    /\ W!SuccessIsComplete

\* Before the first slot is dispatched.
LEMMA CheckKeepsEngine ==
    ASSUME W!TypeOK, CheckInv, EngineInv, W!Check \/ W!Begins
    PROVE  EngineInv'
<1>1. /\ mode' = mode /\ deps' = deps /\ phase' = phase /\ skipped' = skipped
      /\ child' = child /\ failures' = failures
      /\ at \in {"new", "checking"}
      /\ \/ result' = result /\ at' # "over" /\ at' # "launching"
         \/ result' = "rejected" /\ at' = "over"
  BY DEF W!Check, W!BeginsCheck, W!Returns, W!Accepts, W!Root, W!LooksUp, W!Rejects, W!Begins,
     W!graph, W!search, W!Over, W!Looks
<1>2. TRUE
  OBVIOUS
<1>11. \A s \in W!Slots : Awaiting(s)'
  BY <1>1, <1>2 DEF EngineInv, Awaiting, Standing, OneStage, W!NothingRunsBehindAFailure,
     W!SuccessIsComplete, W!In, W!Alive
<1>12. \A s \in W!Slots : Standing(s)'
  BY <1>1, <1>2 DEF EngineInv, Awaiting, Standing, OneStage, W!NothingRunsBehindAFailure,
     W!SuccessIsComplete, W!In, W!Alive
<1>13. OneStage'
  BY <1>1, <1>2 DEF EngineInv, Awaiting, Standing, OneStage, W!NothingRunsBehindAFailure,
     W!SuccessIsComplete, W!In, W!Alive
<1>14. result' = "none" <=> at' # "over"
  BY <1>1, <1>2 DEF EngineInv, Awaiting, Standing, OneStage, W!NothingRunsBehindAFailure,
     W!SuccessIsComplete, W!In, W!Alive
<1>15. W!NothingRunsBehindAFailure'
  BY <1>1, <1>2 DEF EngineInv, Awaiting, Standing, OneStage, W!NothingRunsBehindAFailure,
     W!SuccessIsComplete, W!In, W!Alive
<1>16. W!SuccessIsComplete'
  BY <1>1, <1>2 DEF EngineInv, Awaiting, Standing, OneStage, W!NothingRunsBehindAFailure,
     W!SuccessIsComplete, W!In, W!Alive
<1> QED
  BY <1>11, <1>12, <1>13, <1>14, <1>15, <1>16 DEF EngineInv

\* A pass, a stage or a round is over and no slot is active.
LEMMA PassKeepsEngine ==
    ASSUME W!TypeOK, CheckInv, EngineInv, W!CalledOff \/ W!Finishes \/ W!Gathered \/ W!RoundEnds
    PROVE  EngineInv'
<1>1. /\ mode' = mode /\ deps' = deps /\ phase' = phase /\ skipped' = skipped
      /\ child' = child /\ failures' = failures
      /\ \A s \in W!Slots : phase[s] # "active"
      /\ at # "over"
  BY DEF W!CalledOff, W!Finishes, W!Gathered, W!RoundEnds, W!graph, W!In, EngineInv, Awaiting
<1>2. \/ at' = "scheduling" /\ result' = result
      \/ /\ at' = "over" /\ result' # "none"
         /\ result' = "success" => \A s \in W!Slots : phase[s] = "done"
  <2> USE DEF W!Over
  <2>1. CASE W!CalledOff
    BY <2>1 DEF W!CalledOff
  <2>2. CASE W!Finishes
    <3>1. result' = "success" => \A s \in W!Slots : phase[s] = "done"
      <4> SUFFICES ASSUME result' = "success", NEW s \in W!Slots PROVE phase[s] = "done"
        OBVIOUS
      <4>1. failures = {} /\ phase[s] # "waiting" /\ mode # "council" /\ at # "over"
        BY <2>2 DEF W!Finishes, W!In
      <4>2. phase[s] \in {"waiting", "active", "done", "failed", "raised"}
        BY DEF W!TypeOK
      <4> QED
        BY <1>1, <4>1, <4>2 DEF EngineInv, Standing
    <3> QED
      BY <2>2, <3>1 DEF W!Finishes
  <2>3. CASE W!Gathered
    BY <2>3 DEF W!Gathered
  <2>4. CASE W!RoundEnds
    <3>1. ASSUME NEW s \in W!Slots,
                 W!Over(CASE failures # {} -> "failure"
                          [] failures = {} /\ phase[s] = "raised" -> "cancelled"
                          [] OTHER -> "raised")
          PROVE  at' = "over" /\ result' \in {"failure", "cancelled", "raised"}
      BY <3>1
    <3>2. W!In("done") = W!Slots => \A s \in W!Slots : phase[s] = "done"
      BY DEF W!In
    <3> QED
      BY <2>4, <3>1, <3>2 DEF W!RoundEnds
  <2> QED
    BY <2>1, <2>2, <2>3, <2>4
<1>11. \A s \in W!Slots : Awaiting(s)'
  BY <1>1, <1>2 DEF EngineInv, Awaiting, Standing, OneStage, W!NothingRunsBehindAFailure,
     W!SuccessIsComplete, W!In, W!Alive
<1>12. \A s \in W!Slots : Standing(s)'
  BY <1>1, <1>2 DEF EngineInv, Awaiting, Standing, OneStage, W!NothingRunsBehindAFailure,
     W!SuccessIsComplete, W!In, W!Alive
<1>13. OneStage'
  BY <1>1, <1>2 DEF EngineInv, Awaiting, Standing, OneStage, W!NothingRunsBehindAFailure,
     W!SuccessIsComplete, W!In, W!Alive
<1>14. result' = "none" <=> at' # "over"
  BY <1>1, <1>2 DEF EngineInv, Awaiting, Standing, OneStage, W!NothingRunsBehindAFailure,
     W!SuccessIsComplete, W!In, W!Alive
<1>15. W!NothingRunsBehindAFailure'
  BY <1>1, <1>2 DEF EngineInv, Awaiting, Standing, OneStage, W!NothingRunsBehindAFailure,
     W!SuccessIsComplete, W!In, W!Alive
<1>16. W!SuccessIsComplete'
  BY <1>1, <1>2 DEF EngineInv, Awaiting, Standing, OneStage, W!NothingRunsBehindAFailure,
     W!SuccessIsComplete, W!In, W!Alive
<1> QED
  BY <1>11, <1>12, <1>13, <1>14, <1>15, <1>16 DEF EngineInv

\* In a graph without a cycle where no slot is ready, a slot that failed holds up the others.
LEMMA SomethingFailed ==
    ASSUME W!TypeOK, CheckInv, EngineInv, W!Blocked
    PROVE  failures # {}
<1> DEFINE waiting == W!In("waiting")
<1>1. /\ at = "scheduling" /\ mode = "graph" /\ waiting # {} /\ W!Ready = {}
      /\ waiting \in SUBSET W!Slots
  BY DEF W!Blocked, W!Proceeds, W!In
<1>2. ~W!Cyclic
  BY <1>1 DEF CheckInv, EngineInv, W!OnlyCyclesAreRejected
<1>3. PICK s \in waiting : deps[s] \intersect waiting = {}
  BY <1>1, <1>2 DEF W!Cyclic
<1>4. PICK d \in deps[s] : d \notin W!In("done")
  BY <1>1, <1>3 DEF W!Ready
<1>5. d \in W!Slots /\ phase[d] \in {"waiting", "active", "done", "failed", "raised"}
  BY <1>3, <1>4 DEF W!TypeOK, W!In
<1>6. phase[d] \notin {"waiting", "active", "done", "raised"}
  BY <1>1, <1>3, <1>4, <1>5 DEF W!In, EngineInv, Awaiting, Standing
<1> QED
  BY <1>1, <1>5, <1>6 DEF EngineInv, Standing

\* No slot is ready.
LEMMA BlockedKeepsEngine ==
    ASSUME W!TypeOK, CheckInv, EngineInv, W!Blocked
    PROVE  EngineInv'
<1>1. /\ mode' = mode /\ deps' = deps /\ skipped' = skipped
      /\ child' = child /\ failures' = failures
      /\ at = "scheduling" /\ at' = "over" /\ result' = "failure"
  BY SomethingFailed DEF W!Blocked, W!Proceeds, W!graph, W!Over
<1>2. \A s \in W!Slots : /\ \/ phase'[s] = phase[s]
                            \/ phase[s] = "waiting" /\ phase'[s] = "failed"
                         /\ phase[s] # "active"
  BY <1>1 DEF W!Blocked, W!Set, W!In, EngineInv, Awaiting
<1>11. \A s \in W!Slots : Awaiting(s)'
  BY <1>1, <1>2 DEF EngineInv, Awaiting, Standing, OneStage, W!NothingRunsBehindAFailure,
     W!SuccessIsComplete, W!In, W!Alive
<1>12. \A s \in W!Slots : Standing(s)'
  BY <1>1, <1>2 DEF EngineInv, Awaiting, Standing, OneStage, W!NothingRunsBehindAFailure,
     W!SuccessIsComplete, W!In, W!Alive
<1>13. OneStage'
  BY <1>1, <1>2 DEF EngineInv, Awaiting, Standing, OneStage, W!NothingRunsBehindAFailure,
     W!SuccessIsComplete, W!In, W!Alive
<1>14. result' = "none" <=> at' # "over"
  BY <1>1, <1>2 DEF EngineInv, Awaiting, Standing, OneStage, W!NothingRunsBehindAFailure,
     W!SuccessIsComplete, W!In, W!Alive
<1>15. W!NothingRunsBehindAFailure'
  BY <1>1, <1>2 DEF EngineInv, Awaiting, Standing, OneStage, W!NothingRunsBehindAFailure,
     W!SuccessIsComplete, W!In, W!Alive
<1>16. W!SuccessIsComplete'
  BY <1>1, <1>2 DEF EngineInv, Awaiting, Standing, OneStage, W!NothingRunsBehindAFailure,
     W!SuccessIsComplete, W!In, W!Alive
<1> QED
  BY <1>11, <1>12, <1>13, <1>14, <1>15, <1>16 DEF EngineInv

\* Slots are dispatched, or skipped.
LEMMA DispatchKeepsEngine ==
    ASSUME W!TypeOK, CheckInv, EngineInv, NEW S \in SUBSET W!Slots, W!Dispatch(S)
    PROVE  EngineInv'
<1>1. /\ mode' = mode /\ deps' = deps /\ failures' = failures /\ result' = result
      /\ at = "scheduling" /\ at' \in {"scheduling", "launching"}
      /\ S # {} => at' = "launching"
      /\ \A s \in W!Slots : phase[s] # "active"
      /\ skipped \subseteq skipped'
      /\ \A s \in W!Slots \ S : child'[s] = child[s] /\ phase'[s] # "active"
                             /\ (phase'[s] # phase[s] => phase'[s] = "done" /\ s \in skipped')
      /\ \A s \in S : child'[s] = "none" /\ phase'[s] = "active"
  <2>1. at = "scheduling" /\ \A s \in W!Slots : phase[s] # "active"
    BY DEF W!Dispatch, W!Proceeds, EngineInv, Awaiting
  <2>2. W!Ready \subseteq W!Slots
    BY DEF W!Ready, W!In
  <2> QED
    BY <2>1, <2>2 DEF W!Dispatch, W!graph
<1>2. /\ \A s \in S : mode = "council" \/ phase[s] # "done"
      /\ \A s \in S : deps[s] \subseteq W!In("done")
      /\ mode # "graph" => \A s \in W!Slots : deps[s] = {}
      /\ mode = "pipeline" => \A r, s \in S : r = s
  BY DEF W!Dispatch, W!Ready, W!In, CheckInv
<1>3. \A s \in W!Slots : deps[s] \subseteq W!In("done") => deps'[s] \subseteq W!In("done")'
  BY <1>1, <1>2 DEF W!In, W!TypeOK
<1>11. \A s \in W!Slots : Awaiting(s)'
  <2> SUFFICES ASSUME NEW s \in W!Slots PROVE Awaiting(s)'
    OBVIOUS
  <2>1. CASE s \in S
    BY <2>1, <1>1, <1>2, <1>3 DEF EngineInv, Awaiting, W!Alive
  <2>2. CASE s \notin S
    BY <2>2, <1>1, <1>3 DEF EngineInv, Awaiting, W!Alive
  <2> QED
    BY <2>1, <2>2
<1>12. \A s \in W!Slots : Standing(s)'
  BY <1>1, <1>2, <1>3 DEF EngineInv, Awaiting, Standing, OneStage, W!NothingRunsBehindAFailure,
     W!SuccessIsComplete, W!In, W!Alive
<1>13. OneStage'
  BY <1>1, <1>2, <1>3 DEF EngineInv, Awaiting, Standing, OneStage, W!NothingRunsBehindAFailure,
     W!SuccessIsComplete, W!In, W!Alive
<1>14. result' = "none" <=> at' # "over"
  BY <1>1, <1>2, <1>3 DEF EngineInv, Awaiting, Standing, OneStage, W!NothingRunsBehindAFailure,
     W!SuccessIsComplete, W!In, W!Alive
<1>15. W!NothingRunsBehindAFailure'
  <2> SUFFICES ASSUME NEW s \in W!Slots PROVE child'[s] # "none" => deps'[s] \subseteq W!In("done")'
    BY DEF W!NothingRunsBehindAFailure
  <2>1. CASE s \in S
    BY <2>1, <1>1, <1>2, <1>3 DEF EngineInv, W!NothingRunsBehindAFailure
  <2>2. CASE s \notin S
    BY <2>2, <1>1, <1>3 DEF EngineInv, W!NothingRunsBehindAFailure
  <2> QED
    BY <2>1, <2>2
<1>16. W!SuccessIsComplete'
  BY <1>1, <1>2, <1>3 DEF EngineInv, Awaiting, Standing, OneStage, W!NothingRunsBehindAFailure,
     W!SuccessIsComplete, W!In, W!Alive
<1> QED
  BY <1>11, <1>12, <1>13, <1>14, <1>15, <1>16 DEF EngineInv

\* The tasks of the slots begin.
LEMMA LaunchKeepsEngine ==
    ASSUME W!TypeOK, CheckInv, EngineInv, W!Launch
    PROVE  EngineInv'
<1>1. /\ mode' = mode /\ deps' = deps /\ failures' = failures /\ skipped' = skipped
      /\ at = "launching"
      /\ \/ /\ at' = "over" /\ result' = "cancelled" /\ child' = child
            /\ \A s \in W!Slots : phase'[s] = IF phase[s] = "active" THEN "raised" ELSE phase[s]
         \/ /\ at' = "gathering" /\ result' = result /\ phase' = phase
            /\ \A s \in W!Slots : child'[s] = IF phase[s] = "active" THEN "queued" ELSE child[s]
  BY DEF W!Launch, W!graph, W!Over, W!Set, W!In
<1>2. \A s \in W!Slots : phase[s] = "active" => child[s] = "none" /\ deps[s] \subseteq W!In("done")
  BY <1>1 DEF EngineInv, Awaiting
<1>11. \A s \in W!Slots : Awaiting(s)'
  BY <1>1, <1>2 DEF EngineInv, Awaiting, Standing, OneStage, W!NothingRunsBehindAFailure,
     W!SuccessIsComplete, W!In, W!Alive
<1>12. \A s \in W!Slots : Standing(s)'
  BY <1>1, <1>2 DEF EngineInv, Awaiting, Standing, OneStage, W!NothingRunsBehindAFailure,
     W!SuccessIsComplete, W!In, W!Alive
<1>13. OneStage'
  BY <1>1, <1>2 DEF EngineInv, Awaiting, Standing, OneStage, W!NothingRunsBehindAFailure,
     W!SuccessIsComplete, W!In, W!Alive
<1>14. result' = "none" <=> at' # "over"
  BY <1>1, <1>2 DEF EngineInv, Awaiting, Standing, OneStage, W!NothingRunsBehindAFailure,
     W!SuccessIsComplete, W!In, W!Alive
<1>15. W!NothingRunsBehindAFailure'
  BY <1>1, <1>2 DEF EngineInv, Awaiting, Standing, OneStage, W!NothingRunsBehindAFailure,
     W!SuccessIsComplete, W!In, W!Alive
<1>16. W!SuccessIsComplete'
  BY <1>1, <1>2 DEF EngineInv, Awaiting, Standing, OneStage, W!NothingRunsBehindAFailure,
     W!SuccessIsComplete, W!In, W!Alive
<1> QED
  BY <1>11, <1>12, <1>13, <1>14, <1>15, <1>16 DEF EngineInv

\* A child goes on, ends or is cancelled.
LEMMA ChildKeepsEngine ==
    ASSUME W!TypeOK, CheckInv, EngineInv, NEW c \in W!Slots,
           W!GetsPlace(c) \/ W!ChildEnds(c) \/ W!CancelChild(c)
    PROVE  EngineInv'
<1>1. /\ mode' = mode /\ deps' = deps /\ phase' = phase /\ skipped' = skipped
      /\ failures' = failures /\ at' = at /\ result' = result
      /\ child[c] \in W!Alive /\ child'[c] # "none"
      /\ \A s \in W!Slots : s # c => child'[s] = child[s]
  BY DEF W!GetsPlace, W!ChildEnds, W!CancelChild, W!graph, W!Alive, W!Ended, W!TypeOK
<1>2. phase[c] = "active" /\ at # "launching" /\ (at = "over" => result = "cancelled")
  BY <1>1 DEF EngineInv, Awaiting, W!Alive
<1>11. \A s \in W!Slots : Awaiting(s)'
  BY <1>1, <1>2 DEF EngineInv, Awaiting, Standing, OneStage, W!NothingRunsBehindAFailure,
     W!SuccessIsComplete, W!In, W!Alive
<1>12. \A s \in W!Slots : Standing(s)'
  BY <1>1, <1>2 DEF EngineInv, Awaiting, Standing, OneStage, W!NothingRunsBehindAFailure,
     W!SuccessIsComplete, W!In, W!Alive
<1>13. OneStage'
  BY <1>1, <1>2 DEF EngineInv, Awaiting, Standing, OneStage, W!NothingRunsBehindAFailure,
     W!SuccessIsComplete, W!In, W!Alive
<1>14. result' = "none" <=> at' # "over"
  BY <1>1, <1>2 DEF EngineInv, Awaiting, Standing, OneStage, W!NothingRunsBehindAFailure,
     W!SuccessIsComplete, W!In, W!Alive
<1>15. W!NothingRunsBehindAFailure'
  BY <1>1, <1>2 DEF EngineInv, Awaiting, Standing, OneStage, W!NothingRunsBehindAFailure,
     W!SuccessIsComplete, W!In, W!Alive
<1>16. W!SuccessIsComplete'
  BY <1>1, <1>2 DEF EngineInv, Awaiting, Standing, OneStage, W!NothingRunsBehindAFailure,
     W!SuccessIsComplete, W!In, W!Alive
<1> QED
  BY <1>11, <1>12, <1>13, <1>14, <1>15, <1>16 DEF EngineInv

\* A slot hears of the end of its child.
LEMMA SlotKeepsEngine ==
    ASSUME W!TypeOK, CheckInv, EngineInv, NEW c \in W!Slots, W!SlotEnds(c)
    PROVE  EngineInv'
<1>1. /\ mode' = mode /\ deps' = deps /\ skipped' = skipped /\ child' = child
      /\ phase[c] = "active" /\ at \in {"gathering", "over"} /\ child[c] \in W!Ended
      /\ at = "over" => result = "cancelled" /\ mode = "graph"
      /\ phase'[c] \in {"done", "failed", "raised"}
      /\ phase'[c] = "done" <=> child[c] = "succeeded"
      /\ \A s \in W!Slots : s # c => phase'[s] = phase[s]
      /\ failures \subseteq failures'
      /\ mode = "pipeline" => \A s \in W!Slots : s # c => phase[s] # "active"
  BY DEF W!SlotEnds, W!graph, W!Ended, W!TypeOK, W!WithFailure, EngineInv, Awaiting, OneStage
<1>2. /\ \/ at' = at /\ result' = result
         \/ /\ at = "gathering" /\ at' = "over" /\ mode # "council"
            /\ \/ mode = "pipeline" /\ result' \in {"cancelled", "raised", "failure"}
               \/ mode = "graph" /\ result' = "cancelled"
      /\ phase'[c] = "raised" /\ at' # "over" => mode = "council"
      /\ phase'[c] = "failed" /\ at' # "over" /\ mode # "council" => c \in failures'
  <2>1. CASE at = "over"
    BY <2>1, <1>1 DEF W!SlotEnds
  <2>2. CASE at = "gathering"
    <3>1. phase[c] = "active" /\ phase'[c] = CASE child[c] = "succeeded" -> "done"
                                              [] child[c] = "aborted" -> "raised"
                                              [] OTHER -> "failed"
      BY DEF W!SlotEnds, W!TypeOK
    <3>2. /\ failures' = W!WithFailure(c)
          /\ IF child[c] = "aborted" /\ mode # "council"
             THEN at' = "over" /\ result' = "cancelled"
             ELSE IF child[c] # "succeeded" /\ mode = "pipeline"
             THEN at' = "over" /\ result' \in {"raised", "failure"}
             ELSE at' = at /\ result' = result
      BY <2>2 DEF W!SlotEnds, W!Over, W!Raises
    <3>3. mode \in {"pipeline", "graph", "council"}
      BY DEF W!TypeOK
    <3> QED
      BY <1>1, <2>2, <3>1, <3>2, <3>3 DEF W!WithFailure, W!Ended
  <2> QED
    BY <1>1, <2>1, <2>2
<1>3. \A s \in W!Slots : deps[s] \subseteq W!In("done") => deps'[s] \subseteq W!In("done")'
  BY <1>1, <1>2 DEF W!In, W!TypeOK
<1>11. \A s \in W!Slots : Awaiting(s)'
  BY <1>1, <1>2, <1>3 DEF EngineInv, Awaiting, Standing, OneStage, W!NothingRunsBehindAFailure,
     W!SuccessIsComplete, W!Alive, W!Ended
<1>12. \A s \in W!Slots : Standing(s)'
  BY <1>1, <1>2, <1>3 DEF EngineInv, Awaiting, Standing, OneStage, W!NothingRunsBehindAFailure,
     W!SuccessIsComplete, W!In, W!Alive
<1>13. OneStage'
  BY <1>1, <1>2, <1>3 DEF EngineInv, Awaiting, Standing, OneStage, W!NothingRunsBehindAFailure,
     W!SuccessIsComplete, W!In, W!Alive
<1>14. result' = "none" <=> at' # "over"
  BY <1>1, <1>2, <1>3 DEF EngineInv, Awaiting, Standing, OneStage, W!NothingRunsBehindAFailure,
     W!SuccessIsComplete, W!In, W!Alive
<1>15. W!NothingRunsBehindAFailure'
  BY <1>1, <1>2, <1>3 DEF EngineInv, Awaiting, Standing, OneStage, W!NothingRunsBehindAFailure,
     W!SuccessIsComplete, W!Alive
<1>16. W!SuccessIsComplete'
  BY <1>1, <1>2, <1>3 DEF EngineInv, Awaiting, Standing, OneStage, W!NothingRunsBehindAFailure,
     W!SuccessIsComplete, W!In, W!Alive
<1> QED
  BY <1>11, <1>12, <1>13, <1>14, <1>15, <1>16 DEF EngineInv

\* No slot has been visited, and none is dispatched.
LEMMA WorkflowInit == W!Init => W!TypeOK /\ CheckInv /\ EngineInv
<1> SUFFICES ASSUME W!Init PROVE W!TypeOK /\ CheckInv /\ EngineInv
  OBVIOUS
<1>1. /\ mode \in {"pipeline", "graph", "council"}
      /\ deps \in [W!Slots -> SUBSET W!Slots]
      /\ mode # "graph" => \A s \in W!Slots : deps[s] = {}
      /\ todo = deps /\ stack = <<>> /\ visited = {}
      /\ at = "new" /\ result = "none"
      /\ \A s \in W!Slots : phase[s] = "waiting" /\ child[s] = "none"
  BY DEF W!Init
<1>2. W!TypeOK
  <2>1. round \in 1 .. 2
    BY DEF W!Init
  <2>2. stack \in Seq(W!Slots)
    BY <1>1
  <2> QED
    BY <1>1, <2>1, <2>2 DEF W!Init, W!TypeOK
<1>3. Len(stack) = 0 /\ Returned = {}
  BY <1>1 DEF Returned
<1>4. CheckInv
  <2>1. PathInv
    BY <1>3 DEF PathInv
  <2>2. TodoInv
    BY <1>1, <1>3 DEF TodoInv
  <2>3. ReturnedInv
    BY <1>3 DEF ReturnedInv
  <2> QED
    BY <1>1, <2>1, <2>2, <2>3 DEF CheckInv, W!OnlyCyclesAreRejected
<1>5. EngineInv
  BY <1>1 DEF EngineInv, Awaiting, Standing, OneStage, W!NothingRunsBehindAFailure,
     W!SuccessIsComplete, W!Alive
<1> QED
  BY <1>2, <1>4, <1>5

\* Every step keeps the invariant of the engine.
LEMMA EngineKept == W!TypeOK /\ CheckInv /\ EngineInv /\ [W!Next]_(W!vars) => EngineInv'
<1> SUFFICES ASSUME W!TypeOK, CheckInv, EngineInv, [W!Next]_(W!vars) PROVE EngineInv'
  OBVIOUS
<1>1. CASE W!Check \/ W!Begins
  BY <1>1, CheckKeepsEngine
<1>2. CASE W!CalledOff \/ W!Finishes \/ W!Gathered \/ W!RoundEnds
  BY <1>2, PassKeepsEngine
<1>3. CASE W!Blocked
  BY <1>3, BlockedKeepsEngine
<1>4. CASE W!Launch
  BY <1>4, LaunchKeepsEngine
<1>5. ASSUME NEW S \in SUBSET W!Slots, W!Dispatch(S) PROVE EngineInv'
  BY <1>5, DispatchKeepsEngine
<1>6. ASSUME NEW s \in W!Slots, W!Child(s) \/ W!CancelChild(s) PROVE EngineInv'
  BY <1>6, ChildKeepsEngine, SlotKeepsEngine DEF W!Child
<1>7. CASE W!CancelTurn \/ UNCHANGED W!vars
  <2>1. UNCHANGED <<mode, deps, at, phase, skipped, child, failures, result>>
    BY <1>7 DEF W!CancelTurn, W!vars, W!graph
  <2> QED
    BY <2>1 DEF EngineInv, Awaiting, Standing, OneStage, W!NothingRunsBehindAFailure,
       W!SuccessIsComplete, W!In
<1> QED
  BY <1>1, <1>2, <1>3, <1>4, <1>5, <1>6, <1>7 DEF W!Next, W!Engine

\* The three invariants hold together.
LEMMA WorkflowInv == W!Spec => [](W!TypeOK /\ CheckInv /\ EngineInv)
<1>1. W!Init => W!TypeOK /\ CheckInv /\ EngineInv
  BY WorkflowInit
<1>2. /\ W!TypeOK /\ CheckInv /\ EngineInv
      /\ [W!Next]_(W!vars)
      => (W!TypeOK /\ CheckInv /\ EngineInv)'
  BY WorkflowType, CheckKept, EngineKept
<1> QED
  BY <1>1, <1>2, PTL DEF W!Spec

\* Every reachable state of a workflow is of the types (workflow.py:294-698).
THEOREM WorkflowTypes == W!Spec => []W!TypeOK
BY WorkflowInv, PTL

\* For every graph, in whatever order its slots and their dependencies are looked at, the depth
\* first search refuses it exactly if it has a cycle (workflow.py:294-311, 486).
THEOREM CycleCheck == W!Spec => []OnlyCyclesAreRejected
<1>1. CheckInv => OnlyCyclesAreRejected
  BY DEF CheckInv, OnlyCyclesAreRejected, Cyclic, Slots,
     W!OnlyCyclesAreRejected, W!Cyclic, W!Slots
<1> QED
  BY <1>1, WorkflowInv, PTL

\* However many slots a graph has and however it fails, no child is made behind a slot that has
\* not come to a good end (workflow.py:496-500).
THEOREM NothingBehindAFailure == W!Spec => []NothingRunsBehindAFailure
<1>1. EngineInv => NothingRunsBehindAFailure
  BY DEF EngineInv, NothingRunsBehindAFailure, In, Slots,
     W!NothingRunsBehindAFailure, W!In, W!Slots
<1> QED
  BY <1>1, WorkflowInv, PTL

\* A workflow that reports success left no slot out: a graph in which a slot failed or was never
\* reached does not (workflow.py:108-115, 506-523).
THEOREM SuccessMeansComplete == W!Spec => []SuccessIsComplete
<1>1. EngineInv => SuccessIsComplete
  BY DEF EngineInv, SuccessIsComplete, Slots, W!SuccessIsComplete, W!Slots
<1> QED
  BY <1>1, WorkflowInv, PTL

\* A result comes after all children have ended, but for that of a graph which was called off
\* (workflow.py:612-615, 565).
THEOREM WorkflowResultsComeLast == W!Spec => []ResultsComeLast
<1>1. EngineInv => ResultsComeLast
  <2> SUFFICES ASSUME EngineInv, NEW s \in W!Slots, child[s] \in W!Alive
               PROVE  ~(\/ result \notin {"none", "cancelled"}
                        \/ result = "cancelled" /\ mode # "graph")
    BY DEF ResultsComeLast, Slots, Alive, W!Slots, W!Alive
  <2>1. phase[s] = "active" /\ at # "launching"
    BY DEF EngineInv, Awaiting, W!Alive
  <2> QED
    BY <2>1 DEF EngineInv, Awaiting
<1> QED
  BY <1>1, WorkflowInv, PTL
=============================================================================
