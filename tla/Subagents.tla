------------------------------ MODULE Subagents ------------------------------
(***************************************************************************)
(* backend/modules/agent/subagent.py: child agents in the background.  A   *)
(* child is an asyncio task (_run_task) that waits for a place in the pool *)
(* and then for a second task, the runner (_run_task_impl), under a time   *)
(* limit and a watchdog.  The spawn tool (tools/spawn.py) waits for the    *)
(* child's done_event; a workflow awaits the task itself.  A child can be  *)
(* stopped by its turn's cancel token, the API, the deletion of its        *)
(* record, its workflow, the time limit and the watchdog, at any moment    *)
(* and in any order.                                                       *)
(*                                                                         *)
(* Each action is a stretch of one task between two awaits.  Faulty        *)
(* variants stand before the definitions they replace.                     *)
(***************************************************************************)
EXTENDS Naturals, FiniteSets

CONSTANTS Tasks,           \* child tasks
          Spawned,         \* those of the spawn tool; the others are a workflow's
          Turns, Turn,     \* child -> the agent's turn that started it
          MaxConcurrent

ASSUME SubagentAssumption ==
    /\ IsFiniteSet(Tasks)
    /\ Spawned \subseteq Tasks
    /\ Turn \in [Tasks -> Turns]
    /\ MaxConcurrent \in Nat \ {0}

VARIABLES
    status,     \* task.status; "absent" before create_task
    outcome,    \* task.outcome
    done,       \* tasks whose done_event is set
    listed,     \* keys of self.tasks
    running,    \* keys of self.running_tasks
    opc,        \* where _run_task is
    ocancel,    \* _run_task will be resumed with CancelledError
    rpc,        \* where the runner is
    rcancel,    \* the runner will be resumed with CancelledError
    escaped,    \* runners that ended with CancelledError
    expired,    \* task_deadline.expired()
    inactive,   \* aborted_by_watchdog, until the runner has ended
    active,     \* active_tool_call; it and effect until the child has ended
    effect,     \* a tool outcome other than NOT_ATTEMPTED is recorded
    tokens,     \* turns that have a cancel token; a cron job's has none (process_direct)
    stopped,    \* turns whose cancel token is set
    spc         \* where the call of the spawn tool is, or what it returned

record == <<status, outcome>>
tables == <<done, listed, running>>
runner == <<rpc, rcancel, escaped>>
marks == <<expired, inactive>>
tools == <<active, effect>>
turns == <<tokens, stopped>>
vars == <<record, tables, opc, ocancel, runner, marks, tools, turns, spc>>

Unfinished == {"PENDING", "QUEUED", "RUNNING"}
Terminal == {"COMPLETED", "FAILED", "CANCELLED"}

\* "TIMED_OUT": FAILED by a time limit before any tool had run.
Outcomes == {"none", "SUCCEEDED", "FAILED", "CANCELLED", "UNKNOWN", "TIMED_OUT"}

\* "new": created, has not run; "queued": waits for the semaphore; "awaiting": for the
\* runner; "saving": writes the record after a time limit, "savingCancel": after a
\* cancellation in the queue; "settling": over, its done callback has not run.
OuterPCs == {"none", "new", "queued", "awaiting", "saving", "savingCancel", "settling", "ended"}

\* "saving": completed, writes the record; "savingStop": writes it after an exception.
RunnerPCs == {"none", "new", "running", "saving", "savingStop", "ended"}

\* "creating": notify_created; "waiting": for done_event.  The other values are results.
SpawnPCs == {"idle", "creating", "waiting",
             "child", "unreadable", "cancelled", "timeout", "raised"}

TypeOK ==
    /\ status \in [Tasks -> {"absent"} \union Unfinished \union Terminal]
    /\ outcome \in [Tasks -> Outcomes]
    /\ done \subseteq Tasks /\ listed \subseteq Tasks /\ running \subseteq Tasks
    /\ opc \in [Tasks -> OuterPCs] /\ ocancel \subseteq Tasks
    /\ rpc \in [Tasks -> RunnerPCs] /\ rcancel \subseteq Tasks /\ escaped \subseteq Tasks
    /\ expired \subseteq Tasks /\ inactive \subseteq Tasks
    /\ active \subseteq Tasks /\ effect \subseteq Tasks
    /\ tokens \subseteq Turns /\ stopped \subseteq tokens
    /\ spc \in [Tasks -> SpawnPCs]

Init ==
    /\ status = [k \in Tasks |-> "absent"]
    /\ outcome = [k \in Tasks |-> "none"]
    /\ done = {} /\ listed = {} /\ running = {}
    /\ opc = [k \in Tasks |-> "none"] /\ ocancel = {}
    /\ rpc = [k \in Tasks |-> "none"] /\ rcancel = {} /\ escaped = {}
    /\ expired = {} /\ inactive = {} /\ active = {} /\ effect = {}
    /\ tokens \in SUBSET Turns /\ stopped = {}
    /\ spc = [k \in Tasks |-> "idle"]

\* A tool of the child may have had an effect.
PossibleEffect(k) == k \in active \union effect

\* _cancelled_outcome
CancelledOutcome(k) == IF PossibleEffect(k) THEN "UNKNOWN" ELSE "CANCELLED"

\* The error's category in the place of the outcome.
TimeoutCategory(k) == IF PossibleEffect(k) THEN "UNKNOWN" ELSE "TIMEOUT"

TimeoutOutcome(k) == IF PossibleEffect(k) THEN "UNKNOWN" ELSE "TIMED_OUT"

SetRecord(k, s, o) ==
    /\ status' = [status EXCEPT ![k] = s]
    /\ outcome' = [outcome EXCEPT ![k] = o]

\* The places of the pool that are taken.
InPool == {k \in Tasks : opc[k] \in {"awaiting", "saving"}}

-----------------------------------------------------------------------------
(***************************************************************************)
(* Cancellation.                                                           *)
(***************************************************************************)

\* As with a shielded runner: the cancellation stays with _run_task.
ShieldRunner(k) ==
    /\ ocancel' = IF opc[k] \in {"none", "settling", "ended"} THEN ocancel
                  ELSE ocancel \union {k}
    /\ UNCHANGED rcancel

\* Task.cancel() on _run_task: it goes to the runner if that is what is awaited.
CancelOuter(k) ==
    IF opc[k] = "awaiting" /\ rpc[k] # "ended"
    THEN rcancel' = rcancel \union {k} /\ UNCHANGED ocancel
    ELSE /\ ocancel' = IF opc[k] \in {"none", "settling", "ended"} THEN ocancel
                       ELSE ocancel \union {k}
         /\ UNCHANGED rcancel

\* The waiters are released, the result is left to the runner.
SettleWaiters(k) ==
    /\ running' = running \ {k}
    /\ done' = done \union {k}
    /\ UNCHANGED record

\* _settle_cancelled_task
Settle(k) ==
    /\ SetRecord(k, IF status[k] \in Unfinished THEN "CANCELLED" ELSE status[k],
                    IF outcome[k] = "none" THEN CancelledOutcome(k) ELSE outcome[k])
    /\ running' = running \ {k}
    /\ done' = done \union {k}

\* The token is not set.
CancelTaskOnly(k) ==
    /\ IF k \in running /\ status[k] \in Unfinished
       THEN CancelOuter(k) /\ Settle(k)
       ELSE UNCHANGED <<record, done, running, ocancel, rcancel>>
    /\ UNCHANGED turns

\* "if task.cancel_token": task.cancel_token.cancel()
SetToken(k) ==
    /\ stopped' = IF Turn[k] \in tokens THEN stopped \union {Turn[k]} ELSE stopped
    /\ UNCHANGED tokens

\* cancel_task
CancelTask(k) ==
    /\ IF k \in listed /\ status[k] \in Unfinished
       THEN /\ SetToken(k)
            /\ IF k \in running
               THEN CancelOuter(k) /\ Settle(k)
               ELSE UNCHANGED <<record, done, running, ocancel, rcancel>>
       ELSE UNCHANGED <<record, done, running, ocancel, rcancel, turns>>

UserCancels(k) ==
    /\ k \in listed /\ status[k] \in Unfinished
    /\ CancelTask(k)
    /\ UNCHANGED <<listed, opc, rpc, escaped, marks, tools, spc>>

\* The record goes, and with it every means to stop the runner.
DeleteOnly(k) ==
    /\ k \in listed
    /\ listed' = listed \ {k}
    /\ running' = running \ {k}
    /\ UNCHANGED <<record, done, opc, ocancel, runner, marks, tools, turns, spc>>

\* delete_task
Delete(k) ==
    /\ k \in listed
    /\ listed' = listed \ {k}
    /\ IF status[k] \in Unfinished
       THEN /\ SetToken(k)
            /\ running' = running \ {k}
            /\ IF k \in running THEN CancelOuter(k) ELSE UNCHANGED <<ocancel, rcancel>>
       ELSE UNCHANGED <<turns, running, ocancel, rcancel>>
    /\ UNCHANGED <<record, done, opc, rpc, escaped, marks, tools, spc>>

\* The workflow's task is cancelled where it awaits the child (_invoke_agent).
WorkflowCancelled(k) ==
    /\ k \notin Spawned
    /\ opc[k] \notin {"none", "settling", "ended"}
    /\ CancelOuter(k)
    /\ UNCHANGED <<record, tables, opc, rpc, escaped, marks, tools, turns, spc>>

\* /stop or a disconnected client: the token of the turn.
StopTurn(t) ==
    /\ t \in tokens \ stopped
    /\ stopped' = stopped \union {t}
    /\ UNCHANGED <<tokens, record, tables, opc, ocancel, runner, marks, tools, spc>>

-----------------------------------------------------------------------------
(***************************************************************************)
(* The callers.                                                            *)
(***************************************************************************)

\* create_task
Create(k) ==
    /\ status[k] = "absent"
    /\ listed' = listed \union {k}

Spawn(k) ==
    /\ k \in Spawned
    /\ Create(k)
    /\ status' = [status EXCEPT ![k] = "PENDING"]
    /\ spc' = [spc EXCEPT ![k] = "creating"]
    /\ UNCHANGED <<outcome, done, running, opc, ocancel, runner, marks, tools, turns>>

\* _invoke_agent.  It looks at the token first, which may be set while it reports the
\* start of the child.
Invoke(k) ==
    /\ k \notin Spawned
    /\ Create(k)
    /\ status' = [status EXCEPT ![k] = "QUEUED"]
    /\ running' = running \union {k}
    /\ opc' = [opc EXCEPT ![k] = "new"]
    /\ UNCHANGED <<outcome, done, ocancel, runner, marks, tools, turns, spc>>

\* execute_task, then the first look at the token.
SpawnExecute(k) ==
    /\ spc[k] = "creating" /\ k \in listed
    /\ opc' = [opc EXCEPT ![k] = "new"]
    /\ IF Turn[k] \in stopped
       THEN \* cancel_task of a task that was queued just now
            /\ SetRecord(k, "CANCELLED", CancelledOutcome(k))
            /\ done' = done \union {k}
            /\ ocancel' = ocancel \union {k}
            /\ spc' = [spc EXCEPT ![k] = "cancelled"]
            /\ UNCHANGED running
       ELSE /\ status' = [status EXCEPT ![k] = "QUEUED"]
            /\ running' = running \union {k}
            /\ spc' = [spc EXCEPT ![k] = "waiting"]
            /\ UNCHANGED <<outcome, done, ocancel>>
    /\ UNCHANGED <<listed, runner, marks, tools, turns>>

\* The record was deleted: execute_task raises ValueError.
SpawnError(k) ==
    /\ spc[k] = "creating" /\ k \notin listed
    /\ spc' = [spc EXCEPT ![k] = "raised"]
    /\ UNCHANGED <<record, tables, opc, ocancel, runner, marks, tools, turns>>

\* Half a second has passed: the TimeoutError of wait_for leaves the polling loop.
SpawnGivesUp(k) ==
    /\ spc[k] = "waiting" /\ k \notin done
    /\ spc' = [spc EXCEPT ![k] = "timeout"]
    /\ UNCHANGED <<record, tables, opc, ocancel, runner, marks, tools, turns>>

SpawnReturns(k) ==
    /\ spc[k] = "waiting" /\ k \in done
    /\ IF Turn[k] \in stopped
       THEN CancelTask(k) /\ spc' = [spc EXCEPT ![k] = "cancelled"]
       ELSE /\ spc' = [spc EXCEPT ![k] = IF outcome[k] = "none" THEN "unreadable" ELSE "child"]
            /\ UNCHANGED <<record, done, running, ocancel, rcancel, turns>>
    /\ UNCHANGED <<listed, opc, rpc, escaped, marks, tools>>

\* The call of the tool is cancelled; the child is left alone.
SpawnAbandons(k) ==
    /\ spc[k] \in {"creating", "waiting"}
    /\ spc' = [spc EXCEPT ![k] = "raised"]
    /\ UNCHANGED <<record, tables, opc, ocancel, runner, marks, tools, turns>>

-----------------------------------------------------------------------------
(***************************************************************************)
(* _run_task                                                               *)
(***************************************************************************)

\* _run_task is over: its finally clause.
EndOuter(k) ==
    /\ opc' = [opc EXCEPT ![k] = "settling"]
    /\ running' = running \ {k}
    /\ done' = done \union {k}
    /\ ocancel' = ocancel \ {k}

\* The runner is created before there is a place for it.
EnterAtOnce(k) ==
    /\ opc[k] \in {"new", "queued"} /\ k \notin ocancel
    /\ status' = [status EXCEPT ![k] = "RUNNING"]
    /\ rpc' = [rpc EXCEPT ![k] = "new"]
    /\ opc' = [opc EXCEPT ![k] = "awaiting"]
    /\ UNCHANGED <<outcome, tables, ocancel, rcancel, escaped, marks, tools, turns, spc>>

\* A place in the pool: the runner and its watchdog are created.
Enter(k) ==
    /\ opc[k] \in {"new", "queued"} /\ k \notin ocancel
    /\ Cardinality(InPool) < MaxConcurrent
    /\ status' = [status EXCEPT ![k] = "RUNNING"]
    /\ rpc' = [rpc EXCEPT ![k] = "new"]
    /\ opc' = [opc EXCEPT ![k] = "awaiting"]
    /\ UNCHANGED <<outcome, tables, ocancel, rcancel, escaped, marks, tools, turns, spc>>

Queue(k) ==
    /\ opc[k] = "new" /\ k \notin ocancel
    /\ Cardinality(InPool) >= MaxConcurrent
    /\ opc' = [opc EXCEPT ![k] = "queued"]
    /\ UNCHANGED <<record, tables, ocancel, runner, marks, tools, turns, spc>>

\* Cancelled before it ran: nothing of it is executed, the done callback is.
CancelledNew(k) ==
    /\ opc[k] = "new" /\ k \in ocancel
    /\ opc' = [opc EXCEPT ![k] = "settling"]
    /\ ocancel' = ocancel \ {k}
    /\ UNCHANGED <<record, tables, runner, marks, tools, turns, spc>>

\* The except clause, unless cancel_task has settled the child already.
CancelledQueued(k) ==
    /\ opc[k] = "queued" /\ k \in ocancel
    /\ IF status[k] \in Unfinished
       THEN /\ status' = [status EXCEPT ![k] = "CANCELLED"]
            /\ opc' = [opc EXCEPT ![k] = "savingCancel"]
            /\ ocancel' = ocancel \ {k}
            /\ UNCHANGED <<done, running>>
       ELSE EndOuter(k) /\ UNCHANGED status
    /\ UNCHANGED <<outcome, listed, runner, marks, tools, turns, spc>>

\* The time limit, also when the child has just ended.
TimeLimit(k) ==
    /\ opc[k] = "awaiting" /\ rpc[k] # "new" /\ k \notin expired
    /\ expired' = expired \union {k}
    /\ CancelOuter(k)
    /\ UNCHANGED <<record, tables, opc, rpc, escaped, inactive, tools, turns, spc>>

\* The watchdog: no chunk and no tool result for too long.
Watchdog(k) ==
    /\ opc[k] = "awaiting" /\ rpc[k] \notin {"new", "ended"} /\ k \notin inactive
    /\ inactive' = inactive \union {k}
    /\ rcancel' = rcancel \union {k}
    /\ UNCHANGED <<record, tables, opc, ocancel, rpc, escaped, expired, tools, turns, spc>>

\* The runner has ended.  After the time limit its outcome is replaced, whatever it was,
\* unless it names the time limit (an UNKNOWN may).  Of two cancellations the time
\* limit's is told apart only if it was the only one.
RunnerEnded(k) ==
    /\ opc[k] = "awaiting" /\ rpc[k] = "ended"
    /\ expired' = expired \ {k}
    /\ inactive' = inactive \ {k}
    /\ escaped' = escaped \ {k}
    /\ LET raised == k \in ocancel \union escaped IN
       \/ /\ k \in expired /\ outcome[k] # "TIMED_OUT"
          /\ SetRecord(k, "FAILED", TimeoutOutcome(k))
          /\ opc' = [opc EXCEPT ![k] = "saving"]
          /\ ocancel' = ocancel \ {k}
          /\ UNCHANGED <<done, running>>
       \/ /\ IF k \in expired THEN outcome[k] \in {"TIMED_OUT", "UNKNOWN"} ELSE ~raised
          /\ EndOuter(k)
          /\ UNCHANGED record
       \/ /\ raised
          /\ IF status[k] \in Unfinished
             THEN /\ status' = [status EXCEPT ![k] = "CANCELLED"]
                  /\ opc' = [opc EXCEPT ![k] = "savingCancel"]
                  /\ ocancel' = ocancel \ {k}
                  /\ UNCHANGED <<done, running>>
             ELSE EndOuter(k) /\ UNCHANGED status
          /\ UNCHANGED outcome
    /\ UNCHANGED <<listed, rpc, rcancel, tools, turns, spc>>

Saved(k) ==
    /\ opc[k] \in {"saving", "savingCancel"}
    /\ EndOuter(k)
    /\ UNCHANGED <<record, listed, runner, marks, tools, turns, spc>>

\* The done callback.
Settled(k) ==
    /\ opc[k] = "settling"
    /\ opc' = [opc EXCEPT ![k] = "ended"]
    /\ Settle(k)
    /\ active' = active \ {k}
    /\ effect' = effect \ {k}
    /\ UNCHANGED <<listed, ocancel, runner, marks, turns, spc>>

OuterStep(k) ==
    \/ Enter(k) \/ Queue(k) \/ CancelledNew(k) \/ CancelledQueued(k)
    \/ RunnerEnded(k) \/ Saved(k) \/ Settled(k)

-----------------------------------------------------------------------------
(***************************************************************************)
(* The runner                                                              *)
(***************************************************************************)

StartRunner(k) ==
    /\ rpc[k] = "new" /\ k \notin rcancel
    /\ rpc' = [rpc EXCEPT ![k] = "running"]
    /\ UNCHANGED <<record, tables, opc, ocancel, rcancel, escaped, marks, tools, turns, spc>>

\* CancelledError where nothing catches it: before the first step, or while the record
\* of a stopped child is written.
Escape(k) ==
    /\ rpc[k] \in {"new", "savingStop"} /\ k \in rcancel
    /\ rpc' = [rpc EXCEPT ![k] = "ended"]
    /\ rcancel' = rcancel \ {k}
    /\ escaped' = escaped \union {k}
    /\ UNCHANGED <<record, tables, opc, ocancel, marks, tools, turns, spc>>

Working(k) == rpc[k] = "running" /\ k \notin rcancel

BeginTool(k) ==
    /\ Working(k) /\ k \notin active
    /\ active' = active \union {k}
    /\ UNCHANGED <<record, tables, opc, ocancel, runner, marks, effect, turns, spc>>

\* The tool returns: a failure is the child's outcome unless something worse happened.
EndTool(k) ==
    /\ Working(k) /\ k \in active
    /\ active' = active \ {k}
    /\ \/ effect' = effect \union {k} /\ UNCHANGED outcome
       \/ /\ effect' \in {effect, effect \union {k}}
          /\ outcome' = [outcome EXCEPT ![k] = "FAILED"]
    /\ UNCHANGED <<status, tables, opc, ocancel, runner, marks, turns, spc>>

\* The except clause for CancelledError, with o the outcome of a tool so far.
StopWith(k, o) ==
    LET end == IF k \in expired \union inactive THEN TimeoutOutcome(k)
               ELSE IF o \in {"none", "FAILED", "SUCCEEDED"} THEN CancelledOutcome(k) ELSE o
    IN  /\ SetRecord(k, IF end = "CANCELLED" THEN "CANCELLED" ELSE "FAILED", end)
        /\ rpc' = [rpc EXCEPT ![k] = "savingStop"]
        /\ rcancel' = rcancel \ {k}

\* CancelledError at an await outside a tool, or the child's own look at the token.
Stopped(k) ==
    /\ rpc[k] \in {"running", "saving"} /\ k \notin active
    /\ k \in rcancel \/ (rpc[k] = "running" /\ Turn[k] \in stopped)
    /\ StopWith(k, outcome[k])
    /\ UNCHANGED <<tables, opc, ocancel, escaped, marks, tools, turns, spc>>

\* A tool that is cancelled in its body, or whose outcome is not known for another
\* reason (ToolRegistry.execute_outcome), stops the child.
ToolUnknown(k) ==
    /\ rpc[k] = "running" /\ k \in active
    /\ active' = active \ {k}
    /\ effect' = effect \union {k}
    /\ StopWith(k, "UNKNOWN")
    /\ UNCHANGED <<tables, opc, ocancel, escaped, marks, turns, spc>>

\* The token was set on the way to the tool, whose body is not entered.
ToolCancelled(k) ==
    /\ Working(k) /\ k \in active /\ Turn[k] \in stopped
    /\ active' = active \ {k}
    /\ StopWith(k, "CANCELLED")
    /\ UNCHANGED <<tables, opc, ocancel, escaped, marks, effect, turns, spc>>

Complete(k) ==
    /\ Working(k) /\ k \notin active
    /\ SetRecord(k, "COMPLETED", IF outcome[k] = "none" THEN "SUCCEEDED" ELSE outcome[k])
    /\ rpc' = [rpc EXCEPT ![k] = "saving"]
    /\ UNCHANGED <<tables, opc, ocancel, rcancel, escaped, marks, tools, turns, spc>>

\* An exception: the model's, or the time limit of a tool, whose effect is uncertain.
Raise(k) ==
    /\ Working(k)
    /\ SetRecord(k, "FAILED", IF k \in active THEN "UNKNOWN"
                              ELSE IF outcome[k] = "none" THEN "FAILED" ELSE outcome[k])
    /\ rpc' = [rpc EXCEPT ![k] = "savingStop"]
    /\ UNCHANGED <<tables, opc, ocancel, rcancel, escaped, marks, tools, turns, spc>>

RecordSaved(k) ==
    /\ rpc[k] \in {"saving", "savingStop"} /\ k \notin rcancel
    /\ rpc' = [rpc EXCEPT ![k] = "ended"]
    /\ UNCHANGED <<record, tables, opc, ocancel, rcancel, escaped, marks, tools, turns, spc>>

RunnerStep(k) ==
    \/ StartRunner(k) \/ Escape(k) \/ BeginTool(k) \/ EndTool(k) \/ Stopped(k)
    \/ ToolUnknown(k) \/ ToolCancelled(k) \/ Complete(k) \/ Raise(k) \/ RecordSaved(k)

-----------------------------------------------------------------------------
CallerStep(k) == SpawnExecute(k) \/ SpawnError(k) \/ SpawnGivesUp(k) \/ SpawnReturns(k)

Next ==
    \/ \E k \in Tasks :
          \/ Spawn(k) \/ Invoke(k) \/ CallerStep(k) \/ SpawnAbandons(k)
          \/ OuterStep(k) \/ RunnerStep(k)
          \/ UserCancels(k) \/ Delete(k) \/ WorkflowCancelled(k) \/ TimeLimit(k) \/ Watchdog(k)
    \/ \E t \in Turns : StopTurn(t)

Spec == Init /\ [][Next]_vars

\* The event loop runs every task that can run, writes end, and time limits come.
FairSpec ==
    /\ Spec
    /\ \A k \in Tasks : WF_vars(OuterStep(k)) /\ WF_vars(RunnerStep(k)) /\ WF_vars(TimeLimit(k))

-----------------------------------------------------------------------------
(***************************************************************************)
(* Properties                                                              *)
(***************************************************************************)

\* The manager implements ChildPool: a child waits until its _run_task has a place, works while
\* its runner has not ended, and has its result when the done callback has run.
Stage(pc) ==
    CASE pc = "none" -> "new"
      [] pc \in {"new", "queued"} -> "waiting"
      [] pc \in {"awaiting", "saving"} -> "placed"
      [] pc \in {"savingCancel", "settling"} -> "leaving"
      [] pc = "ended" -> "over"

AtWork == {k \in Tasks : rpc[k] \notin {"none", "ended"}}

Places == INSTANCE ChildPool WITH
    Children <- Tasks,
    Size <- MaxConcurrent,
    Results <- Outcomes \ {"none"},
    life <- [k \in Tasks |-> Stage(opc[k])],
    working <- AtWork,
    result <- [k \in Tasks |-> IF opc[k] = "ended" THEN outcome[k] ELSE "none"]

\* Whatever stops children, and whenever: each works in a place of its own, gives it back once,
\* after it has stopped, and ends with one result that stays (_run_task: the place is taken
\* before the runner exists and given back after it has ended).
ChildrenKeepToThePool == Places!Spec

\* Never more children work than the pool has places, in whatever order they are
\* cancelled, time out and are deleted while they wait for a place, run, or write their
\* record.
PoolIsRespected == Cardinality(AtWork) <= MaxConcurrent

\* A child that works can be stopped or is being stopped: no order of deletions and
\* cancellations leaves one running that is in no table (delete_task).
NoGhosts ==
    \A k \in Tasks : rpc[k] \in {"new", "running"} => k \in running \union rcancel

\* done_event means that the result can be read: the child has ended for good, and the
\* spawn tool finds an outcome as long as the record is there (_settle_cancelled_task).
DoneIsReadable ==
    \A k \in done : /\ status[k] \in Terminal
                    /\ k \in Spawned \intersect listed => outcome[k] # "none"

\* What the spawn tool told the agent about its child stays true: always in a turn with a token,
\* where a child that was settled before it has ended is on a token that is set, and not reported
\* (spawn.py:184); in a turn without one, unless it told of a cancellation.
ReportsStayTrue ==
    [][\A k \in Tasks :
          spc[k] = "child" /\ (Turn[k] \in tokens \/ status[k] # "CANCELLED")
             => UNCHANGED <<status[k], outcome[k]>>]_vars

\* Every child that was started comes to an end, whatever stops it and whenever, and
\* also if its model asks for tools for ever (_run_task: the time limit reaches the
\* runner, and its place goes to the next child).
ChildrenEnd == <>[](\A k \in Tasks : opc[k] \in {"none", "ended"})

-----------------------------------------------------------------------------
(***************************************************************************)
(* Claims of the documentation that do not hold.                           *)
(***************************************************************************)

\* spawn.py:22: the tool waits until its child has ended; it reports a time-out only of a
\* child that has reached its time limit.
SpawnWaits == \A k \in Tasks : spc[k] = "timeout" => k \in expired \/ status[k] \in Terminal

\* spawn.py:22: and it returns the child's true result.  Without a token it returns what
\* cancel_task has settled, and the runner writes another result when it stops.
ReportsAreTheResult ==
    [][\A k \in Tasks : spc[k] = "child" => UNCHANGED <<status[k], outcome[k]>>]_vars
=============================================================================
