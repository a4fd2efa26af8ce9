# CountBot: a TLA+ verification project

CountBot is a personal agent: a Python backend (`src/backend`), one asyncio process, that
talks to language models, runs tools, answers on chat platforms and in the browser, and
runs scheduled jobs. Almost all of its difficulty is in what the event loop may interleave:
tasks that read something, await, and act on what they read; cancellations that arrive at
any await; objects that are reclaimed, replaced and cleaned up in finally clauses.

The models here are of that concurrency. They keep the control of the code (every state
change, guard, early return and error path, in their order) and abstract the data: a
message is a number, the answer of a model a choice, a database row the columns that decide
something. **One action is one stretch of one task between two awaits**, since asyncio never
interleaves two tasks anywhere else. Where the code awaits something that cannot suspend (an
uncontended lock, a coroutine without an await of its own), the stretch goes on.

Contents: 1 the system, 2 the modules, 3 the runs, 4 the proofs, 5 known divergences
between code and documentation, 6 what is not modelled, 7 plan, 8 how to run it.

## 1. The system

### Components

| Component | State it keeps | Operations | Modelled in |
|---|---|---|---|
| Session turn gate (`agent/session_gate.py`) | per session: a lock object, a count of waiters, the start time of the turn, an inbox | `acquire`, `release`, `is_busy`, `running_seconds`, `enqueue_pending`, `take_pending`, `drain_pending`, `discard_pending` | `SessionTurnGate` (turns), `ChannelTurns` (inbox) |
| Message bus (`messaging/enterprise_queue.py`) | inbound queue, hashes of recent messages | `enqueue`, `dequeue`, deduplication in a time window | `ChannelTurns` |
| Channel message handler (`channels/handler.py`, `commands.py`) | the active cancel token of each session, the route of each chat | `start_processing`, `handle_message`, `cancel_task` (/stop), `_handle_route_command` (/route), the direct coding route | `ChannelTurns` |
| Agent loop (`agent/loop.py`) | the context, the budgets, the count of key rotations | model call, tool batch, repeats and retries, injection of the inbox, hard stop | `AgentLoop`, its injection also in `ChannelTurns` |
| Tool operation ledger (`tools/execution.py`, `registry.py`) | attempts of each operation, order of completion | `execute_outcome`: create, start, finalize, replay, evict | `OperationLedger` |
| Cron scheduler (`cron/scheduler.py`, `service.py`, `api/cron/execution.py`) | the timer task, the runs, the claimed jobs; the table of jobs | arm, fire, run, time out, retry, edit, trigger by hand, stop, restart | `CronScheduler` |
| Subagents (`agent/subagent.py`, `tools/spawn.py`) | the tasks, their asyncio tasks, a semaphore | create, execute, run, cancel, delete, watchdog, `spawn` | `Subagents` (promise: `ChildPool`) |
| Workflow engine (`agent/workflow.py`) | slots of a dependency graph, child failures | cycle check, pipeline, graph, council; cancel | `Workflow`, `WorkflowEngine` |
| MCP connections (`mcp/manager.py`) | owner task and stop event of each server, the mark of a manual stop, registered tools | start, stop, reconnect, reset, lazy connect, health check | `McpManager` |
| WebSocket connections (`ws/connection.py`, `ws/events.py`), chat API (`api/chat/stream.py`) | connections of a session, its cancel token and count, delayed cancellations | connect, disconnect, message, tool call, stream, cancel | `CancelTokens` |
| Path lock, heartbeat, channel manager, memory store | see `PROJECT.json` | | not modelled |
| Providers, adapters, retrieval, settings, frontend, ... | | network, text, presentation | out of scope |

### How they interact

A message comes from a channel adapter to the **bus**, from there to a task of the **channel
handler**, which asks the **gate** for the turn of its session; web chat, team commands,
scheduled jobs and direct coding tasks ask the same gate. The turn runs the **agent loop**,
whose tool calls go through the **registry** and its **ledger**; the tools `spawn` and
`workflow_run` (the **workflow engine**) create **subagents**, which have an agent loop and a
registry of their own and carry the **cancel token** of the turn. Turns from the browser take
that token from the **connection manager**, which cancels it when the browser has gone. Some
tools are proxies for a server that an **MCP connection** holds. A message for a busy session
waits in the gate's inbox, from which the loop takes it between two tool batches, or the
handler puts it back on the bus. The **cron scheduler** starts jobs, which are turns as well.
All of this is one thread; the parts share Python objects and call each other directly.

### What is hard, and what makes each part correct

* **Gate.** `asyncio.Lock` wakes a waiter without giving it the lock, waiters can be cancelled
  before or after they are woken, and idle lock objects are reclaimed. Correct: one turn per
  session; nobody left on an old lock object; no lost wake-up; first come, first served.
* **Handler, bus, inbox.** `is_busy` is read before an awaited write; handlers without a turn
  run the same finally clause as the one with it; a message can travel bus, handler, inbox,
  bus, and the route of its chat may change on the way. Correct: every message is in exactly one
  place or has come to one end; saved once (twice by one way, section 5);
  /stop reaches the turn that runs; no turn is left with a task that is gone.
* **Agent loop.** Two budgets, an injection that buys an iteration, retries, repeated calls that
  are skipped, direct results, and a stop at any await. Correct: a request to the model answers
  every tool call of the last message exactly once; requests are paid for from the budget;
  repetition is cut off; no tool body starts after a stop; every turn ends.
* **Ledger.** Retries, calls that repeat one in flight, cancelled bodies, a bounded memory.
  Correct: an operation has one body at a time, is not repeated after a success or, without
  the caller's word, after an unknown outcome; its outcome never changes; none stays in
  progress for ever.
* **Cron.** The timer task is replaced by edits and by its own finally clause; it passes a
  cancellation on to the runs it waits for; manual runs go beside it. Correct: exactly one
  live timer; no two timed runs of a job at once; every claim is given back; due jobs run.
* **Subagents.** Six ways to stop a child, each at any await of two asyncio tasks. Correct:
  the pool is respected; no child runs that nothing can stop; a released waiter finds a
  result, which stays; every child ends.
* **Workflow.** A child that is cancelled in the queue raises through `gather`, one that runs
  ends with an outcome; failed slots block their dependents. Correct: exactly the cyclic graphs
  are rejected; success means that everything was done or skipped; no result is returned before
  the children have ended; every workflow ends.
* **MCP.** Owner tasks that outlive the operation that started or stopped them, overlapping
  operations, a health check that reconnects. Correct: a server marked as stopped has no
  connection; no connection runs out of reach of a stop; a stop takes effect, and ends.
* **Tokens.** One token for the turns of a session, made, shared, cancelled and removed by
  turns that overlap; delayed cancellations that outlive the reconnection they were meant for.
  Correct: no token is registered for nobody; a delayed cancellation hits only a session
  without connections, and an abandoned turn is cancelled.

## 2. The modules

### `AsyncioLock`, `Queues`

`asyncio.Lock` of CPython, external to `src/`: the flag, the FIFO of futures, `acquire` with
its fast path, `release`, `_wake_up_first`, and cancellation of a suspended task before and
after its future is completed. `Queues` has four operators on sequences without repetition.

### `FifoTurns` and `SessionTurnGate`

`FifoTurns` is what the gate promises: a line and a holder per session. `SessionTurnGate` is
the code: `locks`, `waiters` and `started` are `_locks`, `_waiters` and the keys of
`_started_at`; `pc`, `sess` and `lk` are the local state of the callers. `AcquireFree`,
`AcquirePromised` and `AcquireBusy` are the paths of `acquire` up to its await (the promised
one is `if not lock.locked()` followed by an `acquire()` that suspends all the same, since an
earlier waiter was already woken); `GetTurn`, `CancelledQueued` and `CancelledQueuedFree` its
resumption; `Release` is `release` with `_cleanup_if_idle`. The refinement mapping reads the
line from the lock's FIFO without the cancelled tasks.

### `ChannelTurns`

The messages of one chat through bus, handlers, inbox and turns, over the turns of `FifoTurns`
(the gate is used through its abstract specification, which `SessionTurnGate` is shown to
implement). `bus` and `hashes` are the queue and the deduplication window; `pending` the inbox;
`active` is `_active_tasks[session]`; `pc` the place of each `handle_message` task; `fresh` the
messages in the context that the model has not seen; `fate` is a history variable: what
became of each message. `route` is the route the chat's messages take, which /route changes
(`SwitchRoute`); it is looked at when a message is handled (`ChooseRoute`), so that one which was
saved for the inbox may go to the coding agent after all (`rerouted`, a history variable), where
it is saved without a look at its mark (`StartLoop`). The finally clause of `handle_message` is one action
(`LeaveTurn`, `LeaveQueued`): nothing in it suspends. The direct coding route, which releases
the turn without looking at the inbox, is `LeaveDirect`. `Others` are turns of the same session
from the web interface.

### `AtMostOnce` and `OperationLedger`

`AtMostOnce` is the promise: operations begin, finish, are forgotten. `OperationLedger` is the
ledger with `ToolRegistry.execute_outcome`, which awaits only the body of the tool: a call is
`Start`, `RejectBeforeBody` or `Answered` up to the body, and `Return` from its end. `Admitted`
composes the identity check, the replay rules and the in-progress answer; `Finalize` includes
the eviction (`_remember_completed_operation`).

### `CronScheduler`

`tpc` is the place of each timer task (waking, napping, sleeping, querying, gathering), `current`
is `_timer_task`, `rpc` the place of each run (claimed, queued, loading, executing), `parent` the
timer that gathers it, `active` is `_active_jobs`, `db` the columns of a job that decide
something. A run writes like an ORM session: the columns that differ from what it loaded.
`Edit` and `Reschedule` are separate, as the write of the table and `trigger_reschedule` are,
with one edit at a time. `byHand` is a history variable for one property. `Restart` is the end
of the process at any moment, followed by `_recompute_next_runs`.

### `ChildPool` and `Subagents`

`ChildPool` is what the manager promises: a child waits for one of a limited number of places,
works only in its place, gives it back after it has stopped working, and comes to one result,
which does not change any more. In `Subagents` a child is two asyncio tasks: `_run_task`, at
`opc`, and the runner `_run_task_impl`, at `rpc`.
`ocancel` and `rcancel` are cancellations on their way (`Task.cancel()` of a task that awaits
another goes to the other: `CancelOuter`), `escaped` a CancelledError that leaves the runner.
`expired` and `inactive` are the flags by which the runner tells what stopped it. `tokens` are the
turns that have a cancel token: those of a channel or a browser have one, those of a scheduled job
(`process_direct`) have none, and then neither `cancel_task` nor the spawn tool looks at it
(`SetToken`, `SpawnReturns`). `Settle` is
`_settle_cancelled_task`, which is called by `cancel_task` and again by the done callback.
The spawn tool is `spc`; a workflow's child is awaited by its workflow (`WorkflowCancelled`).
Outcomes keep what the code distinguishes: nothing happened, it is not known, a time-out
before any tool. The refinement mapping reads a child's life from the place of its
`_run_task` (`Stage`), its work from its runner (`AtWork`), and its result from its outcome once
the done callback has run.

### `AgentLoop`

One call of `process_message`. The variables are the fields of `_LoopState` (`iteration`,
`iterationBudget`, `totalToolCalls`, `lastSignature`, `repeatCount`, `consecutiveSkips`, ...), the
context from its last assistant message with tool calls on (`asked`, `tail`), `rotations`, which
turns of the same loop object share, and `pc`. `NextIteration` is the head of the loop,
`StreamText`, `StreamToolCall` and `StreamError` the chunks of the model, `BeginBatch` and
`RefuseBatch` the count against the budget; a call is `StartCall`, then `SkipRepeated` or
`Execute`, then `Succeeds`, `FailsSafely`, `FailsForGood` or `Retry`; `EndBatch` completes the
context, takes the inbox (`TakePending`) and decides whether the loop goes on. `UserStops`,
`UserInterjects`, `TaskCancelled` and other turns may come at each await. Outcomes that are not
retried (in progress, rejected) are failures for good here; what they are is in
`OperationLedger`. `Collect` drops a call that repeats the id of another, unless the id is empty
(`NoId`): such calls are kept and may share it. `Task.cancel()` while a body runs
ends in the registry as an unknown outcome, so that in a body only the token stops the loop.

### `McpManager`

One server. `at` is the place of each owner task (`_run_server_connection`), `ready` its future,
`connTask` and `stopEvent` the manager's tables, `manual` its mark in `_manually_stopped`. `tool` is the
connection through whose session the registered tools go, `wrapped` whether `_tool_wrappers` has
them for the registries of new sessions. An operation of a caller is queued at
`_operation_lock` (`Queues`, `Enters`), stops the current owner (`AwaitEnd`, `StopTimesOut`,
`Replaces`: the five seconds of `_stop_connection`) and starts a new one (`NewOwner`), for which
it waits outside the lock. `disconnect_server` has another await before it returns, for the health
check that it cancels (`Unlists`, "unwinding", `Unwinds`), and `disconnect` one before it begins
("clearing", `ResetGoesOn`); both keep the lock meanwhile, but `_start_connection` does not ask for
it. `Calls`, `BacksOff` and `ConnectEnds` are the attempts of `connect` and of a reconnection;
`HealthCheck` is the check that finds no connection left. `Discovers` registers the tools, `Opens`
reports the connection; `OpenFails` may come after either the attempt to connect or the
registration. These and `Closes` are the server's part, external to `src/`. `Leave`, the end of an
owner, unregisters nothing: the owner looks for names that begin with `mcp_<id>_`, the names
begin with `mcp__<id>__` (`_qualify_name`), and no id but one with a leading underscore makes the two
meet. `overlapped` is a history variable: a caller started or stopped the server inside another
one's stop, which the code does not survive (section 5, q).

### `CancelTokens`

One session. `registered` and `count` are its entry in `_session_cancel_tokens` and the count of its
`SessionTask`, `bound` its connections, `known` the manager's; `pending` is
`_pending_cancellations`, `delayAt` the place of each `_delayed_cancel`. A turn is a message, a
tool call or a stream (`at`, `token`, `made`): `Message`, `ToolCall` and `Stream` take the token
(`TakesToken`: reuse or replace), `Prepared`, `Runs` and `Ends` take it through its awaits, and
`CleansUp` removes it; `StreamAborts` is an HTTP request that is dropped. `Subscribe`, `Disconnect`,
`SendFails` and `Closes` are the ways in which a connection comes and goes, `CancelSession` the
stop button. Messages wait for each other as in the gate.

### `Workflow` and `WorkflowEngine`

`Workflow` holds the state of a workflow and the properties of its result, `WorkflowEngine` the
code; so the proofs, which are about children as well, can share the former. The recursive `_dfs` of
`_detect_cycle` is a sequence of steps: `stack` is the chain of its calls, `visited` its set, and
`todo` the parents a call has still to look at. `Root` and `Visit` call it, `LooksUp` and `Rejects` are
its look at a parent, `Returns` its end, `Accepts` the end of the check. The order in which slots and
dependencies are looked at is left open, so that the verdict is shown to be the same for all.
`token` tells whether the turn has a cancel token: without one a workflow is called off only through
its children.
`phase` is the state of each slot, `child` that of its child, `Dispatch` the
choice of the ready slots (`Ready`), `Blocked` the failure of those behind a failed one, `SlotEnds` the
end of a slot's task, with `Raises` for the CancelledError that leaves it, `Gathered` and `RoundEnds`
the end of `gather` and of a round. `GetsPlace` is the pool, `ChildEnds` an end that `Subagents`
describes in detail: with an outcome, with a CancelledError that leaves the child's task ("aborted"),
or with the record deleted before the slot could read it ("lost").

### Faulty variants

Before some definitions stands a *faulty variant* of it: a plausible bug (a dropped guard, a
missing reset, an await in the wrong place). Nothing uses it. Put in the definition's place it
violates the property that `PROJECT.json` names with it ("mutants"), which shows that the
property can fail.

## 3. The runs

| Run | Instance | States | Shows |
|---|---|---|---|
| `gate` | 3 tasks, 2 sessions, 2 lock objects | 65 000 | One turn per session on the right lock, no lost wake-up; the gate implements `FifoTurns` with its fairness; every request is served |
| `channel_turns` | 3 messages (the first names a coding agent), 2 handlers, 1 web turn, 1 iteration, 1 /stop, 1 /route | 423 000 | No message lost track of, in two places, saved twice (unless `rerouted`), or injected without an iteration left; /stop reaches the turn; handlers end and web turns come |
| `ledger` | 2 callers, 2 operations, 2 invocations, 2 attempts, retention 1 | 10 700 | The ledger's invariants; it implements `AtMostOnce`; executions end |
| `cron` | 1 job with one retry, 2 timers at once, 2 runs, pool of 2 | 195 000 | One live timer; overlaps need a manual run; claims are released; due jobs run |
| `subagents` | a spawned and a workflow's child of one turn, with or without a token, pool of 1 | 626 000 | It implements `ChildPool`; no ghosts; results are readable, what is reported stays true; children end |
| `agent_loop` | budget of 3, 2 executions and 3 skips of one fingerprint, 1 rotation, 2 attempts, 2 calls a batch with an id or without one, 1 interjection, 1 other turn | 1 520 000 | Requests pair calls with results and are paid for; repeats are cut off; no body starts after a stop; the turn ends |
| `mcp_manager` | 2 callers, 3 connections, 3 operations, 2 attempts | 257 000 | A server marked as stopped has no connection; connections stay within reach; a stop takes effect, and ends |
| `cancel_tokens` | 2 connections, a message, a stream and a tool call, 2 tokens, 2 delays | 561 000 | No stale token; delayed cancellations hit abandoned turns, all of them and only those |
| `workflow` | every graph of 3 slots, a pipeline and a council of 3, pool of 2, with or without a token | 62 000 | Exactly cycles are rejected; success is complete; results come last; workflows end |
| `channel_stranded`, `mcp_report`, `shared_token` | small | | Violations: section 5 |

**Bounds, and why they are enough.** Two of each actor are what a race needs, and the third
task of the gate is the one that comes between a wake-up and the resumption. Two lock objects
for two sessions are the most that can be in use, and make objects be reused. `MaxWaiters` (4)
bounds a count that the code lets leak (section 5); with three tasks the gate reaches one
more than the tasks there are. In `ChannelTurns`, `MaxIterations = 1` makes every tool batch the
last one, which is where the injection must buy an iteration. A retention of one operation with
two operations makes every completion evict. `NTimers = 2` allows one replaced timer on its way
out beside the current one; a third would need a second edit before the first replaced timer has
ended, and is the same situation again. Two runs of the one job allow the overlap, and its edits
replace the timer that waits for them. Restarts, edits, stops of the scheduler and the passing of
time are not bounded. The two children of `Subagents` share a turn, so that the cancellation of
one stops the other. A budget of 3 lets the agent loop repeat a call in the same batch and in
the next one, spend its budget in the middle of a batch, and run out after an injection; with
2 executions and 3 skips the cut-off comes before the budget does, because a skip does not count.
Three connections are the smallest number for which one can be lost, replaced and stopped;
two attempts are one pause between them. Two delays let the second be started while the first
is on its way, and two tokens let a turn's token be replaced by another turn's. Three slots give
all shapes of a chain, a fork, a join and a cycle of each length, and a pool of two makes one
child queue.

**Type invariants** stand in every module (`TypeOK`). They are proved (section 4), and no
run spends its time on them.

**Deadlock** checking is on where a stop of the model would be a mistake of the model: the agent
loop and the ledger, which have an action for their end. Elsewhere it is off, as these systems
may stop: every user has done all that the bounds allow, every child has ended, every connection
is closed.

**Fairness.** Weak fairness of each task's own steps stands for the event loop, which runs
every ready callback in order. Beyond it is assumed:

* `ChannelTurns`: a turn ends and a model call returns (the provider has a time limit).
* `OperationLedger`, `AgentLoop`: the body of a tool returns (`loop.py:955` limits it); the
  model's stream ends.
* `CronScheduler`: sleeps end, and a run ends by its time limit (`job_timeout`).
* `Subagents`: the time limit of a child fires (`asyncio.timeout`).
* `McpManager`: the five seconds of a stop pass (`asyncio.wait_for`), the pauses of a
  reconnection end, and a caller at the operation lock gets its turn, which is strong fairness
  because the lock is FIFO. Nothing is assumed of the server: it may connect, fail or hang.
* `CancelTokens`: a delayed cancellation is scheduled, sleeps and fires. Nothing is assumed of
  turns or connections.
* `WorkflowEngine`: children end, which is `ChildrenEnd` of `Subagents`, and a queued child gets
  its place; the semaphore is FIFO, so strong fairness.

No fairness is assumed of users, the clock's next due job, cancellations, restarts or failures.
`DueJobsRun` has a premise: from some point on no timer is being
replaced and no job is being claimed by hand. Without it the property is false for a reason that is the code's:
an unending series of edits cancels the runs again and again (section 5, f).

**Claims that do not hold.** Nine definitions state what a comment or a test says and the
code does not do; no run lists them, and naming one under INVARIANT or PROPERTY of its module's
configuration shows a trace: `RequeueIsAccepted` and `RequeuedIsNotSavedAgain` (`ChannelTurns`), `OneRunPerJob`
(`CronScheduler`), `SpawnWaits` and `ReportsAreTheResult` (`Subagents`), `InterjectionIsAnswered`
(`AgentLoop`), `ToolsAreLive` and `ConnectedIsOffered` (`McpManager`), `NoChildOutlivesItsWorkflow`
(`Workflow`, whose configuration is `WorkflowEngine.cfg`). Section 5 tells what they show.

## 4. The proofs

TLAPS proves, for every value of the constants, type correctness of nine components and the
safety properties below. Each proof module shows that an inductive invariant `IInv` holds at
first, is kept by every action, and implies the property.

* `SessionTurnGateProofs`, from `GateAssumption` (finitely many tasks; the null values are
  not locks, sessions or tasks; `MaxWaiters` is a natural number): `OneTurnPerSession`,
  `NobodyOnAnOldLock`, `RunningTimeIffBusy`, `NoSessionIsStuck`. `IInv` consists of
  `Placed` (a task in the gate uses the lock in its session's entry), `OwnLocks` (sessions do not
  share locks), `QueuesHoldWaiters` (the FIFO of a lock is the tasks with a future on it, each
  once), `TurnsHoldLocks` (a lock that is set has exactly one turn), `OnePromise` (a completed
  future belongs to the head of the FIFO of a free lock), `HeadsAreAwake` (the head of a free
  lock's FIFO is not asleep) and `CountCovers` (the count of waiters covers the tasks in the
  session). The last is why an object is never reclaimed under somebody, and it is only an
  inequality, because the count can leak. Mutual exclusion needs most of them: the window
  between `release` and the resumption of the woken task is covered by `OnePromise`. From `IInv`
  it also follows that the gate implements `FifoTurns`, its fairness apart
  (`GateImplementsFifo`): the line of a session is what `Among` keeps of its lock's FIFO, the tasks
  that were not cancelled. A task that is woken and takes the lock is the first of the line,
  although cancelled tasks may stand before it in the FIFO; a wake-up, and the departure of a
  cancelled task, change no line. What `Among` does to a queue that is appended to, cut or
  filtered again is proved once, by the shortest prefix on which it would fail (`Smallest`).
* `OperationLedgerProofs`, from `LedgerAssumption`: `OneBodyPerOperation`,
  `OnlyFinishedAreForgotten`, `NoUnsafeRepeat`, `OneInvocation`, the action property
  `OutcomesAreFinal`, and that the ledger implements `AtMostOnce` (`ExecutedAtMostOnce`). The
  inductive invariant has one part per operation (`SoundHistory`: what may follow what in its
  attempts), `Bodies` (attempts in flight and callers in a body correspond) and
  `OnlyFinishedAreForgotten`, which is why `finalize` finds its attempt.
* `SubagentsProofs`, from `SubagentAssumption` (finitely many children; at least one place):
  `PoolIsRespected`, `NoGhosts`, `DoneIsReadable`, the action property `ReportsStayTrue`, and that
  the manager implements `ChildPool` (`ChildrenKeepToThePool`). `IInv` adds `StartedOnce` (one
  asyncio task per record), `RunnerInPool` (a runner has not ended only while its `_run_task`
  awaits it, which relates the children that work to the places that are counted),
  `QueuedCanBeStopped` (the same as `NoGhosts` for a child in the queue, which is what its runner
  starts with) and `PoolCount`. That a released waiter finds a result needs the history of each
  child: `RunnersComeLater` (before `_run_task` has its place there is no runner),
  `EarlyStopsAreSettled` (a child stopped before its runner's first step was settled by whoever
  stopped it, and will not begin) and `EndsAreReadable` (from the end of its work on there is a
  result, but for a runner that ended with a CancelledError before its first step). A report stays
  true by `ReportsComeLast`: a child that is done but still has to end is on a turn that was
  stopped, and of such a child the spawn tool reports no result. On a turn without a token it
  does, and there the child was settled as cancelled first (`SettledFirst`), so that nothing but the
  report of a cancellation can become untrue; `UnknownIsMeant` and `DoneIsStopped` say that an
  unknown outcome is written again as it was, and that a child which is done does not work on
  but towards its cancellation. For the refinement the steps are
  parted in those that `ChildPool` does not see (`QuietSteps`) and the others (`LoudSteps`);
  a place is taken only by a child that holds none (`PoolCount`), and a result that was given
  is never written again, because a child past its callback has its `done_event` (`EndedAreDone`).
* `SubagentsProofs` also has the workflows, whose slots await such children (`W` is
  `WorkflowEngine`), from `WorkflowAssumption`: type correctness, `OnlyCyclesAreRejected`, `NothingRunsBehindAFailure`,
  `SuccessIsComplete`, `ResultsComeLast`. The verdict of the cycle check is exact, both ways: the
  stack is a path along `depends_on`, each slot on it once (`PathInv`), so that a parent met again
  on it closes a cycle (`PathCloses`); what a slot on the stack has looked at has returned, but
  for the one it is calling (`TodoInv`); and the slots that have returned depend only on each
  other and not in a circle (`ReturnedInv`), so that none is left when all have returned. `EngineInv` says that
  whoever has a child that lives is awaited by the engine, unless a graph was called off
  (`Awaiting`), and what each phase of a slot stands for (`Standing`). A graph that is blocked
  does not succeed because an acyclic graph without a ready slot has a failed one
  (`SomethingFailed`). `NothingRunsBehindAFailure` is not checked by a run.
* `CronSchedulerProofs`, from `CronAssumption`: `OneLiveTimer`, `OverlapsNeedAManualRun`,
  `ClaimsAreReleased`. `TimerInv` says that every timer but the current one is on its way out
  (cancelled, or past its last await); `ParentInv` that a timer in `gather` waits for its own
  runs, a queued run has a parent, and a cancelled parent has cancelled its runs; `ClaimInv` that a
  run inside its body has the claim of its job, and that of the runs which have none yet but one
  will run: the others belong to a replaced timer and are doomed (`OneWillRun`, `Doomed`).
  This last is the reason why the gap between the timer's filter and the claim is harmless
  among timed runs, and is a problem only beside a manual one.
* `AgentLoopProofs`, from `LoopAssumption`: `EveryRequestIsPaired`, `RequestsArePaidFor`,
  `RepeatsAreCutOff`, `NoBodyAfterStop`. The parts of `IInv` are the accounts (`Budget`, `Rotations`,
  `CallsCounted`: what each budget has paid for), the fuse (`Fuse`: the model's counters of repeats
  and skips against the history of the executions), `Stops`, and the pairing: the ids of a batch
  differ, unless they are empty, because `Collect` drops a call with an id used before (`IdsDiffer`), the
  results so far   answer the calls so far (`PairedSoFar`), and between batches all are answered (`Paired`).
* `McpManagerProofs`, from `McpAssumption`: `MarkedIsDown`, `OwnersAreReachable` and the action
  property `StopTakesEffect`. `IInv` adds `NotYetMade`, `CallersWaitForOwners` (what a
  caller waits for exists), `StopsWaitForTheOwner` (a caller inside a stop waits for the current
  owner, and there is none left while it awaits the health check) and `StartsAreUnmarked` (a
  caller that ends a connection to make another has taken the mark back); these hold unless
  stops overlapped.
* `CancelTokensProofs`, from `TokensAssumption`: `NoStaleToken` and the action properties
  `NoCancelWhileConnected` and `StaleDelaysAreHarmless`. The count of a session is not the
  number of its connections: those bound before the token was made are missing. `IInv`
  shows that this is harmless: `ExactWhenArmed` says that it is exact for a token that an armed
  delay may hit.
* `ChannelTurnsProofs`, from `ChannelAssumption`: `OnePlace`, `SavedOnce`,
  `InjectionIsPaidFor`, `StopReachesTheTurn`, and the action property `FateIsFinal`,
  which no run checks since it follows from the places. `LineInv` says that a task is in the line once, and
  that a handler which works on a message has the turn; `BudgetInv` that only a handler about to
  call the model has unread messages, and then an iteration left. `PlaceInv` splits the places
  of a message into four kinds (`OnBus`, `Queued`, `Read`, `Held`): a message sent and not yet
  at its end is in a single place of one kind, all others are nowhere, so that an action needs an
  argument only for the kinds it touches. `SavedInv` says that the mark on a message tells
  whether it was saved, in every place, and `WayInv` that a marked message on the direct route is
  noted in `rerouted`: it was saved once, and its second save is its last, since no message on
  that route goes to the inbox. That the inbox, merged for the bus, holds the
  same messages is `FlattenFacts`: there is no smallest length at which it fails (`Smallest`, from the
  well-foundedness of the naturals).

Only model-checked, since ENABLED and induction over time are beyond the prover: liveness
(`EveryRequestIsServed`, `TurnsComeAndGo`, `ExecutionsEnd`, `DueJobsRun`, `ChildrenEnd`,
`TurnEnds`, `StopsEnd`, `AbandonedIsCancelled`, `WorkflowsEnd`) and the fairness of `FifoTurns`, which is
part of `GrantsAreFifo`. All other properties of the runs that pass are proved.

## 5. Known divergences

Found while modelling, and shown by a run ("findings" in `PROJECT.json`):

* `channel_stranded`: `handle_message` asks `is_busy`, awaits the write of the message, and leaves it
  in the inbox without asking again (`handler.py:414-425`). If the turn ended meanwhile, the message
  stays there until another turn of the session happens to take it, against
  `session_gate.py:207` and `:147`.
* `mcp_report`: an owner that is cancelled while it connects re-raises without resolving `ready`
  (`manager.py:274`). Whoever started it waits for ever, against `manager.py:245`, and
  `connecting` is never reset.
* `shared_token`: `handle_message_event` removes the token of the session at its end also when
  another message made it or shares it (`events.py:572`), so that no stop reaches the other one,
  against `connection.py:66`.

The models reproduce these as well; no run is devoted to them:

* (a) `session_gate.py:72`: the branch for a free lock awaits `acquire()` outside the try that
  undoes `_waiters`. A task cancelled there leaves the count one too high, and the session's
  entries are never reclaimed, against the docstring at `:130`. (`CancelledQueuedFree`.)
* (b) `handler.py:1068` and `commands.py:749`, and the web routes, release a turn without
  draining the inbox, whose messages then wait for the next turn from a channel. (`LeaveDirect`, `OtherFinish`.)
* (c) `handler.py:656`: when a turn is cancelled its leftovers are dropped, also a message that
  was sent after /stop, against the comment at `:652`. (`LeaveTurn`, fate "dropped".)
* (d) `loop.py:804` and `:886-890`: the loop can end by a hard stop right after it took the inbox,
  whose messages the model then never sees, against the comment at `loop.py:820`.
  (`InterjectionIsAnswered`; fate "absorbed" of `ChannelTurns`.)
* (e) `handler.py:258`: each message has a task of its own, which awaits before it reaches the
  gate, so the gate's FIFO order need not be the order in which the messages were sent,
  against `session_gate.py:29`.
* (f) `scheduler.py:144`: `_arm_timer` cancels the timer that waits in `gather` and so the runs it
  waits for, which stay "running" in the table and are started again at once; `stop()` does the
  same, though `scheduler.py:57` and `:72` speak of waiting for them. A timer that is replaced in
  `_on_timer` replaces its successor in its finally clause. (`Arm`, `EndFired`, `Stop`.)
* (g) `scheduler.py:371`: the end of a run computes the next time from the schedule it loaded,
  over an edit made meanwhile. `run_job_manually` does not arm the timer, so the retry it
  schedules waits for the timer's next wake-up.
* (h) `subagent.py`: after `cancel_task` has settled a child, the runner writes its status and
  outcome again (CANCELLED becomes FAILED with an unknown outcome); the spawn tool is shielded
  from it only by its look at the token (`ReportsStayTrue` and its mutant). A turn of a scheduled job has
  no token (`cron/executor.py:95`, `loop.py:1386-1424`); there `cancel_task` has none to set
  (`subagent.py:1151`, `:1296`) and the tool none to look at (`spawn.py:164`, `:184`), so that it
  reports the settled CANCELLED, which the runner then rewrites, against "the true result" of
  `spawn.py:22` (`ReportsAreTheResult`). A tool refused
  because of the cancellation replaces that outcome by CANCELLED, also when an earlier tool had an effect,
  against the docstring at `:1167` (`ToolCancelled`). The token a child carries is its turn's: to cancel or
  delete one child through the API stops the whole turn. A child that is deleted in the queue
  releases its waiters without an outcome (`DoneIsReadable` speaks of listed children).
* (i) `enterprise_queue.py:127`: a single leftover is put back on the bus with the content it
  had, and is dropped as a duplicate of itself within the 10 s window, against `handler.py:654`.
  (`RequeueIsAccepted`.)
* (j) `scheduler.py:221`: the timer's filter and the mark that a job runs are separated by the
  semaphore; a manual run claimed in between runs the job a second time, against
  `scheduler.py:190` and `:476`. (`OneRunPerJob`.)
* (k) `spawn.py:173-181`: the `TimeoutError` of a half-second `wait_for` leaves the polling loop, so
  any child that works longer is reported as timed out, against `spawn.py:22`. (`SpawnWaits`.)
* (l) `workflow.py:565`: a child cancelled in the queue raises CancelledError through the
  slot's `except Exception` and `gather`; the graph returns while its siblings run on. The
  comment at `:613-614` fears the same of a council, which asks for the exceptions instead.
  (`NoChildOutlivesItsWorkflow`; `ResultsComeLast` excepts such graphs.)
* (m) `loop.py`, the notice at the end of an answer: it says that the iterations ran out also when
  the answer came in the last iteration allowed. (`LimitWarning`.)
* (n) `mcp/manager.py:263-266` looks for the tools an owner has registered by the prefix `mcp_<id>_`,
  but they are called `mcp__<id>__<tool>` (`helpers.py:45`). So a stop removes none, against
  `docs/mcp-remote.md:72`: they stay, on the session that was closed (`ToolsAreLive`). The same holds
  for tools registered by a discovery that then fails (`connection.py:304-310`). A reconnection
  finds their names taken and skips them, so that the first session's wrappers remain for
  ever; after a `disconnect` the wrappers are dropped and no connection brings them back, so that
  sessions are given no tool of a connected server (`ConnectedIsOffered`). `get_status` counts no
  tools. `tests/test_mcp_reconnect.py` registers names made up with the old prefix.
* (o) `ws/connection.py`: the count of a token misses the connections that were bound before it
  was made, which section 4 shows to be harmless. A stream that is dropped cancels the session's
  token, also when a message made it and is still running (`StreamAborts`).
* (p) `handler.py:991-996`: the direct route saves a message without asking for its `_persisted` mark.
  One that was saved for the inbox and put back on the bus, and whose chat was switched to that
  route meanwhile, is written twice, against the comment at `:659` (`RequeuedIsNotSavedAgain`; two
  messages that read, merged, as a request which names an agent take the same way).
* (q) `mcp/manager.py`: the mark of a manual stop, made during a later attempt of a reconnection, is
  taken back by that attempt, against the comment at `:27-29` (`Calls`), and so is one for which a
  lazy connect waited at the lock. A start inside another caller's stop, the wait for the health
  check included (`:434-442`), overwrites the event that the stop is about to remove, or outlives
  the stop; the connection can be lost (`overlapped`, the exception in `OwnersAreReachable`,
  `MarkedIsDown` and `StopTakesEffect`).

## 6. What is not modelled, and why

Text (prompts, formatting, compression), network protocols of providers and platforms, and the
frontend have no interleaving of their own. Database failures are modelled where the code
handles them (`ClaimFailed`, `Fail`); the rows a child writes are not, nor the deletion of jobs
(`delete_on_success`) and the edits of their schedules (g). Of the commands of the channel handler
/stop and /route are modelled. /new and /switch change the session of the messages that follow,
a message put back from the inbox among them, which is then handled in a session to whose history
it was not written; the models have one session and do not show this. Other commands, media and
streaming do not touch the state they keep. Of MCP, what a
transport does and the tools of several servers in one registry are left out; of the WebSocket
events, those that only read; of the stream, its reading of the history before it asks for the
turn (`stream.py:146`).

Left for another day are the channel manager with its adapters, among which the long connection
of WeCom (`channels/wecom.py`) has futures of its own: a request waits for an acknowledgement that
the task which reads the socket must deliver, and a callback handled inside that task cannot
wait for one. The heartbeat is a job of the scheduler; the path lock is a lock for each path
with a count of users, as in the gate. `PROJECT.json` lists every component with what its model
leaves out, and every hazard with the properties that cover it, or why none does.

## 7. Plan

Written, in this order: the gate with its lock (the base of everything), the handler over it,
the ledger, the scheduler, the subagents, the agent loop, MCP, tokens, workflows; each with the
abstract specification worth stating (`FifoTurns`, `AtMostOnce`, `ChildPool`), its runs, and the proofs of
section 4.

Next, in order of weight:

1. The channel manager and the WeCom connection: requests against the task that reads,
   reconnection against requests in flight, the end of an adapter against its restart.
2. `PathLock` (`tools/path_lock.py`) over `AsyncioLock`; deletion of jobs and edits of schedules in
   `CronScheduler`.
3. Proofs: the children of `WorkflowEngine` as users of `ChildPool`; what the bus and the
   inbox promise a message (sent once, at its end once) as an abstract specification that
   `ChannelTurns` implements.

## 8. How to run it

With TLC and the community modules: `tlc -config X.cfg M.tla` for each run of `PROJECT.json`; each
takes less than four minutes. The proofs (TLAPS 1.4.5 with Z3, Zenon and LS4): `tlapm M.tla` for
`SessionTurnGateProofs`, `ChannelTurnsProofs`, `OperationLedgerProofs`, `SubagentsProofs`,
`CronSchedulerProofs`, `AgentLoopProofs`, `McpManagerProofs` and `CancelTokensProofs`.
