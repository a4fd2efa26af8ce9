---------------------------- MODULE CronScheduler ----------------------------
(***************************************************************************)
(* backend/modules/cron/scheduler.py: one timer task sleeps until a job is *)
(* due, starts a task for every due job and waits for them; the manual run *)
(* of the API (api/cron/execution.py) goes beside it.  Editing a job       *)
(* replaces the timer task (trigger_reschedule), and stop() ends it.       *)
(*                                                                         *)
(* A timer that waits for its runs passes a cancellation on to them        *)
(* (asyncio.gather).  A replaced timer lives on until its runs are done.   *)
(* Each action is a stretch of one task between two awaits.  Faulty        *)
(* variants stand before the definitions they replace.                     *)
(***************************************************************************)
EXTENDS Naturals, FiniteSets

CONSTANTS Jobs,
          NoTimer,
          MaxConcurrent,   \* of the semaphore
          MaxRetries,      \* job -> its max_retries
          Claimable,       \* the jobs that are started by hand (checking only)
          NTimers,         \* bound on the timer tasks alive at once (checking only)
          Runs             \* <<job, n>>: bounds the runs of a job alive at once (checking only)

Timers == 1 .. NTimers

ASSUME CronAssumption ==
    /\ NTimers \in Nat \ {0} /\ Runs \subseteq Jobs \X Nat
    /\ Claimable \subseteq Jobs
    /\ NoTimer \notin Timers
    /\ MaxConcurrent \in Nat \ {0}
    /\ MaxRetries \in [Jobs -> Nat]

VARIABLES
    phase,      \* of the scheduler: _running, or how far stop() has come
    current,    \* _timer_task
    tpc,        \* where each timer task is
    tcancel,    \* timer tasks that were cancelled and are not done
    rpc,        \* where each run is
    parent,     \* run -> the timer that waits for it; NoTimer for a manual run
    rcancel,    \* runs that were cancelled and are not done
    loaded,     \* run -> the job as its database session loaded it
    active,     \* _active_jobs
    byHand,     \* jobs claimed for a manual run since they last had no run (for properties only)
    db,         \* the table of jobs
    edited      \* a job was changed, and the timer is not replaced yet

timerVars == <<current, tpc, tcancel>>
runVars == <<rpc, parent, rcancel, loaded>>
claims == <<active, byHand>>
vars == <<phase, timerVars, runVars, claims, db, edited>>

\* "stopping": waits for the timer; "waiting": for the runs; "forced": cancelled them.
Phases == {"running", "stopping", "waiting", "forced"}

\* "waking": reads the table; "napping": nothing to wait for; "sleeping": until a job
\* is due; "querying": reads the due jobs; "gathering": waits for its runs.
TimerPCs == {"idle", "waking", "napping", "sleeping", "querying", "gathering"}

\* "claimed": the API marks the job before it creates the task; "queued": waits for the
\* semaphore; "loading": reads the job; "executing": writes that it runs, is in
\* on_execute or writes the outcome.
RunPCs == {"idle", "claimed", "queued", "loading", "executing"}

\* past: next_run is not in the future; running: last_status is "running".
Records == [enabled : BOOLEAN, past : BOOLEAN, running : BOOLEAN, retries : Nat]

NewJob == [enabled |-> TRUE, past |-> FALSE, running |-> FALSE, retries |-> 0]

\* The columns that a run uses after it loaded them.
Loaded == [enabled : BOOLEAN, retries : Nat]

NotLoaded == [enabled |-> TRUE, retries |-> 0]

TypeOK ==
    /\ phase \in Phases
    /\ current \in Timers
    /\ tpc \in [Timers -> TimerPCs]
    /\ tcancel \subseteq Timers
    /\ rpc \in [Runs -> RunPCs]
    /\ parent \in [Runs -> Timers \union {NoTimer}]
    /\ rcancel \subseteq Runs
    /\ loaded \in [Runs -> Loaded]
    /\ active \subseteq Jobs /\ byHand \subseteq Jobs
    /\ db \in [Jobs -> Records] /\ \A j \in Jobs : db[j].retries <= MaxRetries[j]
    /\ edited \in BOOLEAN

Init ==
    /\ phase = "running"
    /\ current = 1
    /\ tpc = [t \in Timers |-> IF t = 1 THEN "waking" ELSE "idle"]
    /\ tcancel = {} /\ rcancel = {} /\ active = {} /\ byHand = {}
    /\ rpc = [r \in Runs |-> "idle"]
    /\ parent = [r \in Runs |-> NoTimer]
    /\ loaded = [r \in Runs |-> NotLoaded]
    /\ db = [j \in Jobs |-> NewJob]
    /\ edited = FALSE

RunsOf(j) == {r \in Runs : r[1] = j}
Due(j) == db[j].enabled /\ db[j].past
Alive(r) == rpc[r] # "idle"
Children(t) == {r \in Runs : parent[r] = t}
Inside(r) == rpc[r] \in {"loading", "executing"}
Scheduled == {r \in Runs : parent[r] # NoTimer}

-----------------------------------------------------------------------------
(***************************************************************************)
(* The timer.                                                              *)
(***************************************************************************)

\* The timers at their places in pcs, one of which is free or about to end, are joined
\* by a new one.  The cancelled ones are cs.
NewTimer(pcs, cs) ==
    LET n == CHOOSE t \in Timers : pcs[t] = "idle" IN
    /\ current' = n
    /\ tpc' = [pcs EXCEPT ![n] = "waking"]
    /\ tcancel' = cs

\* _arm_timer does not look whether the old timer is done.
ArmWithoutCancel(pcs, cs) == NewTimer(pcs, cs) /\ UNCHANGED rcancel

\* _arm_timer: the timer in place is cancelled, and the runs it waits for with it.
Arm(pcs, cs) ==
    IF pcs[current] # "idle"
    THEN /\ NewTimer(pcs, cs \union {current})
         /\ rcancel' = rcancel \union Children(current)
    ELSE NewTimer(pcs, cs) /\ UNCHANGED rcancel

\* The end of a timer that fired: it arms the next one unless the scheduler stops.
EndFired(t) ==
    LET pcs == [tpc EXCEPT ![t] = "idle"] IN
    IF phase = "running"
    THEN Arm(pcs, tcancel \ {t})
    ELSE tpc' = pcs /\ tcancel' = tcancel \ {t} /\ UNCHANGED <<current, rcancel>>

\* _get_next_wake_time
Wake(t) ==
    /\ tpc[t] = "waking" /\ t \notin tcancel
    /\ tpc' = [tpc EXCEPT ![t] =
          IF phase = "running" /\ \E j \in Jobs : db[j].enabled THEN "sleeping" ELSE "napping"]
    /\ UNCHANGED <<phase, current, tcancel, runVars, claims, db, edited>>

\* The 60 seconds, or the time to the next job, have passed.
NapOver(t) ==
    /\ tpc[t] = "napping" /\ t \notin tcancel
    /\ EndFired(t)
    /\ UNCHANGED <<phase, rpc, parent, loaded, claims, db, edited>>

SleepOver(t) ==
    /\ tpc[t] = "sleeping" /\ t \notin tcancel
    /\ tpc' = [tpc EXCEPT ![t] = "querying"]
    /\ UNCHANGED <<phase, current, tcancel, runVars, claims, db, edited>>

\* The due jobs are started whether or not they run already.
ToStartAll == {j \in Jobs : Due(j)}

\* _on_timer: the due jobs that nobody runs.
ToStart == {j \in Jobs : Due(j) /\ j \notin active}

FreeRun(j) == CHOOSE r \in RunsOf(j) : ~Alive(r)
HasFreeRun(j) == \E r \in RunsOf(j) : ~Alive(r)

\* The timer that finds every due job running returns before the try whose finally clause
\* arms the next one.
QueryWithoutRearm(t) ==
    /\ tpc[t] = "querying" /\ t \notin tcancel
    /\ \A j \in ToStart : HasFreeRun(j)
    /\ IF ToStart = {}
       THEN /\ tpc' = [tpc EXCEPT ![t] = "idle"]
            /\ UNCHANGED <<current, tcancel, rpc, parent, rcancel>>
       ELSE LET new == {FreeRun(j) : j \in ToStart} IN
            /\ tpc' = [tpc EXCEPT ![t] = "gathering"]
            /\ rpc' = [r \in Runs |-> IF r \in new THEN "queued" ELSE rpc[r]]
            /\ parent' = [r \in Runs |-> IF r \in new THEN t ELSE parent[r]]
            /\ UNCHANGED <<current, tcancel, rcancel>>
    /\ UNCHANGED <<phase, loaded, claims, db, edited>>

Query(t) ==
    /\ tpc[t] = "querying" /\ t \notin tcancel
    /\ \A j \in ToStart : HasFreeRun(j)
    /\ IF ToStart = {}
       THEN EndFired(t) /\ UNCHANGED <<rpc, parent>>
       ELSE LET new == {FreeRun(j) : j \in ToStart} IN
            /\ tpc' = [tpc EXCEPT ![t] = "gathering"]
            /\ rpc' = [r \in Runs |-> IF r \in new THEN "queued" ELSE rpc[r]]
            /\ parent' = [r \in Runs |-> IF r \in new THEN t ELSE parent[r]]
            /\ UNCHANGED <<current, tcancel, rcancel>>
    /\ UNCHANGED <<phase, loaded, claims, db, edited>>

\* gather returns when all its runs are done, also when it was cancelled.
Gathered(t) ==
    /\ tpc[t] = "gathering" /\ Children(t) = {}
    /\ EndFired(t)
    /\ UNCHANGED <<phase, rpc, parent, loaded, claims, db, edited>>

\* A cancelled timer ends; in _on_timer it arms another one on its way out.
TimerCancelled(t) ==
    /\ t \in tcancel
    /\ \/ /\ tpc[t] \in {"waking", "napping", "sleeping"}
          /\ tpc' = [tpc EXCEPT ![t] = "idle"]
          /\ tcancel' = tcancel \ {t}
          /\ UNCHANGED <<current, rcancel>>
       \/ tpc[t] = "querying" /\ EndFired(t)
    /\ UNCHANGED <<phase, rpc, parent, loaded, claims, db, edited>>

-----------------------------------------------------------------------------
(***************************************************************************)
(* The runs.                                                               *)
(***************************************************************************)

\* The claim of a run that is cancelled is not given back.
EndUncancelled(r) ==
    /\ rpc' = [rpc EXCEPT ![r] = "idle"]
    /\ parent' = [parent EXCEPT ![r] = NoTimer]
    /\ rcancel' = rcancel \ {r}
    /\ loaded' = [loaded EXCEPT ![r] = NotLoaded]
    /\ active' = IF r \in rcancel THEN active ELSE active \ {r[1]}
    /\ byHand' = byHand

\* The finally clauses: the job is nobody's, whoever claimed it.
End(r) ==
    /\ rpc' = [rpc EXCEPT ![r] = "idle"]
    /\ parent' = [parent EXCEPT ![r] = NoTimer]
    /\ rcancel' = rcancel \ {r}
    /\ loaded' = [loaded EXCEPT ![r] = NotLoaded]
    /\ active' = IF rpc[r] = "queued" THEN active ELSE active \ {r[1]}
    /\ byHand' = IF \E s \in RunsOf(r[1]) \ {r} : Alive(s) THEN byHand ELSE byHand \ {r[1]}

\* _execute_job_safe behind the semaphore: whether somebody runs the job since the
\* timer looked is not looked at again.
Enter(r) ==
    /\ rpc[r] = "queued" /\ r \notin rcancel
    /\ Cardinality({s \in Scheduled : Inside(s)}) < MaxConcurrent
    /\ rpc' = [rpc EXCEPT ![r] = "loading"]
    /\ active' = active \union {r[1]}
    /\ UNCHANGED <<phase, timerVars, parent, rcancel, loaded, byHand, db, edited>>

\* trigger_cron_job: try_acquire_job and mark_job_running.
Claim(r) ==
    /\ phase = "running"
    /\ r[1] \in Claimable /\ ~Alive(r) /\ r = FreeRun(r[1])
    /\ r[1] \notin active
    /\ active' = active \union {r[1]}
    /\ byHand' = byHand \union {r[1]}
    /\ rpc' = [rpc EXCEPT ![r] = "claimed"]
    /\ UNCHANGED <<phase, timerVars, parent, rcancel, loaded, db, edited>>

StartManual(r) ==
    /\ rpc[r] = "claimed"
    /\ db' = [db EXCEPT ![r[1]].running = TRUE]
    /\ rpc' = [rpc EXCEPT ![r] = "loading"]
    /\ UNCHANGED <<phase, timerVars, parent, rcancel, loaded, claims, edited>>

\* The write fails, and the claim is given back.
ClaimFailed(r) ==
    /\ rpc[r] = "claimed"
    /\ End(r)
    /\ UNCHANGED <<phase, timerVars, db, edited>>

\* The run reads the job and writes that it runs.  A job that was disabled since the
\* timer looked is not run; by hand it is.
Load(r) ==
    /\ rpc[r] = "loading" /\ r \notin rcancel
    /\ IF r \in Scheduled /\ ~db[r[1]].enabled
       THEN End(r) /\ UNCHANGED db
       ELSE /\ rpc' = [rpc EXCEPT ![r] = "executing"]
            /\ loaded' = [loaded EXCEPT ![r] =
                  [enabled |-> db[r[1]].enabled, retries |-> db[r[1]].retries]]
            /\ db' = [db EXCEPT ![r[1]].running = TRUE]
            /\ UNCHANGED <<parent, rcancel, claims>>
    /\ UNCHANGED <<phase, timerVars, edited>>

\* What an ORM session writes: the columns that differ from what it loaded.
WriteRetries(r, n) == IF n = loaded[r].retries THEN db[r[1]].retries ELSE n

\* After a success, or the last failure, the next time is computed if the job was enabled
\* when it was loaded.
RanRow(r) ==
    [db[r[1]] EXCEPT !.running = FALSE,
                     !.retries = WriteRetries(r, 0),
                     !.past = @ /\ ~loaded[r].enabled]

Succeed(r) ==
    /\ rpc[r] = "executing" /\ r \notin rcancel
    /\ db' = [db EXCEPT ![r[1]] = RanRow(r)]
    /\ End(r)
    /\ UNCHANGED <<phase, timerVars, edited>>

\* A failure that is retried is due again after a pause.
RetriedRow(r) ==
    [db[r[1]] EXCEPT !.running = FALSE, !.retries = loaded[r].retries + 1, !.past = FALSE]

\* One retry too many.
RetryOnceMore(r) ==
    /\ rpc[r] = "executing" /\ r \notin rcancel
    /\ loaded[r].retries <= MaxRetries[r[1]]
    /\ db' = [db EXCEPT ![r[1]] = RetriedRow(r)]
    /\ End(r)
    /\ UNCHANGED <<phase, timerVars, edited>>

FailAndRetry(r) ==
    /\ rpc[r] = "executing" /\ r \notin rcancel
    /\ loaded[r].retries < MaxRetries[r[1]]
    /\ db' = [db EXCEPT ![r[1]] = RetriedRow(r)]
    /\ End(r)
    /\ UNCHANGED <<phase, timerVars, edited>>

Fail(r) ==
    /\ rpc[r] = "executing" /\ r \notin rcancel
    /\ loaded[r].retries >= MaxRetries[r[1]]
    /\ db' = [db EXCEPT ![r[1]] = RanRow(r)]
    /\ End(r)
    /\ UNCHANGED <<phase, timerVars, edited>>

\* _mark_timeout loads the job anew.
TimedOutRow(r) == [db[r[1]] EXCEPT !.running = FALSE, !.past = @ /\ ~db[r[1]].enabled]

\* The time limit cancels what it bounds.
TimeOut(r) ==
    /\ rpc[r] = "executing" /\ r \notin rcancel
    /\ db' = [db EXCEPT ![r[1]] = TimedOutRow(r)]
    /\ End(r)
    /\ UNCHANGED <<phase, timerVars, edited>>

\* CancelledError: no clause writes what became of the job.
RunCancelled(r) ==
    /\ r \in rcancel
    /\ End(r)
    /\ UNCHANGED <<phase, timerVars, db, edited>>

\* The tool that is being executed turns the CancelledError into an outcome
\* (ToolRegistry.execute_outcome), and the run goes on.
CancelSwallowed(r) ==
    /\ r \in rcancel /\ rpc[r] = "executing"
    /\ rcancel' = rcancel \ {r}
    /\ UNCHANGED <<phase, timerVars, rpc, parent, loaded, claims, db, edited>>

-----------------------------------------------------------------------------
(***************************************************************************)
(* The user, the clock and the process.                                    *)
(***************************************************************************)

\* add_job, update_job: the next time is in the future.  One edit at a time.
Edit(j, enabled) ==
    /\ ~edited
    /\ phase = "running"
    /\ edited' = TRUE
    /\ db' = [db EXCEPT ![j].enabled = enabled, ![j].past = FALSE]
    /\ UNCHANGED <<phase, timerVars, runVars, claims>>

\* trigger_reschedule
Reschedule ==
    /\ edited
    /\ edited' = FALSE
    /\ IF phase = "running"
       THEN (\E t \in Timers : tpc[t] = "idle") /\ Arm(tpc, tcancel)
       ELSE UNCHANGED <<timerVars, rcancel>>
    /\ UNCHANGED <<phase, rpc, parent, loaded, claims, db>>

\* The next_run of j comes.
TimePasses(j) ==
    /\ db[j].enabled /\ ~db[j].past
    /\ db' = [db EXCEPT ![j].past = TRUE]
    /\ UNCHANGED <<phase, timerVars, runVars, claims, edited>>

Stop ==
    /\ phase = "running"
    /\ phase' = "stopping"
    /\ tcancel' = tcancel \union {current}
    /\ rcancel' = rcancel \union Children(current)
    /\ UNCHANGED <<current, tpc, rpc, parent, loaded, claims, db, edited>>

StopTimerDone ==
    /\ phase = "stopping" /\ tpc[current] = "idle"
    /\ phase' = "waiting"
    /\ UNCHANGED <<timerVars, runVars, claims, db, edited>>

\* After 30 seconds the runs that are left (_active_tasks) are cancelled.
StopForce ==
    /\ phase = "waiting" /\ Scheduled # {}
    /\ phase' = "forced"
    /\ rcancel' = rcancel \union Scheduled
    /\ UNCHANGED <<timerVars, rpc, parent, loaded, claims, db, edited>>

\* _recompute_next_runs.
RecomputedRow(j) ==
    [db[j] EXCEPT !.past = @ /\ ~db[j].enabled,
                  !.running = FALSE,
                  !.retries = IF db[j].running THEN 0 ELSE @]

\* The process ends, at any time, and starts again.
Restart ==
    /\ phase' = "running"
    /\ current' = 1
    /\ tpc' = [t \in Timers |-> IF t = 1 THEN "waking" ELSE "idle"]
    /\ tcancel' = {} /\ rcancel' = {} /\ active' = {} /\ byHand' = {}
    /\ edited' = FALSE
    /\ rpc' = [r \in Runs |-> "idle"]
    /\ parent' = [r \in Runs |-> NoTimer]
    /\ loaded' = [r \in Runs |-> NotLoaded]
    /\ db' = [j \in Jobs |-> RecomputedRow(j)]

-----------------------------------------------------------------------------
TimerStep(t) ==
    Wake(t) \/ NapOver(t) \/ SleepOver(t) \/ Query(t) \/ Gathered(t) \/ TimerCancelled(t)

RunStep(r) ==
    \/ Enter(r) \/ StartManual(r) \/ ClaimFailed(r) \/ Load(r)
    \/ Succeed(r) \/ FailAndRetry(r) \/ Fail(r) \/ TimeOut(r)
    \/ RunCancelled(r) \/ CancelSwallowed(r)

Next ==
    \/ \E t \in Timers : TimerStep(t)
    \/ \E r \in Runs : RunStep(r) \/ Claim(r)
    \/ \E j \in Jobs : TimePasses(j) \/ \E enabled \in BOOLEAN : Edit(j, enabled)
    \/ Reschedule \/ Stop \/ StopTimerDone \/ StopForce
    \/ Restart

Spec == Init /\ [][Next]_vars

\* The event loop runs every task that can run, sleeps end, and a run ends by its time
\* limit if not before.
FairSpec ==
    /\ Spec
    /\ \A t \in Timers : WF_vars(TimerStep(t))
    /\ \A r \in Runs : WF_vars(RunStep(r))
    /\ WF_vars(Reschedule)

-----------------------------------------------------------------------------
(***************************************************************************)
(* Properties                                                              *)
(***************************************************************************)

\* While the scheduler runs there is exactly one timer that will fire, however edits,
\* cancelled timers and their finally clauses cross: with none no job would ever run
\* again, with two every job would run twice.
OneLiveTimer ==
    phase = "running" =>
        \A t \in Timers : t = current <=> tpc[t] # "idle" /\ t \notin tcancel

\* Two runs of a job overlap only if one of its runs was started by hand: the timers
\* alone never run a job twice at once, also when a timer is replaced while its runs go
\* on, are being cancelled or do not heed their cancellation (_on_timer's filter).
OverlapsNeedAManualRun ==
    \A r, s \in Runs : r # s /\ r[1] = s[1] /\ Inside(r) /\ Inside(s) => r[1] \in byHand

\* A claim on a job has a run that will give it back: otherwise the job is "already
\* running" for the API and for the timer until the process restarts.
ClaimsAreReleased ==
    \A j \in active : \E r \in RunsOf(j) : rpc[r] \notin {"idle", "queued"}

\* Once nobody edits jobs or starts them by hand, a due job is run, whatever else is due
\* or running, until the scheduler stops.  (As long as replaced timers are on their way
\* out they replace the timer in their turn, and cancel what it runs.)
DueJobsRun ==
    <>[](tcancel = {} /\ \A r \in Runs : rpc[r] # "claimed")
        => \A j \in Jobs : Due(j) ~> ~Due(j) \/ phase # "running"

-----------------------------------------------------------------------------
(***************************************************************************)
(* Claims of the documentation that do not hold.                           *)
(***************************************************************************)

\* scheduler.py:190, :476: a job is not executed twice at once.
OneRunPerJob ==
    \A r, s \in Runs : r[1] = s[1] /\ rpc[r] = "executing" /\ rpc[s] = "executing" => r = s
=============================================================================
