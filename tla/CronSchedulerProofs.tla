------------------------ MODULE CronSchedulerProofs ------------------------
(***************************************************************************)
(* Proofs about CronScheduler: while the scheduler runs there is exactly   *)
(* one timer that will fire; two runs of a job overlap only where one was  *)
(* started by hand; and every claim on a job has a run that gives it back. *)
(* For every set of jobs, any number of timers and of runs, any limit on   *)
(* concurrent runs and any number of retries.                              *)
(*                                                                         *)
(* That the timers never run a job twice hangs on two facts.  A timer      *)
(* sees the claims of the runs that are inside, and so starts none beside  *)
(* them; and a run that still queues, which has no claim yet, belongs to a *)
(* timer that was replaced, whose cancellation has reached it: it will not *)
(* enter any more.                                                         *)
(***************************************************************************)
EXTENDS CronScheduler, TLAPS

\* The two parts of type correctness: the table of jobs, and the rest.
RowsOK == db \in [Jobs -> Records] /\ \A j \in Jobs : db[j].retries <= MaxRetries[j]

TasksOK ==
    /\ phase \in Phases /\ current \in Timers /\ tpc \in [Timers -> TimerPCs]
    /\ tcancel \subseteq Timers /\ rpc \in [Runs -> RunPCs]
    /\ parent \in [Runs -> Timers \union {NoTimer}]
    /\ rcancel \subseteq Runs /\ loaded \in [Runs -> Loaded]
    /\ active \subseteq Jobs /\ byHand \subseteq Jobs /\ edited \in BOOLEAN

\* A cancelled timer has not ended.
CancelledAlive == \A t \in tcancel : tpc[t] # "idle"

\* A scheduler that stops has no timer left that will fire.
NoneLeft == phase # "running" => \A t \in Timers : tpc[t] # "idle" => t \in tcancel

\* The timer of a run waits for it.
ParentsGather ==
    \A r \in Runs : parent[r] # NoTimer => Alive(r) /\ tpc[parent[r]] = "gathering"

\* Only a timer makes a run queue.
QueuedHasParent == \A r \in Runs : rpc[r] = "queued" => parent[r] # NoTimer

\* The cancellation of a timer has reached the runs that queue.
CancelReaches ==
    \A r \in Runs : rpc[r] = "queued" /\ parent[r] \in tcancel => r \in rcancel

\* A cancelled run has not ended.
CancelledRunsAlive == \A r \in rcancel : Alive(r)

\* A run that will not go further than the queue.
Doomed(r) == rpc[r] = "queued" /\ r \in rcancel

\* A job that a timer's run is inside is claimed.
InsideIsClaimed ==
    \A r \in Runs : rpc[r] \notin {"idle", "queued"} => r[1] \in active \/ r[1] \in byHand

\* Of two runs of a job that was not started by hand one is doomed.
OneWillRun ==
    \A r, s \in Runs :
        r # s /\ r[1] = s[1] /\ Alive(r) /\ Alive(s)
            => r[1] \in byHand \/ Doomed(r) \/ Doomed(s)

\* The timers.
TimerInv == CancelledAlive /\ NoneLeft /\ OneLiveTimer

\* The runs and the timers they belong to.
ParentInv == ParentsGather /\ QueuedHasParent /\ CancelReaches /\ CancelledRunsAlive

\* The runs and the claims.
ClaimInv == InsideIsClaimed /\ OneWillRun /\ ClaimsAreReleased

\* The inductive invariant.
IInv == TypeOK /\ TimerInv /\ ParentInv /\ ClaimInv

-----------------------------------------------------------------------------
(***************************************************************************)
(* What the helpers do.                                                    *)
(***************************************************************************)

\* A run belongs to a job.
LEMMA RunsHaveJobs == \A r \in Runs : r[1] \in Jobs
  BY CronAssumption

\* Arming cancels the timer in place and its runs, and puts another one there.
LEMMA ArmDoes ==
    ASSUME NEW pcs \in [Timers -> TimerPCs], NEW cs, Arm(pcs, cs),
           \E t \in Timers : pcs[t] = "idle"
    PROVE  /\ current' \in Timers /\ pcs[current'] = "idle"
           /\ tpc' = [pcs EXCEPT ![current'] = "waking"]
           /\ tcancel' = IF pcs[current] # "idle" THEN cs \union {current} ELSE cs
           /\ rcancel' = IF pcs[current] # "idle" THEN rcancel \union Children(current)
                         ELSE rcancel
<1> DEFINE n == CHOOSE t \in Timers : pcs[t] = "idle"
<1>1. n \in Timers /\ pcs[n] = "idle"
  OBVIOUS
<1>2. NewTimer(pcs, tcancel') /\ current' = n
  BY DEF Arm, NewTimer
<1> QED
  BY <1>1, <1>2 DEF Arm, NewTimer

\* Where one timer ends and another comes, or none, the runs of a timer that is being
\* cancelled hear of it, and the other timers stay where they are.
LEMMA EndFiredDoes ==
    ASSUME TypeOK, TimerInv, NEW t \in Timers, tpc[t] # "idle", EndFired(t), phase' = phase
    PROVE  /\ current' \in Timers /\ tpc' \in [Timers -> TimerPCs]
           /\ tcancel' \subseteq Timers /\ rcancel \subseteq rcancel' /\ rcancel' \subseteq Runs
           /\ TimerInv'
           /\ \A u \in Timers \ {t} : tpc[u] = "gathering" => tpc'[u] = "gathering"
           /\ \A r \in Runs : parent[r] \in tcancel' => parent[r] \in tcancel \/ r \in rcancel'
           /\ \A r \in rcancel' : r \in rcancel \/ parent[r] \in Timers
<1> DEFINE pcs == [tpc EXCEPT ![t] = "idle"]
<1> USE DEF TypeOK, TimerInv, CancelledAlive, NoneLeft, OneLiveTimer, TimerPCs
<1>1. pcs \in [Timers -> TimerPCs] /\ pcs[t] = "idle"
  OBVIOUS
<1>2. CASE phase = "running"
  <2>1. Arm(pcs, tcancel \ {t})
    BY <1>2 DEF EndFired
  <2>2. /\ current' \in Timers /\ pcs[current'] = "idle"
        /\ tpc' = [pcs EXCEPT ![current'] = "waking"]
        /\ tcancel' = IF pcs[current] # "idle" THEN (tcancel \ {t}) \union {current}
                      ELSE tcancel \ {t}
        /\ rcancel' = IF pcs[current] # "idle" THEN rcancel \union Children(current)
                      ELSE rcancel
    BY <1>1, <2>1, ArmDoes
  <2>3. \A r \in Runs : parent[r] \in tcancel' => parent[r] \in tcancel \/ r \in rcancel'
    BY <2>2 DEF Children
  <2>4. /\ rcancel \subseteq rcancel' /\ rcancel' \subseteq Runs /\ tcancel' \subseteq Timers
        /\ \A r \in rcancel' : r \in rcancel \/ parent[r] \in Timers
    BY <2>2 DEF Children
  <2>5. /\ tpc' \in [Timers -> TimerPCs]
        /\ \A u \in Timers \ {t} : tpc[u] = "gathering" => tpc'[u] = "gathering"
    BY <1>1, <2>2
  <2>6. CancelledAlive' /\ NoneLeft'
    BY <1>2, <2>2
  <2>7. OneLiveTimer'
    BY <1>2, <2>2
  <2> QED
    BY <2>2, <2>3, <2>4, <2>5, <2>6, <2>7
<1>3. CASE phase # "running"
  BY <1>3 DEF EndFired
<1> QED
  BY <1>2, <1>3

\* What the end of a run leaves: the run is gone, and its claim with it; the job counts as
\* started by hand as long as it has another run.
LEMMA EndDoes ==
    ASSUME TypeOK, NEW r \in Runs, End(r)
    PROVE  /\ rpc' = [rpc EXCEPT ![r] = "idle"] /\ parent' = [parent EXCEPT ![r] = NoTimer]
           /\ rcancel' = rcancel \ {r}
           /\ loaded' \in [Runs -> Loaded]
           /\ active' \subseteq Jobs /\ byHand' \subseteq Jobs
           /\ rpc' \in [Runs -> RunPCs] /\ parent' \in [Runs -> Timers \union {NoTimer}]
           /\ \A j \in Jobs : j \in active' <=> j \in active /\ ~(rpc[r] # "queued" /\ j = r[1])
           /\ \A j \in byHand : j \notin byHand' =>
                j = r[1] /\ \A s \in RunsOf(j) \ {r} : ~Alive(s)
           /\ byHand' \subseteq byHand
  BY DEF End, TypeOK, RunPCs, Loaded, NotLoaded

-----------------------------------------------------------------------------
(***************************************************************************)
(* Every step keeps the invariant.                                         *)
(***************************************************************************)

\* The initial state satisfies the invariant.
LEMMA InitInv == Init => IInv
<1> SUFFICES ASSUME Init PROVE IInv
  OBVIOUS
<1> USE CronAssumption DEF Init
<1>1. TypeOK
  <2>1. RowsOK
    <3>1. NewJob \in Records /\ NewJob.retries = 0
      BY DEF NewJob, Records
    <3> QED
      BY <3>1 DEF RowsOK
  <2>2. TasksOK
    <3>1. NotLoaded \in Loaded
      BY DEF NotLoaded, Loaded
    <3>2. 1 \in Timers
      BY DEF Timers
    <3> QED
      BY <3>1, <3>2 DEF TasksOK, TimerPCs, RunPCs, Phases
  <2> QED
    BY <2>1, <2>2 DEF TypeOK, RowsOK, TasksOK
<1>2. TimerInv
  BY DEF TimerInv, CancelledAlive, NoneLeft, OneLiveTimer, Timers
<1>3. ParentInv
  BY DEF ParentInv, ParentsGather, QueuedHasParent, CancelReaches, CancelledRunsAlive
<1>4. ClaimInv
  BY DEF ClaimInv, InsideIsClaimed, OneWillRun, ClaimsAreReleased, Alive
<1> QED
  BY <1>1, <1>2, <1>3, <1>4 DEF IInv

\* One row is written.
LEMMA WriteRow ==
    ASSUME RowsOK, NEW j \in Jobs, NEW row \in Records, row.retries <= MaxRetries[j],
           db' = [db EXCEPT ![j] = row]
    PROVE  RowsOK'
  BY DEF RowsOK

\* The table of jobs stays well formed.
LEMMA RowsStep ==
    ASSUME TypeOK, [Next]_vars
    PROVE  RowsOK'
<1> USE CronAssumption, RunsHaveJobs DEF vars
<1>0. RowsOK
  BY DEF TypeOK, RowsOK
<1>1. ASSUME NEW t \in Timers, TimerStep(t) PROVE RowsOK'
  <2>1. db' = db
    BY <1>1 DEF TimerStep, Wake, NapOver, SleepOver, Query, Gathered, TimerCancelled
  <2> QED
    BY <1>0, <2>1 DEF RowsOK
<1>2. ASSUME NEW r \in Runs, RunStep(r) \/ Claim(r) PROVE RowsOK'
  <2> DEFINE row == db[r[1]]
  <2>0. /\ r[1] \in Jobs /\ row \in Records /\ row.retries <= MaxRetries[r[1]]
        /\ loaded[r].retries \in Nat /\ loaded[r].enabled \in BOOLEAN
        /\ MaxRetries[r[1]] \in Nat
    BY <1>0 DEF RowsOK, TypeOK, Loaded
  <2>1. CASE UNCHANGED db
    BY <1>0, <2>1 DEF RowsOK
  <2>2. CASE db' = [db EXCEPT ![r[1]].running = TRUE]
    <3>1. [row EXCEPT !.running = TRUE] \in Records
      BY <2>0 DEF Records
    <3> QED
      BY <1>0, <2>0, <2>2, <3>1, WriteRow DEF Records, RowsOK
  <2>3. CASE Succeed(r) \/ Fail(r)
    <3> DEFINE n == WriteRetries(r, 0)
    <3>1. n \in Nat /\ n <= MaxRetries[r[1]]
      BY <2>0 DEF Records, WriteRetries
    <3> HIDE DEF n
    <3>2. RanRow(r) = [row EXCEPT !.running = FALSE, !.retries = n,
                                  !.past = @ /\ ~loaded[r].enabled]
      BY DEF RanRow, n
    <3>3. RanRow(r) \in Records /\ RanRow(r).retries <= MaxRetries[r[1]]
      BY <2>0, <3>1, <3>2 DEF Records
    <3> QED
      BY <1>0, <2>0, <2>3, <3>3, WriteRow DEF Succeed, Fail
  <2>4. CASE FailAndRetry(r)
    <3> DEFINE n == loaded[r].retries + 1
    <3>1. n \in Nat /\ n <= MaxRetries[r[1]]
      BY <2>0, <2>4 DEF FailAndRetry
    <3> HIDE DEF n
    <3>2. RetriedRow(r) = [row EXCEPT !.running = FALSE, !.retries = n, !.past = FALSE]
      BY DEF RetriedRow, n
    <3>3. RetriedRow(r) \in Records /\ RetriedRow(r).retries <= MaxRetries[r[1]]
      BY <2>0, <3>1, <3>2 DEF Records
    <3> QED
      BY <1>0, <2>0, <2>4, <3>3, WriteRow DEF FailAndRetry
  <2>5. CASE TimeOut(r)
    <3>1. TimedOutRow(r) \in Records /\ TimedOutRow(r).retries <= MaxRetries[r[1]]
      BY <2>0 DEF Records, TimedOutRow
    <3> QED
      BY <1>0, <2>0, <2>5, <3>1, WriteRow DEF TimeOut
  <2> QED
    BY <1>2, <2>1, <2>2, <2>3, <2>4, <2>5
    DEF RunStep, Enter, StartManual, ClaimFailed, Load, RunCancelled, CancelSwallowed, Claim
<1>3. ASSUME NEW j \in Jobs, TimePasses(j) PROVE RowsOK'
  <2>1. [db[j] EXCEPT !.past = TRUE] \in Records
    BY <1>0 DEF RowsOK, Records
  <2> QED
    BY <1>0, <1>3, <2>1, WriteRow DEF TimePasses, RowsOK, Records
<1>4. ASSUME NEW j \in Jobs, NEW e \in BOOLEAN, Edit(j, e) PROVE RowsOK'
  <2>1. [db[j] EXCEPT !.enabled = e, !.past = FALSE] \in Records
    BY <1>0 DEF RowsOK, Records
  <2>2. db' = [db EXCEPT ![j] = [db[j] EXCEPT !.enabled = e, !.past = FALSE]]
    BY <1>0, <1>4 DEF Edit, RowsOK
  <2> QED
    BY <1>0, <2>1, <2>2, WriteRow DEF RowsOK, Records
<1>5. CASE Restart
  <2>1. ASSUME NEW j \in Jobs
        PROVE  RecomputedRow(j) \in Records /\ RecomputedRow(j).retries <= MaxRetries[j]
    <3> DEFINE n == IF db[j].running THEN 0 ELSE db[j].retries
    <3>1. /\ db[j] \in Records /\ n \in Nat /\ n <= MaxRetries[j]
      BY <1>0 DEF RowsOK, Records
    <3> HIDE DEF n
    <3>2. RecomputedRow(j) = [db[j] EXCEPT !.past = @ /\ ~db[j].enabled, !.running = FALSE,
                                           !.retries = n]
      BY DEF RecomputedRow, n
    <3> QED
      BY <3>1, <3>2 DEF Records
  <2> QED
    BY <1>5, <2>1 DEF RowsOK, Restart
<1>6. CASE Reschedule \/ Stop \/ StopTimerDone \/ StopForce \/ UNCHANGED vars
  BY <1>0, <1>6 DEF Reschedule, Stop, StopTimerDone, StopForce, RowsOK
<1> QED
  BY <1>1, <1>2, <1>3, <1>4, <1>5, <1>6 DEF Next

\* The other variables keep their types.
LEMMA TasksStep ==
    ASSUME TypeOK, TimerInv, [Next]_vars
    PROVE  TasksOK'
<1> USE CronAssumption, RunsHaveJobs
    DEF timerVars, runVars, claims, TasksOK, TimerPCs, RunPCs, Phases
<1>0. TasksOK
  BY DEF TypeOK
<1>1. ASSUME NEW t \in Timers, Wake(t) PROVE TasksOK'
  BY <1>0, <1>1 DEF Wake
<1>2. ASSUME NEW t \in Timers, NapOver(t) PROVE TasksOK'
  BY <1>0, <1>2, EndFiredDoes DEF NapOver
<1>3. ASSUME NEW t \in Timers, SleepOver(t) PROVE TasksOK'
  BY <1>0, <1>3 DEF SleepOver
<1>4. ASSUME NEW t \in Timers, Query(t) PROVE TasksOK'
  <2>1. CASE ToStart = {}
    BY <1>0, <1>4, <2>1, EndFiredDoes DEF Query
  <2>2. CASE ToStart # {}
    BY <1>0, <1>4, <2>2 DEF Query
  <2> QED
    BY <2>1, <2>2
<1>5. ASSUME NEW t \in Timers, Gathered(t) PROVE TasksOK'
  BY <1>0, <1>5, EndFiredDoes DEF Gathered
<1>6. ASSUME NEW t \in Timers, TimerCancelled(t) PROVE TasksOK'
  BY <1>0, <1>6, EndFiredDoes DEF TimerCancelled
<1>7. ASSUME NEW r \in Runs, Enter(r) PROVE TasksOK'
  BY <1>0, <1>7 DEF Enter
<1>8. ASSUME NEW r \in Runs, StartManual(r) PROVE TasksOK'
  BY <1>0, <1>8 DEF StartManual
<1>9. ASSUME NEW r \in Runs, ClaimFailed(r) PROVE TasksOK'
  BY <1>0, <1>9, EndDoes DEF ClaimFailed
<1>10. ASSUME NEW r \in Runs, Load(r) PROVE TasksOK'
  <2>1. CASE End(r)
    BY <1>0, <1>10, <2>1, EndDoes DEF Load
  <2>2. CASE ~End(r)
    <3>1. [enabled |-> db[r[1]].enabled, retries |-> db[r[1]].retries] \in Loaded
      BY DEF TypeOK, Records, Loaded
    <3> QED
      BY <1>0, <1>10, <2>2, <3>1 DEF Load
  <2> QED
    BY <2>1, <2>2
<1>11. ASSUME NEW r \in Runs, Succeed(r) PROVE TasksOK'
  BY <1>0, <1>11, EndDoes DEF Succeed
<1>12. ASSUME NEW r \in Runs, FailAndRetry(r) PROVE TasksOK'
  BY <1>0, <1>12, EndDoes DEF FailAndRetry
<1>13. ASSUME NEW r \in Runs, Fail(r) PROVE TasksOK'
  BY <1>0, <1>13, EndDoes DEF Fail
<1>14. ASSUME NEW r \in Runs, TimeOut(r) PROVE TasksOK'
  BY <1>0, <1>14, EndDoes DEF TimeOut
<1>15. ASSUME NEW r \in Runs, RunCancelled(r) PROVE TasksOK'
  BY <1>0, <1>15, EndDoes DEF RunCancelled
<1>16. ASSUME NEW r \in Runs, CancelSwallowed(r) PROVE TasksOK'
  BY <1>0, <1>16 DEF CancelSwallowed
<1>17. ASSUME NEW r \in Runs, Claim(r) PROVE TasksOK'
  BY <1>0, <1>17 DEF Claim
<1>18. ASSUME NEW j \in Jobs, TimePasses(j) PROVE TasksOK'
  BY <1>0, <1>18 DEF TimePasses
<1>19. ASSUME NEW j \in Jobs, NEW e \in BOOLEAN, Edit(j, e) PROVE TasksOK'
  BY <1>0, <1>19 DEF Edit
<1>20. CASE Reschedule
  <2>1. CASE phase = "running"
    <3>1. Arm(tpc, tcancel) /\ \E t \in Timers : tpc[t] = "idle"
      BY <1>20, <2>1 DEF Reschedule
    <3>2. /\ current' \in Timers
          /\ tpc' = [tpc EXCEPT ![current'] = "waking"]
          /\ tcancel' \subseteq tcancel \union {current}
          /\ rcancel' \subseteq rcancel \union Children(current)
      BY <1>0, <3>1, ArmDoes
    <3> QED
      BY <1>0, <1>20, <3>2 DEF Reschedule, Children
  <2>2. CASE phase # "running"
    BY <1>0, <1>20, <2>2 DEF Reschedule
  <2> QED
    BY <2>1, <2>2
<1>21. CASE Stop
  BY <1>0, <1>21 DEF Stop, Children
<1>22. CASE StopTimerDone
  BY <1>0, <1>22 DEF StopTimerDone
<1>23. CASE StopForce
  BY <1>0, <1>23 DEF StopForce, Scheduled
<1>24. CASE Restart
  <2>1. NotLoaded \in Loaded /\ 1 \in Timers
    BY DEF NotLoaded, Loaded, Timers
  <2> QED
    BY <1>24, <2>1 DEF Restart
<1>25. CASE UNCHANGED vars
  BY <1>0, <1>25 DEF vars
<1> QED
  BY <1>1, <1>2, <1>3, <1>4, <1>5, <1>6, <1>7, <1>8, <1>9, <1>10, <1>11, <1>12,
     <1>13, <1>14, <1>15, <1>16, <1>17, <1>18, <1>19, <1>20, <1>21, <1>22, <1>23, <1>24,
     <1>25
     DEF Next, TimerStep, RunStep

\* Every variable keeps its type.
LEMMA TypeStep ==
    ASSUME TypeOK, TimerInv, [Next]_vars
    PROVE  TypeOK'
  BY RowsStep, TasksStep DEF TypeOK, RowsOK, TasksOK

\* Exactly one timer will fire: whichever of the timers ends, is cancelled or is replaced.
LEMMA TimersStep ==
    ASSUME TypeOK, TimerInv, [Next]_vars
    PROVE  TimerInv'
<1> USE DEF timerVars, runVars, claims, TypeOK, TimerPCs
<1>1. ASSUME NEW t \in Timers, NapOver(t) \/ Gathered(t) \/ (Query(t) /\ EndFired(t))
      PROVE  TimerInv'
  BY <1>1, EndFiredDoes DEF NapOver, Gathered, Query
<1>2. ASSUME NEW t \in Timers, TimerCancelled(t) PROVE TimerInv'
  <2>1. CASE EndFired(t)
    BY <1>2, <2>1, EndFiredDoes DEF TimerCancelled, TimerInv, CancelledAlive
  <2>2. CASE tpc' = [tpc EXCEPT ![t] = "idle"] /\ tcancel' = tcancel \ {t} /\ current' = current
    BY <1>2, <2>2
    DEF TimerCancelled, TimerInv, CancelledAlive, NoneLeft, OneLiveTimer
  <2> QED
    BY <1>2, <2>1, <2>2 DEF TimerCancelled
<1>3. ASSUME NEW t \in Timers, Wake(t) \/ SleepOver(t) \/ (Query(t) /\ ToStart # {})
      PROVE  TimerInv'
  BY <1>3 DEF Wake, SleepOver, Query, TimerInv, CancelledAlive, NoneLeft, OneLiveTimer
<1>4. ASSUME NEW r \in Runs, RunStep(r) \/ Claim(r) PROVE TimerInv'
  <2>1. UNCHANGED <<phase, current, tpc, tcancel>>
    BY <1>4 DEF RunStep, Enter, StartManual, ClaimFailed, Load, Succeed, FailAndRetry, Fail,
                TimeOut, RunCancelled, CancelSwallowed, Claim
  <2> QED
    BY <2>1 DEF TimerInv, CancelledAlive, NoneLeft, OneLiveTimer
<1>5. ASSUME NEW j \in Jobs, TimePasses(j) \/ \E e \in BOOLEAN : Edit(j, e) PROVE TimerInv'
  BY <1>5 DEF TimePasses, Edit, TimerInv, CancelledAlive, NoneLeft, OneLiveTimer
<1>6. CASE Reschedule
  <2>1. CASE phase = "running"
    <3>1. Arm(tpc, tcancel) /\ \E t \in Timers : tpc[t] = "idle"
      BY <1>6, <2>1 DEF Reschedule
    <3>2. tpc[current] # "idle" /\ current \notin tcancel
      BY <2>1 DEF TimerInv, OneLiveTimer
    <3>3. /\ current' \in Timers /\ tpc[current'] = "idle"
          /\ tpc' = [tpc EXCEPT ![current'] = "waking"]
          /\ tcancel' = tcancel \union {current}
      BY <3>1, <3>2, ArmDoes
    <3> QED
      BY <1>6, <2>1, <3>2, <3>3
      DEF Reschedule, TimerInv, CancelledAlive, NoneLeft, OneLiveTimer
  <2>2. CASE phase # "running"
    BY <1>6, <2>2 DEF Reschedule, TimerInv, CancelledAlive, NoneLeft, OneLiveTimer
  <2> QED
    BY <2>1, <2>2
<1>7. CASE Stop \/ StopTimerDone \/ StopForce \/ UNCHANGED vars
  BY <1>7
  DEF Stop, StopTimerDone, StopForce, vars, TimerInv, CancelledAlive, NoneLeft, OneLiveTimer
<1>8. CASE Restart
  <2>1. 1 \in Timers
    BY CronAssumption DEF Timers
  <2> QED
    BY <1>8, <2>1 DEF Restart, TimerInv, CancelledAlive, NoneLeft, OneLiveTimer
<1>9. ASSUME NEW t \in Timers, Query(t) PROVE TimerInv'
  BY <1>1, <1>3, <1>9 DEF Query
<1> QED
  BY <1>1, <1>2, <1>3, <1>4, <1>5, <1>6, <1>7, <1>8, <1>9 DEF Next, TimerStep

\* The runs that a timer starts: free ones, of jobs that nobody has claimed, one of each.
LEMMA StartsFree ==
    ASSUME NEW j \in ToStart, HasFreeRun(j)
    PROVE  FreeRun(j) \in Runs /\ FreeRun(j)[1] = j /\ rpc[FreeRun(j)] = "idle" /\ j \notin active
  BY DEF FreeRun, HasFreeRun, RunsOf, Alive, ToStart

\* What a timer that finds jobs due does.
LEMMA QueryDoes ==
    ASSUME TypeOK, NEW t \in Timers, Query(t), ToStart # {}, NEW r \in Runs
    PROVE  \/ rpc'[r] = rpc[r] /\ parent'[r] = parent[r]
           \/ /\ rpc[r] = "idle" /\ rpc'[r] = "queued" /\ parent'[r] = t
              /\ r[1] \notin active /\ r = FreeRun(r[1])
<1> DEFINE new == {FreeRun(j) : j \in ToStart}
<1>1. /\ rpc' = [s \in Runs |-> IF s \in new THEN "queued" ELSE rpc[s]]
      /\ parent' = [s \in Runs |-> IF s \in new THEN t ELSE parent[s]]
      /\ \A j \in ToStart : HasFreeRun(j)
  BY DEF Query
<1>2. CASE r \in new
  <2>1. PICK j \in ToStart : r = FreeRun(j)
    BY <1>2
  <2> QED
    BY <1>1, <2>1, StartsFree
<1>3. CASE r \notin new
  BY <1>1, <1>3
<1> QED
  BY <1>2, <1>3

\* The timers of the runs wait for them, and the cancellation of a timer reaches the runs
\* that queue.
LEMMA ParentsStep ==
    ASSUME TypeOK, TimerInv, ParentInv, [Next]_vars
    PROVE  ParentInv'
<1> USE CronAssumption
    DEF timerVars, runVars, claims, TypeOK, Alive, Children, ParentInv, ParentsGather,
        QueuedHasParent, CancelReaches, CancelledRunsAlive
<1>1. ASSUME NEW t \in Timers, tpc[t] \notin {"idle", "gathering"} \/ Children(t) = {},
             tpc[t] # "idle", EndFired(t), UNCHANGED <<phase, rpc, parent>>
      PROVE  ParentInv'
  <2>1. /\ \A u \in Timers \ {t} : tpc[u] = "gathering" => tpc'[u] = "gathering"
        /\ \A r \in Runs : parent[r] \in tcancel' => parent[r] \in tcancel \/ r \in rcancel'
        /\ rcancel \subseteq rcancel' /\ rcancel' \subseteq Runs
        /\ \A r \in rcancel' : r \in rcancel \/ parent[r] \in Timers
    BY <1>1, EndFiredDoes
  <2>2. \A r \in Runs : parent[r] # t
    BY <1>1
  <2>3. ParentsGather' /\ QueuedHasParent'
    BY <1>1, <2>1, <2>2
  <2>4. CancelReaches'
    BY <1>1, <2>1
  <2>5. CancelledRunsAlive'
    BY <1>1, <2>1
  <2> QED
    BY <2>3, <2>4, <2>5
<1>2. ASSUME NEW t \in Timers, NapOver(t) \/ Gathered(t) \/ (Query(t) /\ ToStart = {})
      PROVE  ParentInv'
  BY <1>1, <1>2 DEF NapOver, Gathered, Query
<1>3. ASSUME NEW t \in Timers, TimerCancelled(t) PROVE ParentInv'
  <2>1. CASE tpc[t] = "querying"
    BY <1>1, <1>3, <2>1 DEF TimerCancelled
  <2>2. CASE tpc[t] # "querying"
    BY <1>3, <2>2 DEF TimerCancelled
  <2> QED
    BY <2>1, <2>2
<1>4. ASSUME NEW t \in Timers, Wake(t) \/ SleepOver(t) PROVE ParentInv'
  BY <1>4 DEF Wake, SleepOver
<1>5. ASSUME NEW t \in Timers, Query(t), ToStart # {} PROVE ParentInv'
  <2>1. /\ tpc[t] = "querying" /\ t \notin tcancel
        /\ tpc' = [tpc EXCEPT ![t] = "gathering"] /\ UNCHANGED <<tcancel, rcancel>>
    BY <1>5 DEF Query
  <2>2. ASSUME NEW r \in Runs
        PROVE  \/ rpc'[r] = rpc[r] /\ parent'[r] = parent[r]
               \/ rpc'[r] = "queued" /\ parent'[r] = t
    BY <1>5, QueryDoes
  <2> QED
    BY <2>1, <2>2
<1>6. ASSUME NEW r \in Runs, End(r), UNCHANGED timerVars PROVE ParentInv'
  <2>1. /\ rpc' = [rpc EXCEPT ![r] = "idle"] /\ parent' = [parent EXCEPT ![r] = NoTimer]
        /\ rcancel' = rcancel \ {r}
    BY <1>6 DEF End
  <2> QED
    BY <1>6, <2>1
<1>7. ASSUME NEW r \in Runs, RunStep(r) \/ Claim(r), ~End(r) PROVE ParentInv'
  BY <1>7 DEF RunStep, Enter, StartManual, ClaimFailed, Load, Succeed, FailAndRetry, Fail,
              TimeOut, RunCancelled, CancelSwallowed, Claim
<1>8. ASSUME NEW r \in Runs, RunStep(r) \/ Claim(r) PROVE ParentInv'
  <2>1. UNCHANGED timerVars
    BY <1>8 DEF RunStep, Enter, StartManual, ClaimFailed, Load, Succeed, FailAndRetry, Fail,
                TimeOut, RunCancelled, CancelSwallowed, Claim
  <2> QED
    BY <1>6, <1>7, <1>8, <2>1
<1>9. ASSUME NEW j \in Jobs, TimePasses(j) \/ \E e \in BOOLEAN : Edit(j, e) PROVE ParentInv'
  BY <1>9 DEF TimePasses, Edit
<1>10. CASE Reschedule
  <2>1. CASE phase = "running"
    <3>1. Arm(tpc, tcancel) /\ \E t \in Timers : tpc[t] = "idle"
      BY <1>10, <2>1 DEF Reschedule
    <3>2. tpc[current] # "idle"
      BY <2>1 DEF TimerInv, OneLiveTimer
    <3>3. /\ current' \in Timers /\ tpc[current'] = "idle"
          /\ tpc' = [tpc EXCEPT ![current'] = "waking"]
          /\ tcancel' = tcancel \union {current} /\ rcancel' = rcancel \union Children(current)
      BY <3>1, <3>2, ArmDoes
    <3> QED
      BY <1>10, <3>3 DEF Reschedule
  <2>2. CASE phase # "running"
    BY <1>10, <2>2 DEF Reschedule
  <2> QED
    BY <2>1, <2>2
<1>11. CASE Stop \/ StopTimerDone \/ StopForce \/ UNCHANGED vars
  BY <1>11 DEF Stop, StopTimerDone, StopForce, Scheduled, vars
<1>12. CASE Restart
  BY <1>12 DEF Restart
<1>13. ASSUME NEW t \in Timers, TimerStep(t) PROVE ParentInv'
  BY <1>2, <1>3, <1>4, <1>5, <1>13 DEF TimerStep
<1> QED
  BY <1>8, <1>9, <1>10, <1>11, <1>12, <1>13 DEF Next

\* A run that is left in the queue by the timer in charge: there is none when a timer looks
\* for due jobs, since it is the one in charge itself.
LEMMA QueuedAreDoomed ==
    ASSUME TypeOK, TimerInv, ParentInv, NEW t \in Timers, tpc[t] = "querying", t \notin tcancel,
           NEW r \in Runs, rpc[r] = "queued"
    PROVE  Doomed(r)
<1> USE DEF TypeOK
<1>1. parent[r] \in Timers /\ tpc[parent[r]] = "gathering"
  BY DEF ParentInv, QueuedHasParent, ParentsGather
<1>2. parent[r] # t
  BY <1>1
<1>3. parent[r] \in tcancel
  BY <1>1, <1>2 DEF TimerInv, OneLiveTimer, NoneLeft
<1> QED
  BY <1>3 DEF ParentInv, CancelReaches, Doomed

\* The end of a run takes the claim of its job away, and leaves at most doomed runs of it,
\* unless one of them was started by hand.
LEMMA EndKeepsClaims ==
    ASSUME TypeOK, ClaimInv, NEW r \in Runs, Alive(r), End(r)
    PROVE  ClaimInv'
<1> USE RunsHaveJobs DEF TypeOK, RunsOf, Alive
<1>1. /\ rpc' = [rpc EXCEPT ![r] = "idle"]
      /\ rcancel' = rcancel \ {r}
      /\ active' \subseteq Jobs
      /\ \A j \in Jobs : j \in active' <=> j \in active /\ ~(rpc[r] # "queued" /\ j = r[1])
      /\ \A j \in byHand : j \notin byHand' =>
           j = r[1] /\ \A s \in RunsOf(j) \ {r} : ~Alive(s)
      /\ byHand' \subseteq byHand
  BY EndDoes
<1>2. InsideIsClaimed'
  <2> SUFFICES ASSUME NEW s \in Runs, rpc'[s] \notin {"idle", "queued"}
               PROVE  s[1] \in active' \/ s[1] \in byHand'
    BY DEF InsideIsClaimed
  <2>1. s # r /\ rpc'[s] = rpc[s]
    BY <1>1
  <2>2. CASE s[1] \in byHand
    BY <1>1, <2>1, <2>2
  <2>3. CASE s[1] \notin byHand
    <3>1. s[1] \in active
      BY <2>1, <2>3 DEF ClaimInv, InsideIsClaimed
    <3>2. r[1] = s[1] => rpc[r] \in {"idle", "queued"}
      BY <2>1, <2>3 DEF ClaimInv, OneWillRun, Doomed
    <3> QED
      BY <1>1, <3>1, <3>2
  <2> QED
    BY <2>2, <2>3
<1>3. OneWillRun'
  <2> SUFFICES ASSUME NEW s \in Runs, NEW u \in Runs,
                      s # u, s[1] = u[1], rpc'[s] # "idle", rpc'[u] # "idle"
               PROVE  s[1] \in byHand' \/ Doomed(s)' \/ Doomed(u)'
    BY DEF OneWillRun
  <2>1. s # r /\ u # r /\ rpc'[s] = rpc[s] /\ rpc'[u] = rpc[u]
    BY <1>1
  <2>2. s[1] \in byHand \/ Doomed(s) \/ Doomed(u)
    BY <2>1 DEF ClaimInv, OneWillRun
  <2> QED
    BY <1>1, <2>1, <2>2 DEF Doomed
<1>4. ClaimsAreReleased'
  <2> SUFFICES ASSUME NEW j \in active'
               PROVE  \E s \in RunsOf(j) : rpc'[s] \notin {"idle", "queued"}
    BY DEF ClaimsAreReleased
  <2>1. j \in active /\ ~(rpc[r] # "queued" /\ j = r[1])
    BY <1>1
  <2>2. PICK s \in RunsOf(j) : rpc[s] \notin {"idle", "queued"}
    BY <2>1 DEF ClaimInv, ClaimsAreReleased
  <2>3. s # r
    BY <2>1, <2>2
  <2> QED
    BY <1>1, <2>2, <2>3
<1> QED
  BY <1>2, <1>3, <1>4 DEF ClaimInv

\* Of two runs of a job that nobody started by hand at most one will go on; every run inside
\* has its claim, and every claim its run.
LEMMA ClaimsStep ==
    ASSUME TypeOK, TimerInv, ParentInv, ClaimInv, [Next]_vars
    PROVE  ClaimInv'
<1> USE RunsHaveJobs
    DEF timerVars, runVars, claims, TypeOK, RunsOf, Alive, Doomed, ClaimInv, InsideIsClaimed,
        OneWillRun, ClaimsAreReleased
<1>1. ASSUME UNCHANGED <<rpc, active, byHand>>, \A r \in Runs : Doomed(r) => r \in rcancel'
      PROVE  ClaimInv'
  BY <1>1
<1>2. ASSUME NEW t \in Timers, Query(t), ToStart # {} PROVE ClaimInv'
  <2>1. /\ tpc[t] = "querying" /\ t \notin tcancel
        /\ UNCHANGED <<active, byHand, rcancel>>
    BY <1>2 DEF Query
  <2>2. \A r \in Runs : rpc[r] = "queued" => Doomed(r)
    BY <2>1, QueuedAreDoomed
  <2>3. \A r \in Runs : \/ rpc'[r] = rpc[r]
                        \/ /\ rpc[r] = "idle" /\ rpc'[r] = "queued"
                           /\ r[1] \notin active /\ r = FreeRun(r[1])
    BY <1>2, QueryDoes
  <2>4. InsideIsClaimed' /\ ClaimsAreReleased'
    BY <2>1, <2>3
  <2>5. OneWillRun'
    <3> SUFFICES ASSUME NEW r \in Runs, NEW s \in Runs, r # s, r[1] = s[1],
                        rpc'[r] # "idle", rpc'[s] # "idle", r[1] \notin byHand,
                        rpc'[r] = rpc[r] \/ rpc'[s] = rpc[s]
                 PROVE  Doomed(r)' \/ Doomed(s)'
      BY <2>1, <2>3
    <3>1. CASE rpc'[r] = rpc[r] /\ rpc'[s] = rpc[s]
      BY <2>1, <3>1
    <3>2. CASE rpc'[r] = rpc[r] /\ rpc'[s] # rpc[s]
      <4>1. s[1] \notin active
        BY <2>3, <3>2
      <4>2. rpc[r] = "queued"
        BY <3>2, <4>1
      <4> QED
        BY <2>1, <2>2, <3>2, <4>2
    <3>3. CASE rpc'[r] # rpc[r] /\ rpc'[s] = rpc[s]
      <4>1. r[1] \notin active
        BY <2>3, <3>3
      <4>2. rpc[s] = "queued"
        BY <3>3, <4>1
      <4> QED
        BY <2>1, <2>2, <3>3, <4>2
    <3> QED
      BY <3>1, <3>2, <3>3
  <2> QED
    BY <2>4, <2>5
<1>3. ASSUME NEW t \in Timers, EndFired(t), tpc[t] # "idle",
             UNCHANGED <<phase, rpc, active, byHand>>
      PROVE  ClaimInv'
  BY <1>1, <1>3, EndFiredDoes
<1>4. ASSUME NEW t \in Timers, TimerStep(t) PROVE ClaimInv'
  BY <1>1, <1>2, <1>3, <1>4
  DEF TimerStep, Wake, NapOver, SleepOver, Query, Gathered, TimerCancelled
<1>5. ASSUME NEW r \in Runs, Enter(r) PROVE ClaimInv'
  <2>1. /\ rpc[r] = "queued" /\ ~Doomed(r) /\ rpc' = [rpc EXCEPT ![r] = "loading"]
        /\ active' = active \union {r[1]} /\ UNCHANGED <<byHand, rcancel>>
    BY <1>5 DEF Enter
  <2>2. InsideIsClaimed' /\ ClaimsAreReleased'
    BY <2>1
  <2>3. OneWillRun'
    BY <2>1
  <2> QED
    BY <2>2, <2>3
<1>6. ASSUME NEW r \in Runs, Claim(r) PROVE ClaimInv'
  <2>1. /\ rpc[r] = "idle" /\ rpc' = [rpc EXCEPT ![r] = "claimed"]
        /\ active' = active \union {r[1]} /\ byHand' = byHand \union {r[1]}
        /\ UNCHANGED rcancel
    BY <1>6 DEF Claim
  <2>2. InsideIsClaimed' /\ ClaimsAreReleased'
    BY <2>1
  <2>3. OneWillRun'
    BY <2>1
  <2> QED
    BY <2>2, <2>3
<1>7. ASSUME NEW r \in Runs, rpc[r] \notin {"idle", "queued"}, NEW p \in {"loading", "executing"},
             rpc' = [rpc EXCEPT ![r] = p], UNCHANGED <<active, byHand, rcancel>>
      PROVE  ClaimInv'
  <2>1. InsideIsClaimed' /\ ClaimsAreReleased'
    BY <1>7
  <2>2. OneWillRun'
    BY <1>7
  <2> QED
    BY <2>1, <2>2
<1>8. ASSUME NEW r \in Runs, RunStep(r) PROVE ClaimInv'
  <2>1. CASE End(r)
    <3>1. Alive(r)
      BY <1>8 DEF RunStep, Enter, StartManual, ClaimFailed, Load, Succeed, FailAndRetry, Fail,
                  TimeOut, RunCancelled, CancelSwallowed, ParentInv, CancelledRunsAlive
    <3> QED
      BY <2>1, <3>1, EndKeepsClaims
  <2>2. CASE Enter(r)
    BY <1>5, <2>2
  <2>3. CASE StartManual(r) \/ (Load(r) /\ ~End(r))
    BY <1>7, <2>3 DEF StartManual, Load
  <2>4. CASE CancelSwallowed(r)
    BY <1>1, <2>4 DEF CancelSwallowed
  <2> QED
    BY <1>8, <2>1, <2>2, <2>3, <2>4
    DEF RunStep, ClaimFailed, Load, Succeed, FailAndRetry, Fail, TimeOut, RunCancelled
<1>9. ASSUME NEW j \in Jobs, TimePasses(j) \/ \E e \in BOOLEAN : Edit(j, e) PROVE ClaimInv'
  BY <1>1, <1>9 DEF TimePasses, Edit
<1>10. CASE Reschedule
  <2>1. UNCHANGED <<rpc, active, byHand>> /\ rcancel \subseteq rcancel'
    BY <1>10 DEF Reschedule, Arm, NewTimer
  <2> QED
    BY <1>1, <2>1
<1>11. CASE Stop \/ StopTimerDone \/ StopForce \/ UNCHANGED vars
  BY <1>1, <1>11 DEF Stop, StopTimerDone, StopForce, vars
<1>12. CASE Restart
  BY <1>12 DEF Restart
<1> QED
  BY <1>4, <1>6, <1>8, <1>9, <1>10, <1>11, <1>12 DEF Next

\* A step keeps the invariant.
LEMMA InvStep ==
    ASSUME IInv, [Next]_vars
    PROVE  IInv'
  BY TypeStep, TimersStep, ParentsStep, ClaimsStep DEF IInv

-----------------------------------------------------------------------------
(***************************************************************************)
(* Theorems.                                                               *)
(***************************************************************************)

\* The inductive invariant holds in every run.
THEOREM CronInvariant == Spec => []IInv
  BY InitInv, InvStep, PTL DEF Spec

\* Every variable keeps its type.
THEOREM CronTypeCorrect == Spec => []TypeOK
<1>1. IInv => TypeOK
  BY DEF IInv
<1> QED
  BY <1>1, CronInvariant, PTL

\* While the scheduler runs there is one timer that will fire: _arm_timer, the finally clause
\* of _on_timer and trigger_reschedule leave neither none nor two.
THEOREM CronOneLiveTimer == Spec => []OneLiveTimer
<1>1. IInv => OneLiveTimer
  BY DEF IInv, TimerInv
<1> QED
  BY <1>1, CronInvariant, PTL

\* The timers alone never run a job twice at once: _on_timer's filter and the cancellation of
\* the replaced timer's runs suffice.
THEOREM CronOverlapsNeedAManualRun == Spec => []OverlapsNeedAManualRun
<1>1. IInv => OverlapsNeedAManualRun
  <2> SUFFICES ASSUME IInv, NEW r \in Runs, NEW s \in Runs,
                      r # s, r[1] = s[1], Inside(r), Inside(s)
               PROVE  r[1] \in byHand
    BY DEF OverlapsNeedAManualRun
  <2> QED
    BY DEF IInv, ClaimInv, OneWillRun, Doomed, Inside, Alive
<1> QED
  BY <1>1, CronInvariant, PTL

\* Whoever claimed a job, a run will give it back (the finally clauses of _execute_job_safe and
\* run_job_manually).
THEOREM CronClaimsAreReleased == Spec => []ClaimsAreReleased
<1>1. IInv => ClaimsAreReleased
  BY DEF IInv, ClaimInv
<1> QED
  BY <1>1, CronInvariant, PTL
=============================================================================
