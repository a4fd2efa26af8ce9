-------------------------- MODULE SessionTurnGate --------------------------
(***************************************************************************)
(* backend/modules/agent/session_gate.py: at most one turn of the agent at *)
(* a time in a session.  Every entry point (channel messages, WebSocket,   *)
(* SSE, team commands, direct coding, cron) calls acquire before it        *)
(* processes a message and release in a finally clause.                    *)
(*                                                                         *)
(* The event loop interleaves the tasks between their awaits only, so each *)
(* action below is one stretch of code between two suspension points.      *)
(*                                                                         *)
(* Here and in the other modules a "faulty variant" is a plausible bug in  *)
(* a definition that follows it; nothing uses it, and putting it in that   *)
(* definition's place breaks a property.                                   *)
(***************************************************************************)
EXTENDS AsyncioLock

CONSTANTS Sessions,    \* session ids
          NoLock,      \* no entry in _locks
          NoSession,   \* a task that is in no session
          NoTask,      \* a session that no task holds
          MaxWaiters   \* bound on _waiters[s] (checking only)

ASSUME GateAssumption ==
    /\ IsFiniteSet(Tasks)
    /\ NoLock \notin Locks
    /\ NoSession \notin Sessions
    /\ NoTask \notin Tasks
    /\ MaxWaiters \in Nat

VARIABLES locks,     \* _locks: session -> its lock object
          waiters,   \* _waiters: session -> tasks waiting or holding (0: no entry)
          started,   \* the keys of _started_at
          pc,        \* task -> where it is
          sess,      \* task -> the session it asked for
          lk         \* task -> the lock object acquire() picked for it

gateVars == <<locks, waiters, started, pc, sess, lk>>
vars == <<locked, waitq, fut, locks, waiters, started, pc, sess, lk>>

\* "queued": suspended in the guarded `await lock.acquire()` (the lock was set);
\* "queuedFree": suspended in the unguarded one (the lock was free, but promised
\* to an earlier waiter).
PCs == {"idle", "queued", "queuedFree", "turn"}

Waiting(t) == pc[t] \in {"queued", "queuedFree"}
Engaged(s) == {t \in Tasks : pc[t] # "idle" /\ sess[t] = s}
InTurn(s) == {t \in Tasks : pc[t] = "turn" /\ sess[t] = s}

\* is_busy()
Busy(s) == locks[s] \in locked

TypeOK ==
    /\ LockTypeOK
    /\ locks \in [Sessions -> Locks \union {NoLock}]
    /\ waiters \in [Sessions -> Nat]
    /\ started \subseteq Sessions
    /\ pc \in [Tasks -> PCs]
    /\ sess \in [Tasks -> Sessions \union {NoSession}]
    /\ lk \in [Tasks -> Locks \union {NoLock}]

Init ==
    /\ LockInit
    /\ locks = [s \in Sessions |-> NoLock]
    /\ waiters = [s \in Sessions |-> 0]
    /\ started = {}
    /\ pc = [t \in Tasks |-> "idle"]
    /\ sess = [t \in Tasks |-> NoSession]
    /\ lk = [t \in Tasks |-> NoLock]

\* asyncio.Lock(): an object that nothing refers to, in its initial state.
NewLocks ==
    {l \in Locks : /\ l \notin locked
                   /\ waitq[l] = <<>>
                   /\ \A s \in Sessions : locks[s] # l
                   /\ \A t \in Tasks : lk[t] # l}

\* The lock acquire() uses in s: the one in _locks, else a new one.
LockFor(s) == IF locks[s] = NoLock THEN NewLocks ELSE {locks[s]}

\* The head of acquire(): find or create the lock, count the waiter.
EnterAcquire(t, s, l) ==
    /\ pc[t] = "idle"
    /\ waiters[s] < MaxWaiters
    /\ l \in LockFor(s)
    /\ locks' = [locks EXCEPT ![s] = l]
    /\ waiters' = [waiters EXCEPT ![s] = @ + 1]
    /\ sess' = [sess EXCEPT ![t] = s]
    /\ lk' = [lk EXCEPT ![t] = l]

\* Faulty variant: a free lock is taken whether or not it is promised.
AcquireFreeBarging(t, s, l) ==
    /\ EnterAcquire(t, s, l)
    /\ l \notin locked
    /\ TakeNow(l)
    /\ started' = started \union {s}
    /\ pc' = [pc EXCEPT ![t] = "turn"]

AcquireFree(t, s, l) ==
    /\ EnterAcquire(t, s, l)
    /\ CanTakeNow(l)
    /\ TakeNow(l)
    /\ started' = started \union {s}
    /\ pc' = [pc EXCEPT ![t] = "turn"]

\* The lock is free but promised: `if not lock.locked(): await lock.acquire()`
\* suspends, outside the try that undoes the count.
AcquirePromised(t, s, l) ==
    /\ EnterAcquire(t, s, l)
    /\ l \notin locked /\ ~CanTakeNow(l)
    /\ Suspend(t, l)
    /\ pc' = [pc EXCEPT ![t] = "queuedFree"]
    /\ UNCHANGED started

AcquireBusy(t, s, l) ==
    /\ EnterAcquire(t, s, l)
    /\ l \in locked
    /\ Suspend(t, l)
    /\ pc' = [pc EXCEPT ![t] = "queued"]
    /\ UNCHANGED started

\* acquire() returns to a task that was suspended in it.
GetTurn(t) ==
    /\ Waiting(t)
    /\ ResumeWithLock(t, lk[t])
    /\ started' = started \union {sess[t]}
    /\ pc' = [pc EXCEPT ![t] = "turn"]
    /\ UNCHANGED <<locks, waiters, sess, lk>>

\* Faulty variant: the count of one task is undone twice.
OneLessTwice(s) == IF waiters[s] = 0 THEN 0 ELSE waiters[s] - 2

\* max(0, _waiters[s] - 1)
OneLess(s) == IF waiters[s] = 0 THEN 0 ELSE waiters[s] - 1

\* Faulty variant: the entries go as soon as the lock is not set.
CountAndCleanupUnlocked(s, n, ks) ==
    LET idle == locks[s] \notin locked'
    IN  /\ waiters' = [waiters EXCEPT ![s] = IF idle THEN 0 ELSE n]
        /\ locks' = IF idle THEN [locks EXCEPT ![s] = NoLock] ELSE locks
        /\ started' = IF idle THEN ks \ {s} ELSE ks

\* _waiters[s] becomes n and _started_at has the keys ks; _cleanup_if_idle(s)
\* then drops the session's entries if nobody waits and the lock is not set.
CountAndCleanup(s, n, ks) ==
    LET idle == n = 0 /\ locks[s] \notin locked'
    IN  /\ waiters' = [waiters EXCEPT ![s] = n]
        /\ locks' = IF idle THEN [locks EXCEPT ![s] = NoLock] ELSE locks
        /\ started' = IF idle THEN ks \ {s} ELSE ks

LeaveGate(t) ==
    /\ pc' = [pc EXCEPT ![t] = "idle"]
    /\ sess' = [sess EXCEPT ![t] = NoSession]
    /\ lk' = [lk EXCEPT ![t] = NoLock]

\* The caller of acquire() is cancelled: a client that disconnects, a cron
\* timeout, a cancelled owner task.
Cancel(t) ==
    /\ Waiting(t)
    /\ CancelWait(t)
    /\ UNCHANGED gateVars

\* CancelledError in the guarded wait: the except clause undoes the count.
CancelledQueued(t) ==
    /\ pc[t] = "queued"
    /\ ResumeWithCancel(t, lk[t])
    /\ CountAndCleanup(sess[t], OneLess(sess[t]), started)
    /\ LeaveGate(t)

\* CancelledError in the unguarded wait: nothing undoes the count.
CancelledQueuedFree(t) ==
    /\ pc[t] = "queuedFree"
    /\ ResumeWithCancel(t, lk[t])
    /\ LeaveGate(t)
    /\ UNCHANGED <<locks, waiters, started>>

\* Faulty variant: the start time of the turn stays behind.
ReleaseKeepingStart(t) ==
    /\ pc[t] = "turn"
    /\ LET s == sess[t]
       IN  IF Busy(s)
           THEN /\ ReleaseLock(locks[s])
                /\ CountAndCleanup(s, OneLess(s), started)
           ELSE UNCHANGED <<locked, waitq, fut, locks, waiters, started>>
    /\ LeaveGate(t)

\* release(), in the finally clause of the caller.
Release(t) ==
    /\ pc[t] = "turn"
    /\ LET s == sess[t]
       IN  IF Busy(s)
           THEN /\ ReleaseLock(locks[s])
                /\ CountAndCleanup(s, OneLess(s), started \ {s})
           ELSE UNCHANGED <<locked, waitq, fut, locks, waiters, started>>
    /\ LeaveGate(t)

Acquire(t) ==
    \E s \in Sessions, l \in Locks :
        AcquireFree(t, s, l) \/ AcquirePromised(t, s, l) \/ AcquireBusy(t, s, l)

\* What the event loop runs once it is ready.
Progress(t) ==
    \/ GetTurn(t)
    \/ CancelledQueued(t)
    \/ CancelledQueuedFree(t)
    \/ Release(t)

Next == \E t \in Tasks : Acquire(t) \/ Cancel(t) \/ Progress(t)

Spec == Init /\ [][Next]_vars

\* The event loop runs every ready task, and a turn ends.
FairSpec == Spec /\ \A t \in Tasks : WF_vars(Progress(t))

-----------------------------------------------------------------------------
(* Properties *)

\* Two turns never run at once in a session, whatever entry points they came
\* through (session_gate.py:1, "one turn at a time").
OneTurnPerSession ==
    \A t1, t2 \in Tasks :
        pc[t1] = "turn" /\ pc[t2] = "turn" /\ sess[t1] = sess[t2] => t1 = t2

\* Everybody who waits or runs in a session uses the lock object in _locks:
\* reclaiming idle locks never leaves a task behind on an old object, on which
\* it would exclude nobody.
NobodyOnAnOldLock ==
    \A t \in Tasks : pc[t] # "idle" => locks[sess[t]] = lk[t]

\* Where tasks wait, a turn is running or one of the tasks is about to resume
\* (with the lock, or to step aside): releases and cancellations that cross never
\* leave a session with waiters that nobody will wake.
NoSessionIsStuck ==
    \A s \in Sessions :
        (\E t \in Engaged(s) : Waiting(t)) =>
            \/ InTurn(s) # {}
            \/ \E t \in Engaged(s) : fut[t] \in {"done", "cancelled", "doneCancel"}

\* The running time a session reports (running_seconds) belongs to a turn that
\* is running: it is there exactly while the session is busy.
RunningTimeIffBusy == \A s \in Sessions : s \in started <=> Busy(s)

\* Whoever asks for a turn gets it or is cancelled.
EveryRequestIsServed ==
    \A t \in Tasks : Waiting(t) ~> (pc[t] \in {"turn", "idle"})

\* The gate implements FifoTurns: the line of a session is its lock's FIFO
\* without the tasks that were cancelled.
HolderOf(s) ==
    IF InTurn(s) = {} THEN NoTask ELSE CHOOSE t \in InTurn(s) : TRUE
InLine == {t \in Tasks : fut[t] \in {"pending", "done"}}
LineOf(s) == IF locks[s] = NoLock THEN <<>> ELSE Among(waitq[locks[s]], InLine)

Fifo == INSTANCE FifoTurns WITH
            line <- [s \in Sessions |-> LineOf(s)],
            holder <- [s \in Sessions |-> HolderOf(s)]

\* Turns are granted in the order they were requested (session_gate.py:34-38),
\* one at a time, and every one is granted or withdrawn.
GrantsAreFifo == Fifo!FairSpec
=============================================================================
