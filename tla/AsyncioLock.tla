---------------------------- MODULE AsyncioLock ----------------------------
(***************************************************************************)
(* asyncio.Lock of CPython, as src/backend uses it (session_gate.py,       *)
(* path_lock.py): an external component.  A lock has a flag and a FIFO of  *)
(* futures, one per suspended task.  release() only clears the flag and    *)
(* completes the first future; the woken task sets the flag again when the *)
(* event loop resumes it, so there is a window in which the lock is free   *)
(* and already promised.  Task.cancel() on a suspended task cancels its    *)
(* future at once, but the future stays in the FIFO until the task is      *)
(* resumed with CancelledError.                                            *)
(*                                                                         *)
(* Each operator below is the part of a step of the event loop that        *)
(* concerns one lock; the modules that extend this one conjoin it with     *)
(* what the calling code does in the same step.                            *)
(***************************************************************************)
EXTENDS Naturals, FiniteSets, Queues

CONSTANTS Tasks,    \* asyncio tasks that use the locks
          Locks     \* lock objects

VARIABLES locked,   \* the locks whose flag is set
          waitq,    \* lock -> FIFO of the tasks suspended in acquire()
          fut       \* task -> state of the future it is suspended on

lockVars == <<locked, waitq, fut>>

\* "doneCancel": the future was completed, then the task was cancelled before
\* it resumed; it will resume with CancelledError all the same.
FutureStates == {"none", "pending", "done", "cancelled", "doneCancel"}

LockTypeOK ==
    /\ locked \subseteq Locks
    /\ waitq \in [Locks -> Seq(Tasks)]
    /\ fut \in [Tasks -> FutureStates]

LockInit ==
    /\ locked = {}
    /\ waitq = [l \in Locks |-> <<>>]
    /\ fut = [t \in Tasks |-> "none"]

\* acquire() returns without suspending.
CanTakeNow(l) ==
    /\ l \notin locked
    /\ \A i \in DOMAIN waitq[l] : fut[waitq[l][i]] = "cancelled"

TakeNow(l) ==
    /\ locked' = locked \union {l}
    /\ UNCHANGED <<waitq, fut>>

\* acquire() appends a future and suspends the task.
Suspend(t, l) ==
    /\ waitq' = [waitq EXCEPT ![l] = Append(@, t)]
    /\ fut' = [fut EXCEPT ![t] = "pending"]
    /\ UNCHANGED locked

\* _wake_up_first(): completes the first future of q unless it is done already
\* (a cancelled future counts as done).
WakeFirst(q, f) ==
    IF q # <<>> /\ f[Head(q)] = "pending"
    THEN [f EXCEPT ![Head(q)] = "done"]
    ELSE f

\* release() of a lock that is set.
ReleaseLock(l) ==
    /\ locked' = locked \ {l}
    /\ fut' = WakeFirst(waitq[l], fut)
    /\ UNCHANGED waitq

\* The task resumes with the lock.
ResumeWithLock(t, l) ==
    /\ fut[t] = "done"
    /\ locked' = locked \union {l}
    /\ waitq' = [waitq EXCEPT ![l] = Without(@, t)]
    /\ fut' = [fut EXCEPT ![t] = "none"]

\* The task resumes with CancelledError: it leaves the FIFO and passes on a
\* wake-up it may have received or blocked.
ResumeWithCancel(t, l) ==
    /\ fut[t] \in {"cancelled", "doneCancel"}
    /\ waitq' = [waitq EXCEPT ![l] = Without(@, t)]
    /\ fut' = LET f == [fut EXCEPT ![t] = "none"]
              IN  IF l \in locked THEN f ELSE WakeFirst(waitq'[l], f)
    /\ UNCHANGED locked

\* Task.cancel() on a suspended task.
CancelWait(t) ==
    /\ fut[t] \in {"pending", "done"}
    /\ fut' = [fut EXCEPT ![t] = IF @ = "pending" THEN "cancelled" ELSE "doneCancel"]
    /\ UNCHANGED <<locked, waitq>>
=============================================================================
