----------------------- MODULE SessionTurnGateProofs -----------------------
(***************************************************************************)
(* The session gate keeps its promises for every number of tasks and       *)
(* sessions: type correctness and the inductive invariant IInv, from which *)
(* mutual exclusion, the identity of the lock object, the absence of lost  *)
(* wake-ups and the accuracy of the running time follow; and that the gate *)
(* implements FifoTurns, its fairness apart: the turns of a session are    *)
(* granted in the order of the line.                                       *)
(***************************************************************************)
EXTENDS SessionTurnGate, FiniteSetTheorems, SequenceTheorems, WellFoundedInduction,
        TLAPS

-----------------------------------------------------------------------------
(* The queue of the waiters of a lock *)

\* Without(q, t) takes t out of its place, and the elements behind it move up by one.
LEMMA WithoutPlaces ==
    ASSUME NEW S, NEW q \in Seq(S), NEW t, Occurs(t, q)
    PROVE  /\ Without(q, t) \in Seq(S)
           /\ Len(Without(q, t)) = Len(q) - 1
           /\ \E k \in 1..Len(q) :
                 /\ q[k] = t
                 /\ \A j \in 1..Len(q) - 1 :
                       Without(q, t)[j] = IF j < k THEN q[j] ELSE q[j+1]
<1> DEFINE k == CHOOSE j \in DOMAIN q : q[j] = t
           r == Without(q, t)
<1>1. k \in 1..Len(q) /\ q[k] = t
  BY DEF Occurs
<1> DEFINE a == SubSeq(q, 1, k-1)
           b == SubSeq(q, k+1, Len(q))
<1>a. /\ a \in Seq(S) /\ Len(a) = k - 1
      /\ \A j \in 1..k-1 : a[j] = q[j]
  <2> HIDE DEF k
  <2> QED
    BY <1>1, SubSeqProperties
<1>b. /\ b \in Seq(S) /\ Len(b) = Len(q) - k
      /\ \A j \in 1..Len(q)-k : b[j] = q[k+j]
  <2> HIDE DEF k
  <2> QED
    BY <1>1, SubSeqProperties
<1>c. r = a \o b
  BY DEF Without, RemoveAt
<1> HIDE DEF k, r, a, b
<1>2. r \in Seq(S) /\ Len(r) = Len(q) - 1
  <2>1. r \in Seq(S) /\ Len(r) = Len(a) + Len(b)
    BY <1>a, <1>b, <1>c, ConcatProperties
  <2> QED
    BY <2>1, <1>1, <1>a, <1>b
<1>3. \A j \in 1..Len(r) : r[j] = IF j < k THEN q[j] ELSE q[j+1]
  <2> TAKE j \in 1..Len(r)
  <2>1. r[j] = IF j <= Len(a) THEN a[j] ELSE b[j - Len(a)]
    BY <1>1, <1>2, <1>a, <1>b, <1>c, ConcatProperties
  <2>2. CASE j < k
    BY <2>1, <2>2, <1>1, <1>2, <1>a
  <2>3. CASE ~ (j < k)
    <3>1. j - Len(a) \in 1..Len(q)-k /\ k + (j - Len(a)) = j + 1 /\ ~ (j <= Len(a))
      BY <2>3, <1>1, <1>2, <1>a
    <3>2. b[j - Len(a)] = q[k + (j - Len(a))]
      BY <3>1, <1>b
    <3> QED
      BY <2>1, <2>3, <3>1, <3>2
  <2> QED
    BY <2>2, <2>3
<1> QED
  BY <1>1, <1>2, <1>3 DEF r

\* Without(q, t) has the elements of q but t, each once, and the head of q is its
\* head unless it was t.  (_waiters of asyncio.Lock.)
LEMMA WithoutFacts ==
    ASSUME NEW S, NEW q \in Seq(S), NEW t, Occurs(t, q), Distinct(q)
    PROVE  /\ Without(q, t) \in Seq(S)
           /\ Len(Without(q, t)) = Len(q) - 1
           /\ \A x : Occurs(x, Without(q, t)) <=> Occurs(x, q) /\ x # t
           /\ Distinct(Without(q, t))
           /\ q[1] # t => Without(q, t) # <<>> /\ Without(q, t)[1] = q[1]
<1> DEFINE r == Without(q, t)
<1>2. r \in Seq(S) /\ Len(r) = Len(q) - 1
  BY WithoutPlaces
<1>0. PICK k \in 1..Len(q) :
         q[k] = t /\ \A j \in 1..Len(q) - 1 : r[j] = IF j < k THEN q[j] ELSE q[j+1]
  BY WithoutPlaces
<1> HIDE DEF r
<1>1. k \in 1..Len(q) /\ q[k] = t
  BY <1>0
<1>3. \A j \in 1..Len(r) : r[j] = IF j < k THEN q[j] ELSE q[j+1]
  BY <1>0, <1>2
<1>4. ASSUME NEW j \in 1..Len(r) PROVE r[j] # t /\ Occurs(r[j], q)
  <2>1. PICK i \in 1..Len(q) : i # k /\ r[j] = q[i]
    BY <1>1, <1>2, <1>3
  <2>2. q[i] # t
    BY <2>1, <1>1 DEF Distinct
  <2> QED
    BY <2>1, <2>2 DEF Occurs
<1>5. ASSUME NEW x, Occurs(x, q), x # t
      PROVE  Occurs(x, r)
  <2>1. PICK j \in 1..Len(q) : q[j] = x
    BY <1>5 DEF Occurs
  <2>2. CASE j < k
    BY <2>1, <2>2, <1>1, <1>2, <1>3 DEF Occurs
  <2>3. CASE j > k
    <3>1. j - 1 \in 1..Len(r) /\ r[j-1] = q[j]
      BY <2>1, <2>3, <1>1, <1>2, <1>3
    <3> QED
      BY <3>1, <2>1, <1>2 DEF Occurs
  <2> QED
    BY <2>1, <2>2, <2>3, <1>1, <1>5
<1>6. Distinct(r)
  <2> SUFFICES ASSUME NEW i \in 1..Len(r), NEW j \in 1..Len(r), r[i] = r[j]
               PROVE  i = j
    BY <1>2 DEF Distinct
  <2>1. \A m, n \in 1..Len(q) : q[m] = q[n] => m = n
    BY DEF Distinct
  <2> QED
    BY <2>1, <1>1, <1>2, <1>3
<1>7. q[1] # t => r # <<>> /\ r[1] = q[1]
  BY <1>1, <1>2, <1>3
<1>8. ASSUME NEW x, Occurs(x, r)
      PROVE  Occurs(x, q) /\ x # t
  <2>1. PICK j \in 1..Len(r) : r[j] = x
    BY <1>2, <1>8 DEF Occurs
  <2> QED
    BY <2>1, <1>4
<1> QED
  BY <1>2, <1>5, <1>6, <1>7, <1>8 DEF r

-----------------------------------------------------------------------------
(* The wake-up of AsyncioLock *)

\* Waking the first of a FIFO changes at most its future, from pending to done,
\* and leaves it not pending.
LEMMA WakeFirstFacts ==
    ASSUME NEW q \in Seq(Tasks), NEW f \in [Tasks -> FutureStates]
    PROVE  /\ WakeFirst(q, f) \in [Tasks -> FutureStates]
           /\ \A x \in Tasks : \/ WakeFirst(q, f)[x] = f[x]
                               \/ /\ q # <<>> /\ x = q[1]
                                  /\ f[x] = "pending"
                                  /\ WakeFirst(q, f)[x] = "done"
           /\ q # <<>> => WakeFirst(q, f)[q[1]] # "pending"
  BY DEF WakeFirst, FutureStates

-----------------------------------------------------------------------------
(* The inductive invariant *)

\* A task outside the gate has no session, no lock and no future; one inside it
\* has a session, whose entry in _locks is its lock object.
Placed ==
    \A t \in Tasks :
        IF pc[t] = "idle"
        THEN sess[t] = NoSession /\ lk[t] = NoLock
        ELSE sess[t] \in Sessions /\ lk[t] \in Locks /\ locks[sess[t]] = lk[t]

\* Two sessions never share a lock object.
OwnLocks ==
    \A s1, s2 \in Sessions : locks[s1] = locks[s2] /\ locks[s1] # NoLock => s1 = s2

\* The FIFO of a lock holds the tasks that wait for it, each once, and these
\* are the tasks with a future.
QueuesHoldWaiters ==
    /\ \A l \in Locks : Distinct(waitq[l])
    /\ \A l \in Locks, t \in Tasks : Occurs(t, waitq[l]) <=> Waiting(t) /\ lk[t] = l
    /\ \A t \in Tasks : fut[t] = "none" <=> ~Waiting(t)

\* A turn holds its lock, alone, and a lock that is set has a turn.
TurnsHoldLocks ==
    /\ \A t \in Tasks : pc[t] = "turn" => lk[t] \in locked
    /\ \A t1, t2 \in Tasks :
          pc[t1] = "turn" /\ pc[t2] = "turn" /\ lk[t1] = lk[t2] => t1 = t2
    /\ \A l \in locked : \E t \in Tasks : pc[t] = "turn" /\ lk[t] = l

\* A completed future belongs to the head of the FIFO of a free lock: at most
\* one wake-up is on its way.
OnePromise ==
    \A t \in Tasks : fut[t] \in {"done", "doneCancel"} =>
        /\ lk[t] \notin locked
        /\ waitq[lk[t]][1] = t

HeadsAreAwake ==
    \A l \in Locks :
        l \notin locked /\ waitq[l] # <<>> => fut[waitq[l][1]] # "pending"

\* _waiters never undercounts.  (It may overcount: CancelledQueuedFree.)
CountCovers == \A s \in Sessions : waiters[s] >= Cardinality(Engaged(s))

IInv ==
    /\ TypeOK
    /\ Placed
    /\ OwnLocks
    /\ QueuesHoldWaiters
    /\ TurnsHoldLocks
    /\ OnePromise
    /\ HeadsAreAwake
    /\ CountCovers
    /\ RunningTimeIffBusy

-----------------------------------------------------------------------------

LEMMA InitIInv == ASSUME Init PROVE IInv
<1> USE GateAssumption DEF Init, LockInit
<1>1. TypeOK
  BY DEF TypeOK, LockTypeOK, PCs, FutureStates
<1>2. Placed /\ OwnLocks /\ QueuesHoldWaiters /\ TurnsHoldLocks
  BY DEF Placed, OwnLocks, QueuesHoldWaiters, TurnsHoldLocks, Occurs, Distinct, Waiting
<1>3. OnePromise /\ HeadsAreAwake
  BY DEF OnePromise, HeadsAreAwake
<1>4. CountCovers
  <2>1. \A s \in Sessions : Engaged(s) = {}
    BY DEF Engaged
  <2>2. Cardinality({}) = 0
    BY FS_EmptySet
  <2>3. \A s \in Sessions : waiters[s] = 0
    OBVIOUS
  <2>4. ASSUME NEW s \in Sessions PROVE waiters[s] >= Cardinality(Engaged(s))
    <3>1. Cardinality(Engaged(s)) = 0
      BY <2>1, <2>2
    <3> QED
      BY <3>1, <2>3
  <2> QED
    BY <2>4 DEF CountCovers
<1>5. RunningTimeIffBusy
  BY DEF RunningTimeIffBusy, Busy
<1> QED
  BY <1>1, <1>2, <1>3, <1>4, <1>5 DEF IInv

-----------------------------------------------------------------------------
(* What entering and leaving the gate do to the tables of the sessions *)

\* Entering: the task finds or creates the lock everybody in the session uses.
LEMMA EnterStep ==
    ASSUME IInv, NEW t \in Tasks, NEW s \in Sessions, NEW l \in Locks,
           EnterAcquire(t, s, l),
           NEW p \in PCs \ {"idle"}, pc' = [pc EXCEPT ![t] = p]
    PROVE  /\ Placed'
           /\ OwnLocks'
           /\ CountCovers'
           /\ locks[s] \in {NoLock, l}
<1> USE GateAssumption
<1>1. pc[t] = "idle" /\ lk[t] = NoLock /\ sess[t] = NoSession
  BY DEF IInv, Placed, EnterAcquire
<1>2. \/ locks[s] = l
      \/ locks[s] = NoLock /\ (\A s2 \in Sessions : locks[s2] # l)
  BY DEF EnterAcquire, LockFor, NewLocks
<1>3. Placed'
  BY <1>2 DEF Placed, IInv, TypeOK, EnterAcquire
<1>4. OwnLocks'
  BY <1>2 DEF OwnLocks, IInv, TypeOK, EnterAcquire
<1>5. CountCovers'
  <2> SUFFICES ASSUME NEW r \in Sessions
               PROVE  waiters'[r] >= Cardinality(Engaged(r)')
    BY DEF CountCovers
  <2>1. IsFiniteSet(Engaged(r))
    BY FS_Subset DEF Engaged
  <2>2. waiters[r] \in Nat /\ waiters[r] >= Cardinality(Engaged(r))
    BY DEF IInv, TypeOK, CountCovers
  <2>3. CASE r = s
    <3>1. Engaged(r)' = Engaged(r) \union {t} /\ t \notin Engaged(r)
      BY <1>1, <2>3 DEF Engaged, EnterAcquire, IInv, TypeOK
    <3>2. Cardinality(Engaged(r)') = Cardinality(Engaged(r)) + 1
      BY <2>1, <3>1, FS_AddElement
    <3>3. waiters'[r] = waiters[r] + 1
      BY <2>3 DEF EnterAcquire, IInv, TypeOK
    <3>4. Cardinality(Engaged(r)) \in Nat
      BY <2>1, FS_CardinalityType
    <3> QED
      BY <2>2, <3>2, <3>3, <3>4
  <2>4. CASE r # s
    <3>1. Engaged(r)' = Engaged(r)
      BY <1>1, <2>4 DEF Engaged, EnterAcquire, IInv, TypeOK
    <3>2. waiters'[r] = waiters[r]
      BY <2>4 DEF EnterAcquire, IInv, TypeOK
    <3> QED
      BY <2>2, <3>1, <3>2
  <2> QED
    BY <2>3, <2>4
<1> QED
  BY <1>2, <1>3, <1>4, <1>5

\* One task fewer in a session.
LEMMA LeaveCardinality ==
    ASSUME IInv, NEW t \in Tasks, pc[t] # "idle", LeaveGate(t), NEW r \in Sessions
    PROVE  /\ Cardinality(Engaged(r)) \in Nat
           /\ Cardinality(Engaged(r)') \in Nat
           /\ Cardinality(Engaged(r)') = IF r = sess[t] THEN Cardinality(Engaged(r)) - 1
                                         ELSE Cardinality(Engaged(r))
           /\ Cardinality(Engaged(r)') = 0 => Engaged(r)' = {}
<1> USE GateAssumption
<1>1. IsFiniteSet(Engaged(r))
  BY FS_Subset DEF Engaged
<1>2. IsFiniteSet(Engaged(r)')
  BY FS_Subset DEF Engaged
<1>3. Cardinality(Engaged(r)) \in Nat /\ Cardinality(Engaged(r)') \in Nat
  BY <1>1, <1>2, FS_CardinalityType
<1>4. Engaged(r)' = Engaged(r) \ {t} /\ (t \in Engaged(r) <=> r = sess[t])
  BY DEF Engaged, LeaveGate, IInv, TypeOK
<1>5. Cardinality(Engaged(r)') = IF r = sess[t] THEN Cardinality(Engaged(r)) - 1
                                 ELSE Cardinality(Engaged(r))
  BY <1>1, <1>4, FS_RemoveElement
<1> QED
  BY <1>2, <1>3, <1>5, FS_EmptySet

\* Leaving: the entry in _locks goes only when nobody uses it any more.
LEMMA LeaveStep ==
    ASSUME IInv, NEW t \in Tasks, pc[t] # "idle", LeaveGate(t),
           NEW ks \in SUBSET Sessions,
           CountAndCleanup(sess[t], OneLess(sess[t]), ks)
    PROVE  /\ Placed'
           /\ OwnLocks'
           /\ CountCovers'
<1> USE GateAssumption
<1>0. PICK s \in Sessions : s = sess[t]
  BY DEF IInv, Placed
<1>1. locks[s] = lk[t]
  BY <1>0 DEF IInv, Placed
<1>2. waiters' = [waiters EXCEPT ![s] = OneLess(s)]
  BY <1>0 DEF CountAndCleanup
<1>3. CountCovers'
  <2> SUFFICES ASSUME NEW r \in Sessions
               PROVE  waiters'[r] >= Cardinality(Engaged(r)')
    BY DEF CountCovers
  <2>1. waiters[r] \in Nat /\ waiters[r] >= Cardinality(Engaged(r))
    BY DEF IInv, TypeOK, CountCovers
  <2>2. waiters'[r] = IF r = s THEN OneLess(s) ELSE waiters[r]
    BY <1>1, <1>2 DEF IInv, TypeOK
  <2> QED
    BY <1>0, <2>1, <2>2, LeaveCardinality DEF OneLess
<1>4. \/ locks' = locks
      \/ locks' = [locks EXCEPT ![s] = NoLock] /\ OneLess(s) = 0
  BY <1>0 DEF CountAndCleanup
<1>5. locks'[s] = NoLock => Engaged(s)' = {}
  <2>1. CASE locks' = locks
    BY <2>1, <1>1 DEF IInv, Placed
  <2>2. CASE OneLess(s) = 0
    <3>1. waiters'[s] = 0
      BY <2>2, <1>1, <1>2 DEF IInv, TypeOK
    <3>2. Cardinality(Engaged(s)') = 0
      BY <3>1, <1>1, <1>3, LeaveCardinality DEF CountCovers
    <3> QED
      BY <3>2, <1>1, LeaveCardinality
  <2> QED
    BY <1>4, <2>1, <2>2
<1>6. \A r \in Sessions : locks'[r] = locks[r] \/ (r = s /\ locks'[r] = NoLock)
  BY <1>1, <1>4 DEF IInv, TypeOK
<1>7. Placed'
  <2> SUFFICES ASSUME NEW x \in Tasks
               PROVE  IF pc'[x] = "idle"
                      THEN sess'[x] = NoSession /\ lk'[x] = NoLock
                      ELSE /\ sess'[x] \in Sessions /\ lk'[x] \in Locks
                           /\ locks'[sess'[x]] = lk'[x]
    BY DEF Placed
  <2>1. CASE x = t
    BY <2>1 DEF LeaveGate, IInv, TypeOK
  <2>2. CASE x # t
    <3>1. pc'[x] = pc[x] /\ sess'[x] = sess[x] /\ lk'[x] = lk[x]
      BY <2>2 DEF LeaveGate, IInv, TypeOK
    <3>2. pc[x] # "idle" /\ sess[x] = s => x \in Engaged(s)'
      BY <3>1 DEF Engaged
    <3> QED
      BY <3>1, <3>2, <1>5, <1>6 DEF IInv, Placed
  <2> QED
    BY <2>1, <2>2
<1>8. OwnLocks'
  BY <1>6 DEF OwnLocks, IInv
<1> QED
  BY <1>3, <1>7, <1>8

-----------------------------------------------------------------------------
(* Each step of the gate keeps the invariant *)

LEMMA AcquireFreeStep ==
    ASSUME IInv, NEW t \in Tasks, NEW s \in Sessions, NEW l \in Locks,
           AcquireFree(t, s, l)
    PROVE  IInv'
<1> USE GateAssumption
<1>1. /\ EnterAcquire(t, s, l) /\ pc[t] = "idle"
      /\ pc' = [pc EXCEPT ![t] = "turn"] /\ lk' = [lk EXCEPT ![t] = l]
      /\ locked' = locked \union {l} /\ waitq' = waitq /\ fut' = fut
      /\ l \notin locked
      /\ \A i \in DOMAIN waitq[l] : fut[waitq[l][i]] = "cancelled"
  BY DEF AcquireFree, EnterAcquire, TakeNow, CanTakeNow
<1>2. TypeOK'
  BY <1>1 DEF IInv, TypeOK, LockTypeOK, PCs, AcquireFree, EnterAcquire
<1>3. Placed' /\ OwnLocks' /\ CountCovers' /\ locks[s] \in {NoLock, l}
  BY <1>1, EnterStep DEF PCs
<1>4. \A x \in Tasks : /\ x # t => pc'[x] = pc[x] /\ lk'[x] = lk[x]
                       /\ x = t => pc'[x] = "turn" /\ lk'[x] = l
  BY <1>1 DEF IInv, TypeOK
<1>5. QueuesHoldWaiters'
  BY <1>1, <1>4 DEF IInv, QueuesHoldWaiters, Waiting
<1>6. TurnsHoldLocks'
  BY <1>1, <1>4 DEF IInv, TurnsHoldLocks
<1>7. OnePromise'
  <2> SUFFICES ASSUME NEW x \in Tasks, fut[x] \in {"done", "doneCancel"}
               PROVE  lk'[x] \notin locked' /\ waitq[lk'[x]][1] = x
    BY <1>1 DEF OnePromise
  <2>1. Waiting(x) /\ lk[x] \in Locks /\ Occurs(x, waitq[lk[x]])
    BY DEF IInv, QueuesHoldWaiters, Placed, Waiting
  <2>2. x # t /\ lk[x] # l
    BY <2>1, <1>1 DEF Occurs, Waiting
  <2> QED
    BY <2>2, <1>1, <1>4 DEF IInv, OnePromise
<1>8. HeadsAreAwake'
  BY <1>1 DEF IInv, HeadsAreAwake
<1>9. RunningTimeIffBusy'
  BY <1>1, <1>2, <1>3 DEF IInv, RunningTimeIffBusy, Busy, OwnLocks, AcquireFree,
                           EnterAcquire, TypeOK, LockTypeOK
<1> QED
  BY <1>2, <1>3, <1>5, <1>6, <1>7, <1>8, <1>9 DEF IInv

\* The two ways to be suspended in acquire().
LEMMA SuspendStep ==
    ASSUME IInv, NEW t \in Tasks, NEW s \in Sessions, NEW l \in Locks,
           EnterAcquire(t, s, l), Suspend(t, l), UNCHANGED started,
           NEW p \in {"queued", "queuedFree"}, pc' = [pc EXCEPT ![t] = p],
           l \notin locked => ~CanTakeNow(l)
    PROVE  IInv'
<1> USE GateAssumption
<1>1. /\ pc[t] = "idle" /\ lk' = [lk EXCEPT ![t] = l]
      /\ waitq' = [waitq EXCEPT ![l] = Append(@, t)]
      /\ fut' = [fut EXCEPT ![t] = "pending"]
      /\ locked' = locked /\ started' = started
  BY DEF EnterAcquire, Suspend
<1>2. TypeOK'
  BY <1>1 DEF IInv, TypeOK, LockTypeOK, PCs, EnterAcquire, FutureStates
<1>3. Placed' /\ OwnLocks' /\ CountCovers' /\ locks[s] \in {NoLock, l}
  BY EnterStep DEF PCs
<1>4. \A x \in Tasks : /\ x # t => pc'[x] = pc[x] /\ lk'[x] = lk[x] /\ fut'[x] = fut[x]
                       /\ x = t => pc'[x] = p /\ lk'[x] = l /\ fut'[x] = "pending"
  BY <1>1 DEF IInv, TypeOK, LockTypeOK
<1>5. \A k \in Locks : waitq[k] \in Seq(Tasks) /\ ~Occurs(t, waitq[k])
  BY <1>1 DEF IInv, QueuesHoldWaiters, Waiting, TypeOK, LockTypeOK
<1>6. \A k \in Locks \ {l} : waitq'[k] = waitq[k]
  BY <1>1 DEF IInv, TypeOK, LockTypeOK
<1>7. /\ waitq'[l] # <<>> /\ DOMAIN waitq'[l] = 1..Len(waitq[l]) + 1
      /\ \A i \in 1..Len(waitq[l]) : waitq'[l][i] = waitq[l][i]
      /\ waitq'[l][Len(waitq[l]) + 1] = t
  <2>1. waitq'[l] = Append(waitq[l], t) /\ waitq[l] \in Seq(Tasks)
    BY <1>1 DEF IInv, TypeOK, LockTypeOK
  <2> QED
    BY <2>1, AppendProperties
<1>8. QueuesHoldWaiters'
  <2>1. \A k \in Locks : Distinct(waitq[k])'
    <3>1. Distinct(waitq[l])
      BY DEF IInv, QueuesHoldWaiters
    <3>2. Distinct(waitq[l])'
      BY <3>1, <1>5, <1>7 DEF Distinct, Occurs
    <3> QED
      BY <3>2, <1>6 DEF IInv, QueuesHoldWaiters, Distinct
  <2>2. \A x \in Tasks : Occurs(x, waitq[l])' <=> Occurs(x, waitq[l]) \/ x = t
    <3> DEFINE n == Len(waitq[l])
    <3>1. n \in Nat /\ DOMAIN waitq[l] = 1..n
      BY <1>5
    <3>2. ASSUME NEW x \in Tasks, Occurs(x, waitq[l])'
          PROVE  Occurs(x, waitq[l]) \/ x = t
      <4>1. PICK i \in 1..n + 1 : waitq'[l][i] = x
        BY <1>7, <3>2 DEF Occurs
      <4>2. i = n + 1 \/ i \in 1..n
        BY <3>1
      <4> QED
        BY <1>7, <3>1, <4>1, <4>2 DEF Occurs
    <3>3. ASSUME NEW x \in Tasks, Occurs(x, waitq[l]) \/ x = t
          PROVE  Occurs(x, waitq[l])'
      <4>1. CASE x = t
        <5>1. n + 1 \in DOMAIN waitq'[l] /\ waitq'[l][n + 1] = x
          BY <1>7, <3>1, <4>1
        <5> QED
          BY <5>1 DEF Occurs
      <4>2. CASE Occurs(x, waitq[l])
        <5>1. PICK i \in 1..n : waitq[l][i] = x
          BY <3>1, <4>2 DEF Occurs
        <5>2. i \in DOMAIN waitq'[l] /\ waitq'[l][i] = x
          BY <1>7, <3>1, <5>1
        <5> QED
          BY <5>2 DEF Occurs
      <4> QED
        BY <3>3, <4>1, <4>2
    <3> QED
      BY <3>2, <3>3
  <2>3. \A k \in Locks \ {l}, x \in Tasks : Occurs(x, waitq[k])' <=> Occurs(x, waitq[k])
    BY <1>6 DEF Occurs
  <2>4. \A k \in Locks, x \in Tasks : Occurs(x, waitq[k])' <=> (Waiting(x) /\ lk[x] = k)'
    BY <1>4, <1>5, <2>2, <2>3 DEF IInv, QueuesHoldWaiters, Waiting
  <2>5. \A x \in Tasks : fut'[x] = "none" <=> ~Waiting(x)'
    BY <1>4 DEF IInv, QueuesHoldWaiters, Waiting
  <2> QED
    BY <2>1, <2>4, <2>5 DEF QueuesHoldWaiters
<1>9. TurnsHoldLocks'
  BY <1>1, <1>4 DEF IInv, TurnsHoldLocks
<1>10. OnePromise'
  <2> SUFFICES ASSUME NEW x \in Tasks, fut'[x] \in {"done", "doneCancel"}
               PROVE  lk'[x] \notin locked' /\ waitq'[lk'[x]][1] = x
    BY DEF OnePromise
  <2>1. x # t /\ fut[x] = fut'[x] /\ lk'[x] = lk[x]
    BY <1>4
  <2>2. /\ lk[x] \notin locked /\ waitq[lk[x]][1] = x
        /\ lk[x] \in Locks /\ Occurs(x, waitq[lk[x]])
    BY <2>1 DEF IInv, OnePromise, QueuesHoldWaiters, Placed, Waiting
  <2>3. Len(waitq[lk[x]]) >= 1
    BY <2>2, <1>5 DEF Occurs
  <2> QED
    BY <2>1, <2>2, <2>3, <1>1, <1>5, <1>6, <1>7
<1>11. HeadsAreAwake'
  <2> SUFFICES ASSUME NEW k \in Locks, k \notin locked, waitq'[k] # <<>>
               PROVE  fut'[waitq'[k][1]] # "pending"
    BY <1>1 DEF HeadsAreAwake
  <2>1. waitq[k] # <<>>
    BY <1>6, <1>5 DEF CanTakeNow
  <2>2. fut[waitq[k][1]] # "pending" /\ waitq[k][1] \in Tasks /\ waitq[k][1] # t
    BY <2>1, <1>5 DEF IInv, HeadsAreAwake, Occurs
  <2>3. waitq'[k][1] = waitq[k][1]
    BY <2>1, <1>5, <1>6, <1>7
  <2> QED
    BY <2>2, <2>3, <1>4
<1>12. RunningTimeIffBusy'
  <2>1. locks[s] = NoLock => l \notin locked
    BY DEF EnterAcquire, LockFor, NewLocks
  <2> QED
    BY <1>1, <1>3, <2>1 DEF IInv, RunningTimeIffBusy, Busy, EnterAcquire, TypeOK, LockTypeOK
<1> QED
  BY <1>2, <1>3, <1>8, <1>9, <1>10, <1>11, <1>12 DEF IInv

\* A task leaves the FIFO of its lock, whether with the lock or cancelled.
LEMMA DequeueStep ==
    ASSUME IInv, NEW t \in Tasks, NEW l \in Locks, Waiting(t), lk[t] = l,
           waitq' = [waitq EXCEPT ![l] = Without(@, t)],
           \A x \in Tasks \ {t} : pc'[x] = pc[x] /\ lk'[x] = lk[x],
           pc'[t] \in {"idle", "turn"},
           \A x \in Tasks : fut'[x] = "none" <=> fut[x] = "none" \/ x = t
    PROVE  /\ QueuesHoldWaiters'
           /\ waitq' \in [Locks -> Seq(Tasks)]
           /\ \A k \in Locks \ {l} : waitq'[k] = waitq[k]
<1>1. waitq[l] \in Seq(Tasks) /\ Occurs(t, waitq[l]) /\ Distinct(waitq[l])
  BY DEF IInv, QueuesHoldWaiters, TypeOK, LockTypeOK
<1>2. waitq'[l] = Without(waitq[l], t) /\ (\A k \in Locks \ {l} : waitq'[k] = waitq[k])
  BY DEF IInv, TypeOK, LockTypeOK
<1>3. /\ waitq'[l] \in Seq(Tasks) /\ Distinct(waitq'[l])
      /\ \A x : Occurs(x, waitq'[l]) <=> Occurs(x, waitq[l]) /\ x # t
      /\ waitq[l][1] # t => waitq'[l] # <<>> /\ waitq'[l][1] = waitq[l][1]
  BY <1>1, <1>2, WithoutFacts
<1>4. waitq' \in [Locks -> Seq(Tasks)]
  BY <1>2, <1>3 DEF IInv, TypeOK, LockTypeOK
<1>5. \A k \in Locks : Distinct(waitq'[k])
  BY <1>2, <1>3 DEF IInv, QueuesHoldWaiters
<1>6. \A k \in Locks, x \in Tasks : Occurs(x, waitq'[k]) <=> (Waiting(x) /\ lk[x] = k)'
  BY <1>2, <1>3 DEF IInv, QueuesHoldWaiters, Waiting
<1>7. \A x \in Tasks : fut'[x] = "none" <=> ~Waiting(x)'
  BY DEF IInv, QueuesHoldWaiters, Waiting
<1> QED
  BY <1>2, <1>3, <1>4, <1>5, <1>6, <1>7 DEF QueuesHoldWaiters, Occurs, Distinct

LEMMA GetTurnStep ==
    ASSUME IInv, NEW t \in Tasks, GetTurn(t)
    PROVE  IInv'
<1> USE GateAssumption
<1>0. PICK l \in Locks : l = lk[t]
  BY DEF GetTurn, Waiting, IInv, Placed
<1>1. /\ Waiting(t) /\ fut[t] = "done"
      /\ locked' = locked \union {l}
      /\ waitq' = [waitq EXCEPT ![l] = Without(@, t)]
      /\ fut' = [fut EXCEPT ![t] = "none"]
      /\ pc' = [pc EXCEPT ![t] = "turn"]
      /\ locks' = locks /\ waiters' = waiters /\ sess' = sess /\ lk' = lk
      /\ started' = started \union {sess[t]}
  BY <1>0 DEF GetTurn, ResumeWithLock
<1>2. l \notin locked /\ waitq[l][1] = t
  BY <1>0, <1>1 DEF IInv, OnePromise
<1>3. \A x \in Tasks : /\ x # t => pc'[x] = pc[x] /\ fut'[x] = fut[x]
                       /\ x = t => pc'[x] = "turn" /\ fut'[x] = "none"
  BY <1>1 DEF IInv, TypeOK, LockTypeOK
<1>4. /\ QueuesHoldWaiters' /\ waitq' \in [Locks -> Seq(Tasks)]
      /\ \A k \in Locks \ {l} : waitq'[k] = waitq[k]
  <2>1. \A x \in Tasks \ {t} : pc'[x] = pc[x] /\ lk'[x] = lk[x]
    BY <1>1, <1>3
  <2>2. pc'[t] \in {"idle", "turn"}
    BY <1>3
  <2>3. \A x \in Tasks : fut'[x] = "none" <=> fut[x] = "none" \/ x = t
    BY <1>1, <1>3
  <2> QED
    BY <1>0, <1>1, <2>1, <2>2, <2>3, DequeueStep
<1>5. TypeOK'
  BY <1>1, <1>4 DEF IInv, TypeOK, LockTypeOK, PCs, FutureStates, Placed, Waiting
<1>6. Placed' /\ OwnLocks' /\ TurnsHoldLocks'
  BY <1>0, <1>1, <1>2, <1>3 DEF IInv, Placed, OwnLocks, TurnsHoldLocks, Waiting
<1>7. OnePromise'
  <2> SUFFICES ASSUME NEW x \in Tasks, fut'[x] \in {"done", "doneCancel"}
               PROVE  lk[x] \notin locked' /\ waitq'[lk[x]][1] = x
    BY <1>1 DEF OnePromise
  <2>1. x # t /\ lk[x] \notin locked /\ waitq[lk[x]][1] = x /\ lk[x] \in Locks
    BY <1>3 DEF IInv, OnePromise, QueuesHoldWaiters, Placed, Waiting
  <2> QED
    BY <2>1, <1>1, <1>2, <1>4
<1>8. HeadsAreAwake'
  <2> SUFFICES ASSUME NEW k \in Locks, k \notin locked', waitq'[k] # <<>>
               PROVE  fut'[waitq'[k][1]] # "pending"
    BY DEF HeadsAreAwake
  <2>1. k # l /\ k \notin locked /\ waitq'[k] = waitq[k]
    BY <1>1, <1>4
  <2>2. waitq[k][1] \in Tasks
    BY <2>1 DEF IInv, TypeOK, LockTypeOK
  <2> QED
    BY <2>1, <2>2, <1>3 DEF IInv, HeadsAreAwake
<1>9. CountCovers'
  <2>1. \A s \in Sessions : Engaged(s)' = Engaged(s)
    BY <1>1, <1>3 DEF Engaged, Waiting
  <2> QED
    BY <2>1, <1>1 DEF IInv, CountCovers
<1>10. RunningTimeIffBusy'
  BY <1>0, <1>1 DEF IInv, RunningTimeIffBusy, Busy, OwnLocks, Placed, Waiting, TypeOK, LockTypeOK
<1> QED
  BY <1>4, <1>5, <1>6, <1>7, <1>8, <1>9, <1>10 DEF IInv

LEMMA CancelStep ==
    ASSUME IInv, NEW t \in Tasks, Cancel(t)
    PROVE  IInv'
<1>1. /\ fut[t] \in {"pending", "done"} /\ locked' = locked /\ waitq' = waitq
      /\ fut' = [fut EXCEPT ![t] = IF @ = "pending" THEN "cancelled" ELSE "doneCancel"]
      /\ UNCHANGED gateVars
  BY DEF Cancel, CancelWait
<1>2. \A x \in Tasks :
        /\ x # t => fut'[x] = fut[x]
        /\ x = t => fut'[x] = IF fut[t] = "pending" THEN "cancelled" ELSE "doneCancel"
  BY <1>1 DEF IInv, TypeOK, LockTypeOK
<1>3. TypeOK'
  BY <1>1 DEF IInv, TypeOK, LockTypeOK, FutureStates, gateVars
<1>4. Placed' /\ OwnLocks' /\ TurnsHoldLocks' /\ RunningTimeIffBusy'
  BY <1>1 DEF IInv, Placed, OwnLocks, TurnsHoldLocks, RunningTimeIffBusy, Busy, gateVars
<1>5. QueuesHoldWaiters'
  BY <1>1, <1>2 DEF IInv, QueuesHoldWaiters, Waiting, gateVars
<1>6. OnePromise'
  BY <1>1, <1>2 DEF IInv, OnePromise, gateVars
<1>7. HeadsAreAwake'
  <2> SUFFICES ASSUME NEW k \in Locks, k \notin locked, waitq[k] # <<>>
               PROVE  fut'[waitq[k][1]] # "pending"
    BY <1>1 DEF HeadsAreAwake
  <2>1. waitq[k][1] \in Tasks
    BY DEF IInv, TypeOK, LockTypeOK
  <2> QED
    BY <2>1, <1>2 DEF IInv, HeadsAreAwake
<1>8. CountCovers'
  <2>1. \A s \in Sessions : Engaged(s)' = Engaged(s)
    BY <1>1 DEF Engaged, gateVars
  <2> QED
    BY <2>1, <1>1 DEF IInv, CountCovers, gateVars
<1> QED
  BY <1>3, <1>4, <1>5, <1>6, <1>7, <1>8 DEF IInv

\* A cancelled task resumes: what its lock and the other waiters see of it.
LEMMA ResumeWithCancelStep ==
    ASSUME IInv, NEW t \in Tasks, Waiting(t), ResumeWithCancel(t, lk[t]), LeaveGate(t)
    PROVE  /\ LockTypeOK'
           /\ QueuesHoldWaiters'
           /\ TurnsHoldLocks'
           /\ OnePromise'
           /\ HeadsAreAwake'
<1> USE GateAssumption
<1>0. PICK l \in Locks : l = lk[t]
  BY DEF IInv, Placed, Waiting
<1> DEFINE f == [fut EXCEPT ![t] = "none"]
<1>1. /\ locked' = locked
      /\ waitq' = [waitq EXCEPT ![l] = Without(@, t)]
      /\ fut' = IF l \in locked THEN f ELSE WakeFirst(waitq'[l], f)
      /\ fut[t] \in {"cancelled", "doneCancel"}
  BY <1>0 DEF ResumeWithCancel
<1>2. /\ f \in [Tasks -> FutureStates]
      /\ \A x \in Tasks : f[x] = IF x = t THEN "none" ELSE fut[x]
  BY DEF IInv, TypeOK, LockTypeOK, FutureStates
<1>3. /\ pc' = [pc EXCEPT ![t] = "idle"]
      /\ \A x \in Tasks : /\ x # t => pc'[x] = pc[x] /\ lk'[x] = lk[x]
                          /\ x = t => pc'[x] = "idle" /\ lk'[x] = NoLock
  BY DEF LeaveGate, IInv, TypeOK
<1>4. /\ waitq'[l] \in Seq(Tasks) /\ ~Occurs(t, waitq'[l])
      /\ waitq[l][1] # t => waitq'[l] # <<>> /\ waitq'[l][1] = waitq[l][1]
      /\ \A x \in Tasks : Occurs(x, waitq'[l]) <=> Occurs(x, waitq[l]) /\ x # t
  <2>1. waitq'[l] = Without(waitq[l], t)
    BY <1>1 DEF IInv, TypeOK, LockTypeOK
  <2> QED
    BY <2>1, <1>0, WithoutFacts DEF IInv, QueuesHoldWaiters, TypeOK, LockTypeOK
<1> HIDE DEF f
<1>5. /\ fut' \in [Tasks -> FutureStates]
      /\ \A x \in Tasks : \/ fut'[x] = f[x]
                          \/ /\ l \notin locked /\ waitq'[l] # <<>> /\ x = waitq'[l][1]
                             /\ f[x] = "pending" /\ fut'[x] = "done"
      /\ l \notin locked /\ waitq'[l] # <<>> => fut'[waitq'[l][1]] # "pending"
  BY <1>1, <1>2, <1>4, WakeFirstFacts
<1>6. /\ QueuesHoldWaiters' /\ waitq' \in [Locks -> Seq(Tasks)]
      /\ \A k \in Locks \ {l} : waitq'[k] = waitq[k]
      /\ waitq[l][1] # t => waitq'[l] # <<>> /\ waitq'[l][1] = waitq[l][1]
      /\ \A x \in Tasks : Occurs(x, waitq'[l]) <=> Occurs(x, waitq[l]) /\ x # t
  <2>1. \A x \in Tasks \ {t} : pc'[x] = pc[x] /\ lk'[x] = lk[x]
    BY <1>3
  <2>2. pc'[t] \in {"idle", "turn"}
    BY <1>3
  <2>3. \A x \in Tasks : fut'[x] = "none" <=> fut[x] = "none" \/ x = t
    BY <1>2, <1>5
  <2>4. lk[t] = l /\ waitq' = [waitq EXCEPT ![l] = Without(@, t)]
    BY <1>0, <1>1
  <2>5. /\ QueuesHoldWaiters' /\ waitq' \in [Locks -> Seq(Tasks)]
        /\ \A k \in Locks \ {l} : waitq'[k] = waitq[k]
    BY <2>1, <2>2, <2>3, <2>4, DequeueStep
  <2> QED
    BY <2>5, <1>4
<1>7. LockTypeOK'
  BY <1>1, <1>5, <1>6 DEF IInv, TypeOK, LockTypeOK
<1>8. TurnsHoldLocks'
  BY <1>1, <1>3 DEF IInv, TurnsHoldLocks, Waiting
<1>9. OnePromise'
  <2> SUFFICES ASSUME NEW x \in Tasks, fut'[x] \in {"done", "doneCancel"}
               PROVE  lk'[x] \notin locked /\ waitq'[lk'[x]][1] = x
    BY <1>1 DEF OnePromise
  <2>1. x # t /\ lk'[x] = lk[x] /\ lk[x] \in Locks
    BY <1>2, <1>3, <1>5 DEF IInv, QueuesHoldWaiters, Placed, Waiting
  <2>2. CASE fut'[x] = f[x]
    <3>1. lk[x] \notin locked /\ waitq[lk[x]][1] = x
      BY <2>1, <2>2, <1>2 DEF IInv, OnePromise
    <3> QED
      BY <3>1, <2>1, <1>6
  <2>3. CASE l \notin locked /\ waitq'[l] # <<>> /\ x = waitq'[l][1]
    <3>1. Occurs(x, waitq'[l])
      BY <2>3, <1>4 DEF Occurs
    <3>2. lk[x] = l
      BY <3>1, <1>6 DEF IInv, QueuesHoldWaiters
    <3> QED
      BY <3>2, <2>1, <2>3
  <2> QED
    BY <2>2, <2>3, <1>5
<1>10. HeadsAreAwake'
  <2> SUFFICES ASSUME NEW k \in Locks, k \notin locked, waitq'[k] # <<>>
               PROVE  fut'[waitq'[k][1]] # "pending"
    BY <1>1 DEF HeadsAreAwake
  <2>1. CASE k = l
    BY <2>1, <1>5
  <2>2. CASE k # l
    <3>1. waitq'[k] = waitq[k] /\ waitq[k][1] \in Tasks /\ waitq[k] # <<>>
      BY <2>2, <1>6 DEF IInv, TypeOK, LockTypeOK
    <3>2. fut[waitq[k][1]] # "pending"
      BY <3>1 DEF IInv, HeadsAreAwake
    <3> QED
      BY <3>1, <3>2, <1>2, <1>5
  <2> QED
    BY <2>1, <2>2
<1> QED
  BY <1>6, <1>7, <1>8, <1>9, <1>10

LEMMA CancelledQueuedStep ==
    ASSUME IInv, NEW t \in Tasks, CancelledQueued(t)
    PROVE  IInv'
<1> USE GateAssumption
<1>0. PICK s \in Sessions : s = sess[t]
  BY DEF CancelledQueued, IInv, Placed
<1>1. /\ pc[t] = "queued" /\ Waiting(t) /\ LeaveGate(t) /\ ResumeWithCancel(t, lk[t])
      /\ CountAndCleanup(sess[t], OneLess(sess[t]), started)
      /\ started \in SUBSET Sessions
  BY DEF CancelledQueued, Waiting, IInv, TypeOK
<1>2. Placed' /\ OwnLocks' /\ CountCovers'
  BY <1>1, LeaveStep
<1>3. LockTypeOK' /\ QueuesHoldWaiters' /\ TurnsHoldLocks' /\ OnePromise' /\ HeadsAreAwake'
  BY <1>1, ResumeWithCancelStep
<1>4. locked' = locked
  BY <1>1 DEF ResumeWithCancel
<1>5. TypeOK'
  BY <1>0, <1>1, <1>3 DEF IInv, TypeOK, LeaveGate, CountAndCleanup, OneLess, PCs
<1>6. RunningTimeIffBusy'
  BY <1>0, <1>1, <1>4 DEF IInv, RunningTimeIffBusy, Busy, CountAndCleanup, TypeOK, LockTypeOK
<1> QED
  BY <1>2, <1>3, <1>5, <1>6 DEF IInv

LEMMA CancelledQueuedFreeStep ==
    ASSUME IInv, NEW t \in Tasks, CancelledQueuedFree(t)
    PROVE  IInv'
<1> USE GateAssumption
<1>1. /\ pc[t] = "queuedFree" /\ Waiting(t) /\ LeaveGate(t) /\ ResumeWithCancel(t, lk[t])
      /\ locks' = locks /\ waiters' = waiters /\ started' = started
  BY DEF CancelledQueuedFree, Waiting
<1>2. LockTypeOK' /\ QueuesHoldWaiters' /\ TurnsHoldLocks' /\ OnePromise' /\ HeadsAreAwake'
  BY <1>1, ResumeWithCancelStep
<1>3. locked' = locked
  BY <1>1 DEF ResumeWithCancel
<1>4. TypeOK'
  BY <1>1, <1>2 DEF IInv, TypeOK, LeaveGate, PCs
<1>5. Placed' /\ OwnLocks' /\ RunningTimeIffBusy'
  BY <1>1, <1>3 DEF IInv, Placed, OwnLocks, RunningTimeIffBusy, Busy, LeaveGate, TypeOK
<1>6. CountCovers'
  <2> SUFFICES ASSUME NEW r \in Sessions
               PROVE  waiters[r] >= Cardinality(Engaged(r)')
    BY <1>1 DEF CountCovers
  <2>1. waiters[r] \in Nat /\ waiters[r] >= Cardinality(Engaged(r))
    BY DEF IInv, TypeOK, CountCovers
  <2> QED
    BY <2>1, <1>1, LeaveCardinality
<1> QED
  BY <1>2, <1>4, <1>5, <1>6 DEF IInv

LEMMA ReleaseStep ==
    ASSUME IInv, NEW t \in Tasks, Release(t)
    PROVE  IInv'
<1> USE GateAssumption
<1>0. PICK s \in Sessions, l \in Locks : s = sess[t] /\ l = lk[t] /\ locks[s] = l
  BY DEF Release, IInv, Placed
<1>1. pc[t] = "turn" /\ LeaveGate(t) /\ l \in locked /\ Busy(sess[t])
  BY <1>0 DEF Release, Busy, IInv, TurnsHoldLocks
<1>2. /\ locked' = locked \ {l} /\ waitq' = waitq
      /\ fut' = WakeFirst(waitq[l], fut)
      /\ CountAndCleanup(sess[t], OneLess(sess[t]), started \ {sess[t]})
  BY <1>0, <1>1 DEF Release, ReleaseLock
<1>3. Placed' /\ OwnLocks' /\ CountCovers'
  <2>1. started \ {sess[t]} \in SUBSET Sessions
    BY DEF IInv, TypeOK
  <2> QED
    BY <2>1, <1>1, <1>2, LeaveStep
<1>4. \A x \in Tasks : /\ x # t => pc'[x] = pc[x] /\ lk'[x] = lk[x]
                       /\ x = t => pc'[x] = "idle" /\ lk'[x] = NoLock
  BY <1>1 DEF LeaveGate, IInv, TypeOK
<1>5. waitq[l] \in Seq(Tasks) /\ fut \in [Tasks -> FutureStates]
  BY DEF IInv, TypeOK, LockTypeOK
<1>6. /\ fut' \in [Tasks -> FutureStates]
      /\ \A x \in Tasks : \/ fut'[x] = fut[x]
                          \/ /\ waitq[l] # <<>> /\ x = waitq[l][1]
                             /\ fut[x] = "pending" /\ fut'[x] = "done"
      /\ waitq[l] # <<>> => fut'[waitq[l][1]] # "pending"
  BY <1>2, <1>5, WakeFirstFacts
<1>7. TypeOK'
  <2>1. LockTypeOK'
    BY <1>2, <1>6 DEF IInv, TypeOK, LockTypeOK
  <2>2. waiters' \in [Sessions -> Nat]
    BY <1>0, <1>2 DEF IInv, TypeOK, CountAndCleanup, OneLess
  <2>3. locks' \in [Sessions -> Locks \union {NoLock}] /\ started' \subseteq Sessions
    BY <1>0, <1>2 DEF IInv, TypeOK, CountAndCleanup
  <2>4. /\ pc' \in [Tasks -> PCs]
        /\ sess' \in [Tasks -> Sessions \union {NoSession}]
        /\ lk' \in [Tasks -> Locks \union {NoLock}]
    BY <1>1 DEF IInv, TypeOK, LeaveGate, PCs
  <2> QED
    BY <2>1, <2>2, <2>3, <2>4 DEF TypeOK
<1>8. QueuesHoldWaiters'
  <2>1. \A x \in Tasks : Waiting(x)' <=> Waiting(x)
    BY <1>1, <1>4 DEF Waiting
  <2>2. \A x \in Tasks : fut'[x] = "none" <=> fut[x] = "none"
    BY <1>6
  <2>3. \A x \in Tasks : Waiting(x) => lk'[x] = lk[x]
    BY <1>1, <1>4 DEF Waiting
  <2> QED
    BY <2>1, <2>2, <2>3, <1>2 DEF IInv, QueuesHoldWaiters
<1>9. TurnsHoldLocks'
  BY <1>0, <1>1, <1>2, <1>4 DEF IInv, TurnsHoldLocks
<1>10. OnePromise'
  <2> SUFFICES ASSUME NEW x \in Tasks, fut'[x] \in {"done", "doneCancel"}
               PROVE  lk'[x] \notin locked' /\ waitq[lk'[x]][1] = x
    BY <1>2 DEF OnePromise
  <2>1. x # t /\ lk'[x] = lk[x]
    BY <1>1, <1>4, <1>6 DEF IInv, QueuesHoldWaiters, Waiting
  <2>2. CASE fut'[x] = fut[x]
    BY <2>1, <2>2, <1>2 DEF IInv, OnePromise
  <2>3. CASE waitq[l] # <<>> /\ x = waitq[l][1]
    <3>1. Occurs(x, waitq[l])
      BY <2>3, <1>5 DEF Occurs
    <3>2. lk[x] = l
      BY <3>1 DEF IInv, QueuesHoldWaiters
    <3> QED
      BY <3>2, <2>1, <2>3, <1>2
  <2> QED
    BY <2>2, <2>3, <1>6
<1>11. HeadsAreAwake'
  <2> SUFFICES ASSUME NEW k \in Locks, k \notin locked', waitq[k] # <<>>
               PROVE  fut'[waitq[k][1]] # "pending"
    BY <1>2 DEF HeadsAreAwake
  <2>1. CASE k = l
    BY <2>1, <1>6
  <2>2. CASE k # l
    <3>1. waitq[k][1] \in Tasks /\ k \notin locked
      BY <2>2, <1>2 DEF IInv, TypeOK, LockTypeOK
    <3> QED
      BY <3>1, <1>6 DEF IInv, HeadsAreAwake
  <2> QED
    BY <2>1, <2>2
<1>12. RunningTimeIffBusy'
  <2> SUFFICES ASSUME NEW r \in Sessions
               PROVE  r \in started' <=> locks'[r] \in locked'
    BY DEF RunningTimeIffBusy, Busy
  <2>1. locked \subseteq Locks /\ (r \in started <=> locks[r] \in locked)
    BY DEF IInv, TypeOK, LockTypeOK, RunningTimeIffBusy, Busy
  <2>2. CASE r = s
    BY <2>1, <2>2, <1>0, <1>2 DEF CountAndCleanup, IInv, TypeOK
  <2>3. CASE r # s
    <3>1. locks'[r] = locks[r] /\ (r \in started' <=> r \in started)
      BY <2>3, <1>0, <1>2 DEF CountAndCleanup, IInv, TypeOK
    <3>2. locks[r] # l
      BY <2>3, <1>0 DEF IInv, OwnLocks
    <3> QED
      BY <3>1, <3>2, <2>1, <1>2
  <2> QED
    BY <2>2, <2>3
<1> QED
  BY <1>3, <1>7, <1>8, <1>9, <1>10, <1>11, <1>12 DEF IInv

LEMMA StutterStep == ASSUME IInv, UNCHANGED vars PROVE IInv'
<1> USE DEF vars, IInv
<1>1. TypeOK' /\ Placed' /\ OwnLocks'
  BY DEF TypeOK, LockTypeOK, Placed, OwnLocks
<1>2. QueuesHoldWaiters' /\ TurnsHoldLocks' /\ OnePromise' /\ HeadsAreAwake'
  BY DEF QueuesHoldWaiters, Waiting, TurnsHoldLocks, OnePromise, HeadsAreAwake
<1>3. CountCovers' /\ RunningTimeIffBusy'
  BY DEF CountCovers, Engaged, RunningTimeIffBusy, Busy
<1> QED
  BY <1>1, <1>2, <1>3

\* Every step of the gate keeps the invariant.
LEMMA InvStep ==
    ASSUME IInv, [Next]_vars
    PROVE  IInv'
<1>1. ASSUME NEW t \in Tasks, Acquire(t)
      PROVE  IInv'
  <2> PICK s \in Sessions, l \in Locks :
         AcquireFree(t, s, l) \/ AcquirePromised(t, s, l) \/ AcquireBusy(t, s, l)
    BY <1>1 DEF Acquire
  <2>1. CASE AcquireFree(t, s, l)
    BY <2>1, AcquireFreeStep
  <2>2. CASE AcquirePromised(t, s, l)
    BY <2>2, SuspendStep DEF AcquirePromised
  <2>3. CASE AcquireBusy(t, s, l)
    BY <2>3, SuspendStep DEF AcquireBusy
  <2> QED
    BY <2>1, <2>2, <2>3
<1>2. ASSUME NEW t \in Tasks, Progress(t)
      PROVE  IInv'
  BY <1>2, GetTurnStep, CancelledQueuedStep, CancelledQueuedFreeStep, ReleaseStep
     DEF Progress
<1>3. ASSUME NEW t \in Tasks, Cancel(t)
      PROVE  IInv'
  BY <1>3, CancelStep
<1>4. CASE UNCHANGED vars
  BY <1>4, StutterStep
<1> QED
  BY <1>1, <1>2, <1>3, <1>4 DEF Next

-----------------------------------------------------------------------------
(* Theorems *)

\* The invariant holds in every run.
LEMMA Inductive == Spec => []IInv
<1>1. Init => IInv
  BY InitIInv
<1>2. IInv /\ [Next]_vars => IInv'
  BY InvStep
<1> QED
  BY <1>1, <1>2, PTL DEF Spec

\* Every variable keeps its type.
THEOREM GateTypeCorrect == Spec => []TypeOK
<1>1. IInv => TypeOK
  BY DEF IInv
<1> QED
  BY <1>1, Inductive, PTL

\* The gate excludes: for any number of tasks and sessions, with cancellations
\* at any moment, two turns never run at once in a session.
THEOREM GateMutualExclusion == Spec => []OneTurnPerSession
<1>1. IInv => OneTurnPerSession
  BY DEF IInv, Placed, TurnsHoldLocks, OneTurnPerSession
<1> QED
  BY <1>1, Inductive, PTL

\* _cleanup_if_idle never reclaims a lock that a task waits on or holds.
THEOREM GateKeepsItsLocks == Spec => []NobodyOnAnOldLock
<1>1. IInv => NobodyOnAnOldLock
  BY DEF IInv, Placed, NobodyOnAnOldLock
<1> QED
  BY <1>1, Inductive, PTL

\* No order of releases and cancellations leaves waiters that nobody will wake.
THEOREM GateLeavesNobodyStuck == Spec => []NoSessionIsStuck
<1>1. ASSUME IInv PROVE NoSessionIsStuck
  <2> SUFFICES ASSUME NEW s \in Sessions, NEW t \in Engaged(s), Waiting(t),
                      InTurn(s) = {}
               PROVE  \E x \in Engaged(s) : fut[x] \in {"done", "cancelled", "doneCancel"}
    BY DEF NoSessionIsStuck
  <2>1. /\ t \in Tasks /\ sess[t] = s
        /\ lk[t] \in Locks /\ locks[s] = lk[t] /\ Occurs(t, waitq[lk[t]])
    BY <1>1 DEF IInv, Placed, QueuesHoldWaiters, Engaged, Waiting
  <2>2. lk[t] \notin locked
    <3> SUFFICES ASSUME lk[t] \in locked PROVE FALSE
      OBVIOUS
    <3>1. PICK x \in Tasks : pc[x] = "turn" /\ lk[x] = lk[t]
      BY <1>1 DEF IInv, TurnsHoldLocks
    <3>2. sess[x] = s
      BY <1>1, <2>1, <3>1, GateAssumption DEF IInv, Placed, OwnLocks
    <3> QED
      BY <3>1, <3>2 DEF InTurn
  <2> DEFINE x == waitq[lk[t]][1]
  <2>3. waitq[lk[t]] # <<>> /\ x \in Tasks /\ Occurs(x, waitq[lk[t]])
    BY <1>1, <2>1 DEF IInv, TypeOK, LockTypeOK, Occurs
  <2>4. Waiting(x) /\ lk[x] = lk[t] /\ fut[x] \notin {"none", "pending"}
    BY <1>1, <2>1, <2>2, <2>3 DEF IInv, QueuesHoldWaiters, HeadsAreAwake
  <2>5. sess[x] = s
    BY <1>1, <2>1, <2>3, <2>4, GateAssumption DEF IInv, Placed, OwnLocks, Waiting
  <2>6. x \in Engaged(s)
    BY <2>3, <2>4, <2>5 DEF Engaged, Waiting
  <2>7. fut[x] \in {"done", "cancelled", "doneCancel"}
    BY <1>1, <2>3, <2>4 DEF IInv, TypeOK, LockTypeOK, FutureStates
  <2> QED
    BY <2>6, <2>7
<1> QED
  BY <1>1, Inductive, PTL

\* running_seconds() is about a running turn.
THEOREM GateRunningTime == Spec => []RunningTimeIffBusy
<1>1. IInv => RunningTimeIffBusy
  BY DEF IInv
<1> QED
  BY <1>1, Inductive, PTL

-----------------------------------------------------------------------------
(* The line of a session: what Among keeps of a queue *)

\* What a sequence holds with one more element at its end.
LEMMA AppendMembers ==
    ASSUME NEW S, NEW q \in Seq(S), NEW e \in S
    PROVE  /\ Append(q, e) \in Seq(S)
           /\ \A x : x \in ToSet(Append(q, e)) <=> x \in ToSet(q) \/ x = e
<1> DEFINE r == Append(q, e)
<1>1. /\ r \in Seq(S) /\ Len(r) = Len(q) + 1
      /\ \A i \in 1..Len(q) : r[i] = q[i]
      /\ r[Len(q) + 1] = e
  BY AppendProperties
<1> HIDE DEF r
<1>2. ASSUME NEW x PROVE x \in ToSet(r) <=> x \in ToSet(q) \/ x = e
  BY <1>1 DEF ToSet
<1> QED
  BY <1>1, <1>2 DEF r

\* A set of naturals has a smallest element; so a statement about the first n elements
\* of a queue holds for every n when no n is the first for which it fails.
LEMMA Smallest ==
    ASSUME NEW T \in SUBSET Nat, T # {}
    PROVE  \E n \in T : \A k \in T : n <= k
<1> DEFINE R == {ss \in Nat \X Nat : ss[1] < ss[2]}
<1>1. IsWellFoundedOn(R, Nat)
  BY NatLessThanWellFounded DEF OpToRel
<1>2. PICK n \in T : \A k \in T : ~ (<<k, n>> \in R)
  <2> HIDE DEF R
  <2> QED
    BY <1>1, WFMin
<1>3. \A k \in T : ~ (k < n)
  BY <1>2
<1> QED
  BY <1>3

\* f lists what Among picks of the first 0 .. n elements of q.
Picks(q, P, n, f) ==
    f = [i \in 0 .. n |-> IF i = 0 THEN <<>>
                          ELSE IF q[i] \in P THEN Append(f[i - 1], q[i]) ELSE f[i - 1]]

\* What one more element adds to what was picked.
LEMMA PicksUnfold ==
    ASSUME NEW q, NEW P, NEW n \in Nat, NEW f, Picks(q, P, n, f)
    PROVE  /\ f[0] = <<>>
           /\ \A i \in 1 .. n : f[i] = IF q[i] \in P THEN Append(f[i - 1], q[i]) ELSE f[i - 1]
<1> DEFINE e == [i \in 0 .. n |-> IF i = 0 THEN <<>>
                                  ELSE IF q[i] \in P THEN Append(f[i - 1], q[i]) ELSE f[i - 1]]
<1>1. f = e
  BY DEF Picks
<1>2. e[0] = <<>>
  OBVIOUS
<1>3. ASSUME NEW i \in 1 .. n
      PROVE  e[i] = IF q[i] \in P THEN Append(f[i - 1], q[i]) ELSE f[i - 1]
  OBVIOUS
<1> HIDE DEF e
<1> QED
  BY <1>1, <1>2, <1>3

\* The recursion of Among has a solution.
LEMMA PicksExists ==
    ASSUME NEW q, NEW P, NEW n \in Nat
    PROVE  \E f : Picks(q, P, n, f)
<1> DEFINE T == {k \in Nat : ~ \E f : Picks(q, P, k, f)}
<1>1. SUFFICES ASSUME T # {} PROVE FALSE
  OBVIOUS
<1>2. PICK m \in T : \A k \in T : m <= k
  <2>1. T \in SUBSET Nat
    OBVIOUS
  <2> HIDE DEF T
  <2> QED
    BY <1>1, <2>1, Smallest
<1>3. m \in Nat /\ m # 0
  <2> DEFINE z == [i \in 0 .. 0 |-> <<>>]
  <2>1. Picks(q, P, 0, z)
    BY DEF Picks
  <2> HIDE DEF z
  <2> QED
    BY <2>1
<1>4. PICK f : Picks(q, P, m - 1, f)
  BY <1>2, <1>3
<1> DEFINE g == [i \in 0 .. m |->
                    IF i = 0 THEN <<>>
                    ELSE IF q[i] \in P THEN Append(f[i - 1], q[i]) ELSE f[i - 1]]
<1>5. ASSUME NEW i \in 0 .. m - 1 PROVE g[i] = f[i]
  <2>1. g[i] = IF i = 0 THEN <<>>
               ELSE IF q[i] \in P THEN Append(f[i - 1], q[i]) ELSE f[i - 1]
    BY <1>3
  <2>2. /\ f[0] = <<>>
        /\ \A j \in 1 .. m - 1 : f[j] = IF q[j] \in P THEN Append(f[j - 1], q[j]) ELSE f[j - 1]
    <3>1. m - 1 \in Nat
      BY <1>3
    <3> HIDE DEF g
    <3> QED
      BY <3>1, <1>4, PicksUnfold
  <2> HIDE DEF g
  <2>3. CASE i = 0
    BY <2>1, <2>2, <2>3
  <2>4. CASE i # 0
    <3>1. i \in 1 .. m - 1
      BY <1>3, <2>4
    <3> QED
      BY <3>1, <2>1, <2>2, <2>4
  <2> QED
    BY <2>3, <2>4
<1>6. g = [i \in 0 .. m |-> IF i = 0 THEN <<>>
                            ELSE IF q[i] \in P THEN Append(g[i - 1], q[i]) ELSE g[i - 1]]
  <2>1. \A i \in 0 .. m : i # 0 => g[i - 1] = f[i - 1]
    <3> HIDE DEF g
    <3> QED
      BY <1>3, <1>5
  <2> DEFINE h == [i \in 0 .. m |-> IF i = 0 THEN <<>>
                            ELSE IF q[i] \in P THEN Append(g[i - 1], q[i]) ELSE g[i - 1]]
  <2>2. h = [i \in 0 .. m |-> IF i = 0 THEN <<>>
                            ELSE IF q[i] \in P THEN Append(f[i - 1], q[i]) ELSE f[i - 1]]
    <3> HIDE DEF g
    <3> QED
      BY <2>1
  <2> QED
    BY <2>2
<1> QED
  BY <1>2, <1>6 DEF Picks

\* Among is the last of what is picked.
LEMMA AmongPicks ==
    ASSUME NEW q, NEW P, Len(q) \in Nat
    PROVE  \E f : Picks(q, P, Len(q), f) /\ Among(q, P) = f[Len(q)]
<1> DEFINE f == CHOOSE g : Picks(q, P, Len(q), g)
<1>1. Picks(q, P, Len(q), f)
  BY PicksExists
<1>2. Among(q, P) = f[Len(q)]
  BY DEF Among, Picks
<1> QED
  BY <1>1, <1>2

\* Queues that agree on their first k elements have the same picked of them.
LEMMA PicksAgree ==
    ASSUME NEW q, NEW P, NEW n \in Nat, NEW f, Picks(q, P, n, f),
           NEW r, NEW Q, NEW m \in Nat, NEW g, Picks(r, Q, m, g),
           NEW k \in Nat, k <= n, k <= m,
           \A i \in 1 .. k : q[i] = r[i] /\ (q[i] \in P <=> r[i] \in Q)
    PROVE  f[k] = g[k]
<1>a. /\ f[0] = <<>>
      /\ \A i \in 1 .. n : f[i] = IF q[i] \in P THEN Append(f[i - 1], q[i]) ELSE f[i - 1]
  BY ONLY n \in Nat, Picks(q, P, n, f), PicksUnfold
<1>b. /\ g[0] = <<>>
      /\ \A i \in 1 .. m : g[i] = IF r[i] \in Q THEN Append(g[i - 1], r[i]) ELSE g[i - 1]
  BY ONLY m \in Nat, Picks(r, Q, m, g), PicksUnfold
<1> DEFINE T == {i \in 0 .. k : f[i] # g[i]}
<1>1. SUFFICES ASSUME T # {} PROVE FALSE
  OBVIOUS
<1>2. PICK i \in T : \A j \in T : i <= j
  <2>1. T \in SUBSET Nat
    OBVIOUS
  <2> HIDE DEF T
  <2> QED
    BY <1>1, <2>1, Smallest
<1>3. i \in 0 .. k /\ f[i] # g[i]
  BY <1>2
<1>4. i # 0
  BY <1>3, <1>a, <1>b
<1>5. i - 1 \in 0 .. k /\ i - 1 \notin T
  <2> HIDE DEF T
  <2> QED
    BY <1>2, <1>3, <1>4
<1>6. f[i - 1] = g[i - 1]
  BY <1>5
<1>7. i \in 1 .. n /\ i \in 1 .. m /\ i \in 1 .. k
  BY <1>3, <1>4
<1> QED
  BY <1>3, <1>6, <1>7, <1>a, <1>b

\* Nothing but what is in P and in the queue is picked.
LEMMA PicksType ==
    ASSUME NEW S, NEW q \in Seq(S), NEW P, NEW f, Picks(q, P, Len(q), f)
    PROVE  \A i \in 0 .. Len(q) :
              /\ f[i] \in Seq(S)
              /\ \A x : x \in ToSet(f[i]) <=> x \in P /\ \E j \in 1 .. i : q[j] = x
<1> DEFINE Good(i) == /\ f[i] \in Seq(S)
                      /\ \A x : x \in ToSet(f[i]) <=> x \in P /\ \E j \in 1 .. i : q[j] = x
           T == {i \in 0 .. Len(q) : ~Good(i)}
<1>1. SUFFICES ASSUME T # {} PROVE FALSE
  OBVIOUS
<1>2. PICK i \in T : \A j \in T : i <= j
  <2>1. T \in SUBSET Nat
    OBVIOUS
  <2> HIDE DEF T
  <2> QED
    BY <1>1, <2>1, Smallest
<1>3. i \in 0 .. Len(q) /\ ~Good(i)
  BY <1>2
<1>4. i # 0
  <2>1. f[0] = <<>>
    BY PicksUnfold
  <2>2. Good(0)
    BY <2>1 DEF ToSet
  <2> HIDE DEF Good
  <2> QED
    BY <1>3, <2>2
<1>5. i - 1 \in 0 .. Len(q) /\ i - 1 \notin T /\ i \in 1 .. Len(q)
  <2> HIDE DEF T, Good
  <2> QED
    BY <1>2, <1>3, <1>4
<1>6. Good(i - 1)
  <2> HIDE DEF Good
  <2> QED
    BY <1>5
<1>7. f[i] = IF q[i] \in P THEN Append(f[i - 1], q[i]) ELSE f[i - 1]
  BY <1>5, PicksUnfold
<1>8. q[i] \in S /\ f[i - 1] \in Seq(S)
  BY <1>5, <1>6
<1>9. /\ Append(f[i - 1], q[i]) \in Seq(S)
      /\ \A x : x \in ToSet(Append(f[i - 1], q[i])) <=> x \in ToSet(f[i - 1]) \/ x = q[i]
  BY <1>8, AppendMembers
<1>10. \A x : (\E j \in 1 .. i : q[j] = x) <=> (\E j \in 1 .. i - 1 : q[j] = x) \/ x = q[i]
  BY <1>5
<1>11. Good(i)
  BY <1>6, <1>7, <1>8, <1>9, <1>10
<1> QED
  BY <1>3, <1>11

\* The line holds the elements of the queue that are in P, and nothing else.
LEMMA AmongType ==
    ASSUME NEW S, NEW q \in Seq(S), NEW P
    PROVE  /\ Among(q, P) \in Seq(S)
           /\ \A x : x \in ToSet(Among(q, P)) <=> x \in P /\ Occurs(x, q)
<1>1. PICK f : Picks(q, P, Len(q), f) /\ Among(q, P) = f[Len(q)]
  BY AmongPicks
<1>2. /\ f[Len(q)] \in Seq(S)
      /\ \A x : x \in ToSet(f[Len(q)]) <=> x \in P /\ \E j \in 1 .. Len(q) : q[j] = x
  BY <1>1, PicksType
<1> QED
  BY <1>1, <1>2 DEF Occurs

\* Who is not in the queue does not matter to the line.
LEMMA AmongSame ==
    ASSUME NEW S, NEW q \in Seq(S), NEW P, NEW Q,
           \A x : Occurs(x, q) => (x \in P <=> x \in Q)
    PROVE  Among(q, P) = Among(q, Q)
<1>1. PICK f : Picks(q, P, Len(q), f) /\ Among(q, P) = f[Len(q)]
  BY AmongPicks
<1>2. PICK g : Picks(q, Q, Len(q), g) /\ Among(q, Q) = g[Len(q)]
  BY AmongPicks
<1>3. \A i \in 1 .. Len(q) : q[i] \in P <=> q[i] \in Q
  BY DEF Occurs
<1>4. f[Len(q)] = g[Len(q)]
  <2> DEFINE n == Len(q)
             m == Len(q)
             r == q
  <2>1. n \in Nat /\ m \in Nat /\ n <= n /\ n <= m
    OBVIOUS
  <2>2. Picks(q, P, n, f) /\ Picks(r, Q, m, g)
    BY <1>1, <1>2
  <2>3. \A i \in 1 .. n : q[i] = r[i] /\ (q[i] \in P <=> r[i] \in Q)
    BY <1>3
  <2> HIDE DEF n, m, r
  <2>4. f[n] = g[n]
    BY ONLY <2>1, <2>2, <2>3, PicksAgree
  <2> QED
    BY <2>4 DEF n
<1> QED
  BY <1>1, <1>2, <1>4

\* Where nobody of the queue is in P, the line is empty.
LEMMA AmongNone ==
    ASSUME NEW S, NEW q \in Seq(S), NEW P, \A x : Occurs(x, q) => x \notin P
    PROVE  Among(q, P) = <<>>
<1> DEFINE a == Among(q, P)
<1>1. a \in Seq(S) /\ \A x : x \notin ToSet(a)
  BY AmongType
<1> HIDE DEF a
<1>2. \A i \in 1 .. Len(a) : a[i] \in ToSet(a)
  BY <1>1 DEF ToSet
<1>3. Len(a) = 0
  BY <1>1, <1>2
<1>4. a = <<>>
  BY <1>1, <1>3
<1> QED
  BY <1>4 DEF a

\* One more in the queue.
LEMMA AmongAppend ==
    ASSUME NEW S, NEW q \in Seq(S), NEW e \in S, NEW P
    PROVE  Among(Append(q, e), P) = IF e \in P THEN Append(Among(q, P), e) ELSE Among(q, P)
<1> DEFINE r == Append(q, e)
<1>1. /\ r \in Seq(S) /\ Len(r) = Len(q) + 1
      /\ \A i \in 1..Len(q) : r[i] = q[i]
      /\ r[Len(q) + 1] = e
  BY AppendProperties
<1> HIDE DEF r
<1>2. PICK f : Picks(q, P, Len(q), f) /\ Among(q, P) = f[Len(q)]
  BY AmongPicks
<1>3. PICK g : Picks(r, P, Len(r), g) /\ Among(r, P) = g[Len(r)]
  BY <1>1, AmongPicks
<1>4. f[Len(q)] = g[Len(q)]
  <2>1. Len(q) \in Nat /\ Len(r) \in Nat /\ Len(q) <= Len(q) /\ Len(q) <= Len(r)
    BY <1>1
  <2>2. \A i \in 1 .. Len(q) : q[i] = r[i] /\ (q[i] \in P <=> r[i] \in P)
    BY <1>1
  <2> DEFINE n == Len(q)
             m == Len(r)
  <2>3. n \in Nat /\ m \in Nat /\ n <= n /\ n <= m
    BY <2>1
  <2>4. Picks(q, P, n, f) /\ Picks(r, P, m, g)
    BY <1>2, <1>3
  <2>5. \A i \in 1 .. n : q[i] = r[i] /\ (q[i] \in P <=> r[i] \in P)
    BY <2>2
  <2> HIDE DEF n, m
  <2>6. f[n] = g[n]
    BY ONLY <2>3, <2>4, <2>5, PicksAgree
  <2> QED
    BY <2>6 DEF n
<1>5. g[Len(r)] = IF e \in P THEN Append(g[Len(q)], e) ELSE g[Len(q)]
  <2>1. Len(r) \in Nat /\ Len(r) \in 1 .. Len(r) /\ Len(r) - 1 = Len(q) /\ r[Len(r)] = e
    BY <1>1
  <2>2. g[Len(r)] = IF r[Len(r)] \in P THEN Append(g[Len(r) - 1], r[Len(r)])
                    ELSE g[Len(r) - 1]
    BY <2>1, <1>3, PicksUnfold
  <2> QED
    BY <2>1, <2>2
<1> QED
  BY <1>2, <1>3, <1>4, <1>5 DEF r

\* Picking from what was picked.
LEMMA AmongAmong ==
    ASSUME NEW S, NEW q \in Seq(S), NEW P, NEW R
    PROVE  Among(Among(q, P), R) = Among(q, P \intersect R)
<1>1. PICK f : Picks(q, P, Len(q), f) /\ Among(q, P) = f[Len(q)]
  BY AmongPicks
<1>2. PICK g : Picks(q, P \intersect R, Len(q), g) /\ Among(q, P \intersect R) = g[Len(q)]
  BY AmongPicks
<1>a. /\ f[0] = <<>>
      /\ \A i \in 1 .. Len(q) : f[i] = IF q[i] \in P THEN Append(f[i - 1], q[i]) ELSE f[i - 1]
  BY <1>1, PicksUnfold
<1>b. /\ g[0] = <<>>
      /\ \A i \in 1 .. Len(q) :
            g[i] = IF q[i] \in P \intersect R THEN Append(g[i - 1], q[i]) ELSE g[i - 1]
  <2> DEFINE B == P \intersect R
             n == Len(q)
  <2>1. n \in Nat /\ Picks(q, B, n, g)
    BY <1>2
  <2> HIDE DEF B, n
  <2> USE <2>1
  <2>2. /\ g[0] = <<>>
        /\ \A i \in 1 .. n : g[i] = IF q[i] \in B THEN Append(g[i - 1], q[i]) ELSE g[i - 1]
    BY ONLY n \in Nat, Picks(q, B, n, g), PicksUnfold
  <2> QED
    BY <2>2 DEF B, n
<1>c. \A i \in 0 .. Len(q) : f[i] \in Seq(S)
  BY <1>1, PicksType
<1>d. ASSUME NEW i \in 1 .. Len(q), Among(f[i - 1], R) = g[i - 1]
      PROVE  Among(f[i], R) = g[i]
  <2>1. f[i - 1] \in Seq(S) /\ q[i] \in S
    BY <1>c
  <2> DEFINE x == f[i - 1]
             e == q[i]
  <2>2. x \in Seq(S) /\ e \in S
    BY <2>1
  <2>3. Among(x, R) = g[i - 1]
    BY <1>d
  <2>4. f[i] = IF e \in P THEN Append(x, e) ELSE x
    BY <1>a
  <2>5. g[i] = IF e \in P \intersect R THEN Append(g[i - 1], e) ELSE g[i - 1]
    BY <1>b
  <2> HIDE DEF x, e
  <2>6. Among(Append(x, e), R) = IF e \in R THEN Append(Among(x, R), e) ELSE Among(x, R)
    BY ONLY <2>2, AmongAppend
  <2> QED
    BY <2>3, <2>4, <2>5, <2>6
<1>e. Among(f[0], R) = g[0]
  <2>1. <<>> \in Seq(S) /\ \A x : ~Occurs(x, <<>>)
    BY DEF Occurs
  <2>2. Among(<<>>, R) = <<>>
    BY ONLY <2>1, AmongNone
  <2> QED
    BY <2>2, <1>a, <1>b
<1> DEFINE T == {i \in 0 .. Len(q) : Among(f[i], R) # g[i]}
<1>3. ASSUME T # {} PROVE FALSE
  <2>1. PICK i \in T : \A j \in T : i <= j
    <3>1. T \in SUBSET Nat
      OBVIOUS
    <3> HIDE DEF T
    <3> QED
      BY <1>3, <3>1, Smallest
  <2>2. i \in 0 .. Len(q) /\ Among(f[i], R) # g[i]
    BY <2>1
  <2> HIDE DEF T
  <2>3. i \in 1 .. Len(q) /\ i - 1 \in 0 .. Len(q) /\ i - 1 \notin T
    BY <2>1, <2>2, <1>e
  <2>4. Among(f[i - 1], R) = g[i - 1]
    BY <2>3 DEF T
  <2> QED
    BY <2>2, <2>3, <2>4, <1>d
<1>4. Among(f[Len(q)], R) = g[Len(q)]
  <2>1. Len(q) \in 0 .. Len(q)
    OBVIOUS
  <2> QED
    BY <1>3, <2>1
<1> QED
  BY <1>1, <1>2, <1>4

\* The recursion of Among, as the lemmas below use it.
LEMMA AmongUnfold ==
    ASSUME NEW S, NEW q \in Seq(S), NEW P
    PROVE  \E f : /\ f[0] = <<>>
                  /\ \A i \in 1 .. Len(q) :
                        f[i] = IF q[i] \in P THEN Append(f[i - 1], q[i]) ELSE f[i - 1]
                  /\ \A i \in 0 .. Len(q) : f[i] \in Seq(S)
                  /\ Among(q, P) = f[Len(q)]
<1> DEFINE n == Len(q)
<1>1. n \in Nat
  OBVIOUS
<1>2. PICK f : Picks(q, P, n, f) /\ Among(q, P) = f[n]
  BY AmongPicks
<1>3. \A i \in 0 .. n : f[i] \in Seq(S)
  BY <1>2, PicksType
<1> HIDE DEF n
<1>p. Picks(q, P, n, f)
  BY <1>2
<1>4. /\ f[0] = <<>>
      /\ \A i \in 1 .. n : f[i] = IF q[i] \in P THEN Append(f[i - 1], q[i]) ELSE f[i - 1]
  BY ONLY <1>1, <1>p, PicksUnfold
<1> QED
  BY <1>2, <1>3, <1>4 DEF n

\* One who is in the queue but not in the line leaves the queue.
LEMMA AmongWithout ==
    ASSUME NEW S, NEW q \in Seq(S), NEW t, Occurs(t, q), NEW P, t \notin P
    PROVE  Among(Without(q, t), P) = Among(q, P)
<1> DEFINE r == Without(q, t)
<1>1. r \in Seq(S) /\ Len(r) = Len(q) - 1
  BY WithoutPlaces
<1>2. PICK k \in 1..Len(q) :
         q[k] = t /\ \A j \in 1..Len(q) - 1 : r[j] = IF j < k THEN q[j] ELSE q[j+1]
  BY ONLY q \in Seq(S), Occurs(t, q), WithoutPlaces
<1> HIDE DEF r
<1>3. PICK f : /\ f[0] = <<>>
               /\ \A i \in 1 .. Len(q) :
                     f[i] = IF q[i] \in P THEN Append(f[i - 1], q[i]) ELSE f[i - 1]
               /\ Among(q, P) = f[Len(q)]
  BY AmongUnfold
<1>4. PICK g : /\ g[0] = <<>>
               /\ \A i \in 1 .. Len(r) :
                     g[i] = IF r[i] \in P THEN Append(g[i - 1], r[i]) ELSE g[i - 1]
               /\ Among(r, P) = g[Len(r)]
  BY <1>1, AmongUnfold
<1>5. f[k] = f[k - 1]
  BY <1>2, <1>3
<1> DEFINE At(j) == IF j < k THEN f[j] ELSE f[j + 1]
           T == {j \in 0 .. Len(r) : g[j] # At(j)}
<1>6. ASSUME T # {} PROVE FALSE
  <2>1. PICK j \in T : \A i \in T : j <= i
    <3>1. T \in SUBSET Nat
      OBVIOUS
    <3> HIDE DEF T
    <3> QED
      BY <1>6, <3>1, Smallest
  <2>2. j \in 0 .. Len(r) /\ g[j] # At(j)
    BY <2>1
  <2>3. j # 0
    BY <2>2, <1>2, <1>3, <1>4
  <2>4. j \in 1 .. Len(r) /\ j - 1 \in 0 .. Len(r) /\ j - 1 \notin T
    <3> HIDE DEF T, At
    <3> QED
      BY <2>1, <2>2, <2>3, <1>1
  <2>5. g[j - 1] = At(j - 1)
    <3> HIDE DEF At
    <3> QED
      BY <2>4
  <2> HIDE DEF T
  <2>6. g[j] = IF r[j] \in P THEN Append(g[j - 1], r[j]) ELSE g[j - 1]
    BY <2>4, <1>4
  <2>7. CASE j < k
    <3>1. r[j] = q[j] /\ g[j - 1] = f[j - 1] /\ j \in 1 .. Len(q)
      BY <2>7, <2>4, <2>5, <1>1, <1>2
    <3>2. f[j] = IF q[j] \in P THEN Append(f[j - 1], q[j]) ELSE f[j - 1]
      BY <3>1, <1>3
    <3> QED
      BY <2>2, <2>6, <2>7, <3>1, <3>2
  <2>8. CASE ~ (j < k)
    <3>1. r[j] = q[j + 1] /\ j + 1 \in 1 .. Len(q) /\ (j + 1) - 1 = j
      BY <2>8, <2>4, <1>1, <1>2
    <3>2. g[j - 1] = f[j]
      <4>1. CASE j = k
        BY <4>1, <2>4, <2>5, <1>2, <1>5
      <4>2. CASE j # k
        <5>1. ~ (j - 1 < k) /\ (j - 1) + 1 = j
          BY <4>2, <2>4, <2>8, <1>1, <1>2
        <5> QED
          BY <5>1, <2>5
      <4> QED
        BY <4>1, <4>2
    <3>3. f[j + 1] = IF q[j + 1] \in P THEN Append(f[(j + 1) - 1], q[j + 1]) ELSE f[(j + 1) - 1]
      BY <3>1, <1>3
    <3> QED
      BY <2>2, <2>6, <2>8, <3>1, <3>2, <3>3
  <2> QED
    BY <2>7, <2>8
<1>7. g[Len(r)] = At(Len(r))
  <2>1. Len(r) \in 0 .. Len(r)
    BY <1>1
  <2> HIDE DEF At
  <2> QED
    BY <1>6, <2>1
<1>8. At(Len(r)) = f[Len(q)]
  <2>1. CASE Len(r) < k
    <3>1. k = Len(q) /\ Len(r) = k - 1
      BY <2>1, <1>1, <1>2
    <3> QED
      BY <2>1, <3>1, <1>5
  <2>2. CASE ~ (Len(r) < k)
    BY <2>2, <1>1
  <2> QED
    BY <2>1, <2>2
<1> QED
  BY <1>3, <1>4, <1>7, <1>8 DEF r

\* The first of the queue, when in the line, is the first of the line, and leaves both.
LEMMA AmongHead ==
    ASSUME NEW S, NEW q \in Seq(S), q # <<>>, NEW P, q[1] \in P
    PROVE  /\ Among(q, P) # <<>>
           /\ Head(Among(q, P)) = q[1]
           /\ Among(Tail(q), P) = Tail(Among(q, P))
<1> DEFINE r == Tail(q)
<1>1. /\ r \in Seq(S) /\ Len(r) = Len(q) - 1 /\ Len(q) \in Nat \ {0} /\ q[1] \in S
      /\ \A i \in 1..Len(r) : r[i] = q[i + 1]
  BY HeadTailProperties
<1> HIDE DEF r
<1>3. PICK f : /\ f[0] = <<>>
               /\ \A i \in 1 .. Len(q) :
                     f[i] = IF q[i] \in P THEN Append(f[i - 1], q[i]) ELSE f[i - 1]
               /\ \A i \in 0 .. Len(q) : f[i] \in Seq(S)
               /\ Among(q, P) = f[Len(q)]
  BY AmongUnfold
<1>4. PICK g : /\ g[0] = <<>>
               /\ \A i \in 1 .. Len(r) :
                     g[i] = IF r[i] \in P THEN Append(g[i - 1], r[i]) ELSE g[i - 1]
               /\ Among(r, P) = g[Len(r)]
  BY <1>1, AmongUnfold
<1> DEFINE Good(j) == f[j + 1] # <<>> /\ Head(f[j + 1]) = q[1] /\ Tail(f[j + 1]) = g[j]
           T == {j \in 0 .. Len(r) : ~Good(j)}
<1>a. ASSUME NEW x \in Seq(S), x # <<>>, NEW e \in S
      PROVE  /\ Append(x, e) # <<>> /\ Head(Append(x, e)) = Head(x)
             /\ Tail(Append(x, e)) = Append(Tail(x), e)
  BY <1>a
<1>5. Good(0)
  <2>1. f[1] = Append(<<>>, q[1])
    <3>1. 1 \in 1 .. Len(q) /\ 1 - 1 = 0
      BY <1>1
    <3>2. f[1] = IF q[1] \in P THEN Append(f[1 - 1], q[1]) ELSE f[1 - 1]
      BY <3>1, <1>3
    <3> QED
      BY <3>1, <3>2, <1>3
  <2>2. f[1] = <<q[1]>>
    BY <2>1
  <2>3. f[1] # <<>> /\ Head(f[1]) = q[1] /\ Tail(f[1]) = <<>> /\ 0 + 1 = 1
    BY <2>2, <1>1
  <2> QED
    BY <2>3, <1>4
<1>6. ASSUME T # {} PROVE FALSE
  <2>1. PICK j \in T : \A i \in T : j <= i
    <3>1. T \in SUBSET Nat
      OBVIOUS
    <3> HIDE DEF T
    <3> QED
      BY <1>6, <3>1, Smallest
  <2>2. j \in 0 .. Len(r) /\ ~Good(j)
    BY <2>1
  <2>4. j \in 1 .. Len(r) /\ j - 1 \in 0 .. Len(r) /\ j - 1 \notin T
    <3> HIDE DEF T, Good
    <3> QED
      BY <2>1, <2>2, <1>1, <1>5
  <2>5. Good(j - 1)
    <3> HIDE DEF Good
    <3> QED
      BY <2>4
  <2> HIDE DEF T
  <2>6. /\ r[j] = q[j + 1] /\ j + 1 \in 1 .. Len(q) /\ (j + 1) - 1 = j /\ (j - 1) + 1 = j
        /\ j \in 0 .. Len(q)
    BY <2>4, <1>1
  <2>7. g[j] = IF q[j + 1] \in P THEN Append(g[j - 1], q[j + 1]) ELSE g[j - 1]
    BY <2>4, <2>6, <1>4
  <2>8. f[j + 1] = IF q[j + 1] \in P THEN Append(f[j], q[j + 1]) ELSE f[j]
    BY <2>6, <1>3
  <2>9. f[j] # <<>> /\ Head(f[j]) = q[1] /\ Tail(f[j]) = g[j - 1] /\ f[j] \in Seq(S)
    BY <2>5, <2>6, <1>3
  <2>10. q[j + 1] \in S
    BY <2>6
  <2>11. CASE q[j + 1] \in P
    <3> DEFINE x == f[j]
               e == q[j + 1]
    <3>1. x \in Seq(S) /\ x # <<>> /\ e \in S
      BY <2>9, <2>10
    <3>2. f[j + 1] = Append(x, e) /\ g[j] = Append(Tail(x), e) /\ Head(x) = q[1]
      BY <2>7, <2>8, <2>9, <2>11
    <3>3. ~ (f[j + 1] # <<>> /\ Head(f[j + 1]) = q[1] /\ Tail(f[j + 1]) = g[j])
      BY <2>2
    <3> HIDE DEF x, e
    <3>4. /\ Append(x, e) # <<>> /\ Head(Append(x, e)) = Head(x)
          /\ Tail(Append(x, e)) = Append(Tail(x), e)
      BY <3>1, <1>a
    <3> QED
      BY <3>2, <3>3, <3>4
  <2>12. CASE q[j + 1] \notin P
    BY <2>2, <2>7, <2>8, <2>9, <2>12
  <2> QED
    BY <2>11, <2>12
<1>7. Good(Len(r))
  <2>1. Len(r) \in 0 .. Len(r)
    BY <1>1
  <2> HIDE DEF Good
  <2> QED
    BY <1>6, <2>1
<1>8. Len(r) + 1 = Len(q)
  BY <1>1
<1> QED
  BY <1>3, <1>4, <1>7, <1>8 DEF r

\* The first of the queue resumes.
LEMMA AmongWithoutHead ==
    ASSUME NEW S, NEW q \in Seq(S), q # <<>>, Distinct(q)
    PROVE  Without(q, q[1]) = Tail(q)
<1> DEFINE t == q[1]
           r == Without(q, t)
           u == Tail(q)
<1>1. Occurs(t, q) /\ 1 \in 1 .. Len(q)
  BY DEF Occurs
<1>2. r \in Seq(S) /\ Len(r) = Len(q) - 1
  BY <1>1, WithoutPlaces
<1>3. PICK k \in 1..Len(q) :
         q[k] = t /\ \A j \in 1..Len(q) - 1 : r[j] = IF j < k THEN q[j] ELSE q[j+1]
  BY <1>1, WithoutPlaces
<1>4. k = 1
  BY <1>1, <1>3 DEF Distinct
<1>5. /\ u \in Seq(S) /\ Len(u) = Len(q) - 1
      /\ \A i \in 1..Len(u) : u[i] = q[i + 1]
  BY HeadTailProperties
<1> HIDE DEF r, u, t
<1>6. \A j \in 1 .. Len(q) - 1 : r[j] = u[j]
  BY <1>3, <1>4, <1>5
<1>7. r = u
  BY <1>2, <1>5, <1>6, SeqEqual
<1> QED
  BY <1>7 DEF r, u, t

-----------------------------------------------------------------------------
(* The gate implements FifoTurns *)

\* The task in whose session a lock is in force.
LEMMA LockOfSession ==
    ASSUME IInv, NEW s \in Sessions, NEW t \in Tasks, pc[t] # "idle"
    PROVE  /\ lk[t] \in Locks /\ sess[t] \in Sessions /\ locks[sess[t]] = lk[t]
           /\ lk[t] = locks[s] <=> sess[t] = s
<1>1. lk[t] \in Locks /\ sess[t] \in Sessions /\ locks[sess[t]] = lk[t]
  BY DEF IInv, Placed
<1>2. lk[t] = locks[s] => sess[t] = s
  BY <1>1, GateAssumption DEF IInv, OwnLocks
<1> QED
  BY <1>1, <1>2

\* The queue of a session holds the tasks that wait in it.
LEMMA QueueOfSession ==
    ASSUME IInv, NEW s \in Sessions, locks[s] # NoLock, NEW x
    PROVE  /\ locks[s] \in Locks /\ waitq[locks[s]] \in Seq(Tasks)
           /\ Occurs(x, waitq[locks[s]]) <=> x \in Tasks /\ Waiting(x) /\ sess[x] = s
<1>1. locks[s] \in Locks /\ waitq[locks[s]] \in Seq(Tasks)
  BY DEF IInv, TypeOK, LockTypeOK
<1>2. Occurs(x, waitq[locks[s]]) => x \in Tasks
  BY <1>1 DEF Occurs
<1>3. ASSUME x \in Tasks
      PROVE  Occurs(x, waitq[locks[s]]) <=> Waiting(x) /\ sess[x] = s
  <2>1. Occurs(x, waitq[locks[s]]) <=> Waiting(x) /\ lk[x] = locks[s]
    BY <1>1, <1>3 DEF IInv, QueuesHoldWaiters
  <2>2. Waiting(x) => pc[x] # "idle"
    BY DEF Waiting
  <2> QED
    BY <1>3, <2>1, <2>2, LockOfSession
<1> QED
  BY <1>1, <1>2, <1>3

\* The line of a session: the tasks that wait in it and were not cancelled.
LEMMA LineFacts ==
    ASSUME IInv, NEW s \in Sessions
    PROVE  /\ LineOf(s) \in Seq(Tasks)
           /\ \A x : x \in ToSet(LineOf(s)) <=> x \in InLine /\ Waiting(x) /\ sess[x] = s
<1>1. CASE locks[s] = NoLock
  <2>1. LineOf(s) = <<>>
    BY <1>1 DEF LineOf
  <2>2. ASSUME NEW x \in Tasks, Waiting(x), sess[x] = s PROVE FALSE
    BY <1>1, <2>2, LockOfSession, GateAssumption DEF Waiting
  <2> QED
    BY <2>1, <2>2 DEF ToSet, InLine
<1>2. CASE locks[s] # NoLock
  <2>1. LineOf(s) = Among(waitq[locks[s]], InLine)
    BY <1>2 DEF LineOf
  <2>2. waitq[locks[s]] \in Seq(Tasks)
    BY <1>2, QueueOfSession
  <2>3. /\ LineOf(s) \in Seq(Tasks)
        /\ \A x : x \in ToSet(LineOf(s)) <=> x \in InLine /\ Occurs(x, waitq[locks[s]])
    BY <2>1, <2>2, AmongType
  <2> QED
    BY <1>2, <2>3, QueueOfSession DEF InLine
<1> QED
  BY <1>1, <1>2

\* HolderOf depends on the turns of the session only.
LEMMA HolderKept ==
    ASSUME NEW r \in Sessions, InTurn(r)' = InTurn(r)
    PROVE  HolderOf(r)' = HolderOf(r)
<1> DEFINE Pick(S) == IF S = {} THEN NoTask ELSE CHOOSE t \in S : TRUE
<1>1. HolderOf(r) = Pick(InTurn(r))
  BY DEF HolderOf
<1>2. HolderOf(r)' = Pick(InTurn(r)')
  BY DEF HolderOf
<1> HIDE DEF Pick
<1> QED
  BY <1>1, <1>2

\* The holder of a session is the task whose turn it is.
LEMMA HolderFacts ==
    ASSUME IInv, NEW s \in Sessions
    PROVE  /\ InTurn(s) = {} => HolderOf(s) = NoTask
           /\ \A t \in InTurn(s) : HolderOf(s) = t /\ InTurn(s) = {t}
           /\ \A t \in Tasks : HolderOf(s) = t <=> t \in InTurn(s)
<1>1. InTurn(s) = {} => HolderOf(s) = NoTask
  BY DEF HolderOf
<1>2. ASSUME NEW t \in InTurn(s) PROVE InTurn(s) = {t}
  <2>1. ASSUME NEW x \in InTurn(s) PROVE x = t
    <3>1. /\ x \in Tasks /\ pc[x] = "turn" /\ sess[x] = s
          /\ t \in Tasks /\ pc[t] = "turn" /\ sess[t] = s
      BY <1>2, <2>1 DEF InTurn
    <3>2. lk[x] = lk[t]
      BY <3>1 DEF IInv, Placed
    <3> QED
      BY <3>1, <3>2 DEF IInv, TurnsHoldLocks
  <2> QED
    BY <1>2, <2>1
<1>3. ASSUME NEW t \in InTurn(s) PROVE HolderOf(s) = t
  <2>1. InTurn(s) = {t}
    BY <1>2
  <2>2. HolderOf(s) = CHOOSE x \in {t} : TRUE
    BY <2>1 DEF HolderOf
  <2> QED
    BY <2>2
<1>4. ASSUME NEW t \in Tasks, HolderOf(s) = t PROVE t \in InTurn(s)
  BY <1>1, <1>3, <1>4, GateAssumption
<1> QED
  BY <1>1, <1>2, <1>3, <1>4

\* A task outside the gate is in no line and has no turn.
LEMMA AbsentFacts ==
    ASSUME IInv, NEW t \in Tasks, pc[t] = "idle"
    PROVE  Fifo!Absent(t)
<1>1. ASSUME NEW s \in Sessions PROVE HolderOf(s) # t /\ t \notin ToSet(LineOf(s))
  BY HolderFacts, LineFacts DEF InTurn, Waiting
<1> QED
  BY <1>1 DEF Fifo!Absent, Fifo!ToSet, ToSet

\* A session whose lock is not set, or that has none, has no turn.
LEMMA NobodysTurn ==
    ASSUME IInv, NEW s \in Sessions, locks[s] \notin locked
    PROVE  InTurn(s) = {} /\ HolderOf(s) = NoTask
<1>1. ASSUME NEW t \in InTurn(s) PROVE FALSE
  BY <1>1 DEF InTurn, IInv, TurnsHoldLocks, Placed
<1> QED
  BY <1>1, HolderFacts

\* The line of a session whose queue does not change.
LEMMA LineKept ==
    ASSUME IInv, NEW r \in Sessions, locks'[r] = locks[r],
           locks[r] # NoLock => waitq'[locks[r]] = waitq[locks[r]],
           \A x \in Tasks : Waiting(x) /\ sess[x] = r => (x \in InLine' <=> x \in InLine)
    PROVE  LineOf(r)' = LineOf(r)
<1>1. CASE locks[r] = NoLock
  BY <1>1 DEF LineOf
<1>2. CASE locks[r] # NoLock
  <2> DEFINE q == waitq[locks[r]]
             P == InLine
             Q == InLine'
  <2>1. q \in Seq(Tasks) /\ \A x : Occurs(x, q) => (x \in P <=> x \in Q)
    BY <1>2, QueueOfSession
  <2>2. LineOf(r) = Among(q, P)
    BY <1>2 DEF LineOf
  <2>3. LineOf(r)' = Among(q, Q)
    BY <1>2 DEF LineOf
  <2> HIDE DEF q, P, Q
  <2>4. Among(q, P) = Among(q, Q)
    BY <2>1, AmongSame
  <2> QED
    BY <2>2, <2>3, <2>4
<1> QED
  BY <1>1, <1>2

\* The operators of FifoTurns on sequences are those of Queues.
LEMMA SameOperators ==
    ASSUME NEW q, NEW P
    PROVE  Fifo!Among(q, P) = Among(q, P) /\ Fifo!ToSet(q) = ToSet(q)
BY DEF Fifo!Among, Among, Fifo!ToSet, ToSet

\* acquire() that does not suspend starts a turn of FifoTurns.
LEMMA StartRefined ==
    ASSUME IInv, IInv', NEW t \in Tasks, NEW s \in Sessions, NEW l \in Locks,
           AcquireFree(t, s, l)
    PROVE  Fifo!Start(t, s)
<1>1. /\ pc[t] = "idle" /\ l \in LockFor(s)
      /\ locks' = [locks EXCEPT ![s] = l]
      /\ pc' = [pc EXCEPT ![t] = "turn"] /\ sess' = [sess EXCEPT ![t] = s]
      /\ waitq' = waitq /\ fut' = fut
      /\ l \notin locked
      /\ \A i \in DOMAIN waitq[l] : fut[waitq[l][i]] = "cancelled"
  BY DEF AcquireFree, EnterAcquire, TakeNow, CanTakeNow
<1>2. locks[s] \in {NoLock, l}
  BY <1>1 DEF LockFor
<1>3. Fifo!Absent(t)
  BY <1>1, AbsentFacts
<1>4. HolderOf(s) = NoTask /\ InTurn(s) = {}
  <2>1. locks[s] \notin locked
    BY <1>1, <1>2, GateAssumption DEF IInv, TypeOK, LockTypeOK
  <2> QED
    BY <2>1, NobodysTurn
<1>5. Among(waitq[l], InLine) = <<>>
  <2>1. waitq[l] \in Seq(Tasks)
    BY DEF IInv, TypeOK, LockTypeOK
  <2>2. \A x : Occurs(x, waitq[l]) => x \notin InLine
    BY <1>1 DEF Occurs, InLine
  <2> QED
    BY <2>1, <2>2, AmongNone
<1>6. LineOf(s) = <<>>
  BY <1>2, <1>5 DEF LineOf
<1>7. InLine' = InLine
  BY <1>1 DEF InLine
<1>8. LineOf(s)' = <<>>
  <2>1. locks'[s] = l
    BY <1>1 DEF IInv, TypeOK
  <2> QED
    BY <2>1, <1>1, <1>5, <1>7, GateAssumption DEF LineOf
<1>9. \A r \in Sessions \ {s} : LineOf(r)' = LineOf(r)
  <2> SUFFICES ASSUME NEW r \in Sessions \ {s} PROVE LineOf(r)' = LineOf(r)
    OBVIOUS
  <2>1. locks'[r] = locks[r]
    BY <1>1 DEF IInv, TypeOK
  <2> QED
    BY <2>1, <1>1, <1>7, LineKept
<1>10. \A r \in Sessions : HolderOf(r)' = IF r = s THEN t ELSE HolderOf(r)
  <2>1. \A r \in Sessions : InTurn(r)' = IF r = s THEN {t} ELSE InTurn(r)
    BY <1>1, <1>4 DEF InTurn, IInv, TypeOK, Placed
  <2>2. \A r \in Sessions \ {s} : HolderOf(r)' = HolderOf(r)
    BY <2>1, HolderKept
  <2>3. HolderOf(s)' = CHOOSE x \in {t} : TRUE
    BY <2>1 DEF HolderOf
  <2> QED
    BY <2>2, <2>3
<1> QED
  BY <1>3, <1>4, <1>6, <1>8, <1>9, <1>10 DEF Fifo!Start

\* acquire() that suspends joins the line of FifoTurns.
LEMMA JoinRefined ==
    ASSUME IInv, IInv', NEW t \in Tasks, NEW s \in Sessions, NEW l \in Locks,
           EnterAcquire(t, s, l), Suspend(t, l),
           NEW p \in {"queued", "queuedFree"}, pc' = [pc EXCEPT ![t] = p]
    PROVE  Fifo!Join(t, s)
<1>1. /\ pc[t] = "idle" /\ l \in LockFor(s)
      /\ locks' = [locks EXCEPT ![s] = l] /\ sess' = [sess EXCEPT ![t] = s]
      /\ waitq' = [waitq EXCEPT ![l] = Append(@, t)]
      /\ fut' = [fut EXCEPT ![t] = "pending"]
  BY DEF EnterAcquire, Suspend
<1>2. /\ locks[s] = NoLock => waitq[l] = <<>>
      /\ locks[s] # NoLock => locks[s] = l
  BY <1>1 DEF LockFor, NewLocks
<1>3. Fifo!Absent(t)
  BY <1>1, AbsentFacts
<1>4. waitq[l] \in Seq(Tasks) /\ ~Occurs(t, waitq[l])
  BY <1>1 DEF IInv, TypeOK, LockTypeOK, QueuesHoldWaiters, Waiting
<1>5. \A x : x \in InLine' <=> x \in InLine \/ x = t
  BY <1>1 DEF InLine, IInv, TypeOK, LockTypeOK
<1>6. LineOf(s) = Among(waitq[l], InLine)
  <2>1. Among(<<>>, InLine) = <<>>
    <3>1. <<>> \in Seq(Tasks) /\ \A x : ~Occurs(x, <<>>)
      BY DEF Occurs
    <3> QED
      BY <3>1, AmongNone
  <2> QED
    BY <2>1, <1>2 DEF LineOf
<1>7. LineOf(s)' = Append(LineOf(s), t)
  <2> DEFINE q == waitq[l]
             P == InLine
             Q == InLine'
  <2>1. locks'[s] = l /\ waitq'[l] = Append(q, t)
    BY <1>1 DEF IInv, TypeOK, LockTypeOK
  <2>2. LineOf(s)' = Among(Append(q, t), Q)
    BY <2>1, GateAssumption DEF LineOf
  <2>3. q \in Seq(Tasks) /\ t \in Q /\ \A x : Occurs(x, q) => (x \in P <=> x \in Q)
    BY <1>4, <1>5
  <2>4. LineOf(s) = Among(q, P)
    BY <1>6
  <2> HIDE DEF q, P, Q
  <2>5. Among(Append(q, t), Q) = Append(Among(q, Q), t)
    BY <2>3, AmongAppend
  <2>6. Among(q, P) = Among(q, Q)
    BY <2>3, AmongSame
  <2> QED
    BY <2>2, <2>4, <2>5, <2>6
<1>8. \A r \in Sessions \ {s} : LineOf(r)' = LineOf(r)
  <2> SUFFICES ASSUME NEW r \in Sessions \ {s} PROVE LineOf(r)' = LineOf(r)
    OBVIOUS
  <2>1. locks'[r] = locks[r] /\ locks'[s] = l
    BY <1>1 DEF IInv, TypeOK
  <2>2. locks[r] # NoLock => locks[r] # l
    BY <2>1, GateAssumption DEF IInv, OwnLocks
  <2>3. locks[r] # NoLock => waitq'[locks[r]] = waitq[locks[r]]
    BY <2>2, <1>1 DEF IInv, TypeOK, LockTypeOK
  <2>4. \A x \in Tasks : Waiting(x) /\ sess[x] = r => (x \in InLine' <=> x \in InLine)
    BY <1>1, <1>5 DEF Waiting
  <2> QED
    BY <2>1, <2>3, <2>4, LineKept
<1>9. \A r \in Sessions : HolderOf(r)' = HolderOf(r)
  <2>1. \A r \in Sessions : InTurn(r)' = InTurn(r)
    BY <1>1 DEF InTurn, IInv, TypeOK
  <2> QED
    BY <2>1, HolderKept
<1> QED
  BY <1>3, <1>7, <1>8, <1>9 DEF Fifo!Join

\* acquire() returns to the first of the line, which is granted its turn.
LEMMA GrantRefined ==
    ASSUME IInv, IInv', NEW t \in Tasks, GetTurn(t)
    PROVE  \E s \in Sessions : Fifo!Grant(s)
<1>0. PICK s \in Sessions, l \in Locks :
         s = sess[t] /\ l = lk[t] /\ locks[s] = l /\ Waiting(t)
  BY DEF GetTurn, Waiting, IInv, Placed
<1>1. /\ fut[t] = "done" /\ waitq' = [waitq EXCEPT ![l] = Without(@, t)]
      /\ fut' = [fut EXCEPT ![t] = "none"]
      /\ pc' = [pc EXCEPT ![t] = "turn"] /\ sess' = sess /\ locks' = locks
  BY <1>0 DEF GetTurn, ResumeWithLock
<1>2. l \notin locked /\ waitq[l][1] = t
  BY <1>0, <1>1 DEF IInv, OnePromise
<1>3. HolderOf(s) = NoTask /\ InTurn(s) = {}
  BY <1>0, <1>2, NobodysTurn
<1>4. waitq[l] \in Seq(Tasks) /\ Distinct(waitq[l]) /\ Occurs(t, waitq[l])
  BY <1>0 DEF IInv, TypeOK, LockTypeOK, QueuesHoldWaiters
<1>5. \A x : x \in InLine' <=> x \in InLine /\ x # t
  BY <1>1 DEF InLine, IInv, TypeOK, LockTypeOK
<1>6. LineOf(s) # <<>> /\ Head(LineOf(s)) = t /\ LineOf(s)' = Tail(LineOf(s))
  <2> DEFINE q == waitq[l]
             P == InLine
             Q == InLine'
  <2>1. waitq'[l] = Without(q, t)
    BY <1>1 DEF IInv, TypeOK, LockTypeOK
  <2>2. LineOf(s) = Among(q, P) /\ LineOf(s)' = Among(Without(q, t), Q)
    BY <2>1, <1>0, <1>1, GateAssumption DEF LineOf
  <2>3. q \in Seq(Tasks) /\ q # <<>> /\ Distinct(q) /\ q[1] = t /\ Occurs(t, q)
    BY <1>2, <1>4 DEF Occurs
  <2>4. t \in P /\ \A x : x # t => (x \in P <=> x \in Q)
    BY <1>1, <1>5 DEF InLine
  <2> HIDE DEF q, P, Q
  <2>5. Without(q, t) = Tail(q)
    BY <2>3, AmongWithoutHead
  <2>6. Tail(q) \in Seq(Tasks) /\ ~Occurs(t, Tail(q))
    <3>1. Without(q, t) \in Seq(Tasks) /\ ~Occurs(t, Without(q, t))
      BY <2>3, WithoutFacts
    <3> QED
      BY <2>5, <3>1
  <2>7. Among(Tail(q), Q) = Among(Tail(q), P)
    <3> DEFINE u == Tail(q)
    <3>1. u \in Seq(Tasks) /\ \A x : Occurs(x, u) => (x \in Q <=> x \in P)
      BY <2>4, <2>6
    <3> HIDE DEF u
    <3>2. Among(u, Q) = Among(u, P)
      BY <3>1, AmongSame
    <3> QED
      BY <3>2 DEF u
  <2>8. /\ Among(q, P) # <<>> /\ Head(Among(q, P)) = t
        /\ Among(Tail(q), P) = Tail(Among(q, P))
    <3>1. q[1] \in P
      BY <2>3, <2>4
    <3> QED
      BY <2>3, <3>1, AmongHead
  <2> QED
    BY <2>2, <2>5, <2>7, <2>8
<1>7. \A r \in Sessions \ {s} : LineOf(r)' = LineOf(r)
  <2> SUFFICES ASSUME NEW r \in Sessions \ {s} PROVE LineOf(r)' = LineOf(r)
    OBVIOUS
  <2>1. locks[r] # NoLock => locks[r] # l
    BY <1>0, GateAssumption DEF IInv, OwnLocks
  <2>2. locks[r] # NoLock => waitq'[locks[r]] = waitq[locks[r]]
    BY <2>1, <1>1 DEF IInv, TypeOK, LockTypeOK
  <2>3. \A x \in Tasks : Waiting(x) /\ sess[x] = r => (x \in InLine' <=> x \in InLine)
    BY <1>0, <1>5
  <2> QED
    BY <2>2, <2>3, <1>1, LineKept
<1>8. \A r \in Sessions : HolderOf(r)' = IF r = s THEN t ELSE HolderOf(r)
  <2>1. \A r \in Sessions : InTurn(r)' = IF r = s THEN {t} ELSE InTurn(r)
    BY <1>0, <1>1, <1>3 DEF InTurn, IInv, TypeOK
  <2>2. \A r \in Sessions \ {s} : HolderOf(r)' = HolderOf(r)
    BY <2>1, HolderKept
  <2>3. HolderOf(s)' = CHOOSE x \in {t} : TRUE
    BY <2>1 DEF HolderOf
  <2> QED
    BY <2>2, <2>3
<1> QED
  BY <1>3, <1>6, <1>7, <1>8 DEF Fifo!Grant

\* A task whose acquire() is cancelled withdraws from the line.
LEMMA WithdrawRefined ==
    ASSUME IInv, IInv', NEW t \in Tasks, Cancel(t)
    PROVE  \E s \in Sessions : Fifo!Withdraw(t, s)
<1>0. PICK s \in Sessions, l \in Locks :
         s = sess[t] /\ l = lk[t] /\ locks[s] = l /\ Waiting(t)
  BY DEF Cancel, Waiting, IInv, Placed
<1>1. /\ fut[t] \in {"pending", "done"} /\ waitq' = waitq
      /\ pc' = pc /\ sess' = sess /\ locks' = locks
      /\ fut' = [fut EXCEPT ![t] = IF @ = "pending" THEN "cancelled" ELSE "doneCancel"]
  BY DEF Cancel, CancelWait, gateVars
<1>2. \A x : x \in InLine' <=> x \in InLine /\ x # t
  BY <1>1 DEF InLine, IInv, TypeOK, LockTypeOK
<1>3. t \in ToSet(LineOf(s))
  BY <1>0, <1>1, LineFacts DEF InLine
<1>4. LineOf(s)' = Among(LineOf(s), Tasks \ {t})
  <2> DEFINE q == waitq[l]
             P == InLine
             Q == InLine'
             R == Tasks \ {t}
  <2>1. LineOf(s) = Among(q, P) /\ LineOf(s)' = Among(q, Q)
    BY <1>0, <1>1, GateAssumption DEF LineOf
  <2>2. q \in Seq(Tasks)
    BY DEF IInv, TypeOK, LockTypeOK
  <2>3. Q = P \intersect R
    BY <1>2 DEF InLine
  <2> HIDE DEF q, P, Q, R
  <2>4. Among(Among(q, P), R) = Among(q, P \intersect R)
    BY <2>2, AmongAmong
  <2>5. LineOf(s)' = Among(LineOf(s), R)
    BY <2>1, <2>3, <2>4
  <2> QED
    BY <2>5 DEF R
<1>5. \A r \in Sessions \ {s} : LineOf(r)' = LineOf(r)
  BY <1>0, <1>1, <1>2, LineKept
<1>6. \A r \in Sessions : HolderOf(r)' = HolderOf(r)
  <2>1. \A r \in Sessions : InTurn(r)' = InTurn(r)
    BY <1>1 DEF InTurn
  <2> QED
    BY <2>1, HolderKept
<1>7. [r \in Sessions |-> LineOf(r)]'
        = [[r \in Sessions |-> LineOf(r)] EXCEPT ![s] = Fifo!Among(@, Tasks \ {t})]
  BY <1>4, <1>5, SameOperators
<1>8. t \in Fifo!ToSet(LineOf(s))
  BY <1>3, SameOperators
<1> QED
  BY <1>6, <1>7, <1>8 DEF Fifo!Withdraw

\* Leaving the gate, with the lock or after a cancellation, changes no line: not by the
\* wake-up, and not by dropping the session's entry in _locks.
LEMMA LeaveKeepsLines ==
    ASSUME IInv, IInv', NEW t \in Tasks, NEW s \in Sessions, s = sess[t], pc[t] # "idle",
           \/ locks' = locks
           \/ locks' = [locks EXCEPT ![s] = NoLock],
           t \notin InLine, InLine' = InLine,
           \/ waitq' = waitq
           \/ Waiting(t) /\ waitq' = [waitq EXCEPT ![lk[t]] = Without(@, t)],
           NEW r \in Sessions
    PROVE  LineOf(r)' = LineOf(r)
<1>0. PICK l \in Locks : l = lk[t] /\ locks[s] = l
  BY LockOfSession
<1>1. CASE r # s
  <2>1. locks'[r] = locks[r]
    BY <1>1 DEF IInv, TypeOK
  <2>2. locks[r] # NoLock => locks[r] # l
    BY <1>0, <1>1 DEF IInv, OwnLocks
  <2>3. locks[r] # NoLock => waitq'[locks[r]] = waitq[locks[r]]
    BY <2>2, <1>0 DEF IInv, TypeOK, LockTypeOK
  <2> QED
    BY <2>1, <2>3, LineKept
<1>2. CASE r = s
  <2> DEFINE q == waitq[l]
             u == waitq'[l]
             P == InLine
  <2>1. LineOf(s) = Among(q, P)
    BY <1>0, GateAssumption DEF LineOf
  <2>2. q \in Seq(Tasks) /\ u \in Seq(Tasks)
    BY DEF IInv, TypeOK, LockTypeOK
  <2>3. Among(u, P) = Among(q, P)
    <3>1. CASE waitq' = waitq
      BY <3>1
    <3>2. CASE Waiting(t) /\ waitq' = [waitq EXCEPT ![lk[t]] = Without(@, t)]
      <4>1. Occurs(t, q) /\ t \notin P
        BY <3>2, <1>0 DEF IInv, QueuesHoldWaiters
      <4>2. u = Without(q, t)
        BY <3>2, <1>0 DEF IInv, TypeOK, LockTypeOK
      <4> HIDE DEF q, u, P
      <4>3. Among(Without(q, t), P) = Among(q, P)
        BY <2>2, <4>1, AmongWithout
      <4> QED
        BY <4>2, <4>3
    <3> QED
      BY <3>1, <3>2
  <2>4. CASE locks'[s] = l
    <3>1. LineOf(s)' = Among(u, P)
      BY <2>4, GateAssumption DEF LineOf
    <3> QED
      BY <3>1, <2>1, <2>3, <1>2
  <2>5. CASE locks'[s] = NoLock
    <3>1. LineOf(s)' = <<>>
      BY <2>5 DEF LineOf
    <3>2. ASSUME NEW x, Occurs(x, u) PROVE FALSE
      <4>1. x \in Tasks
        BY <2>2, <3>2 DEF Occurs
      <4>2. pc'[x] # "idle" /\ lk'[x] = l
        BY <3>2, <4>1 DEF IInv, QueuesHoldWaiters, Waiting
      <4>3. sess'[x] \in Sessions /\ locks'[sess'[x]] = l
        BY <4>1, <4>2 DEF IInv, Placed
      <4>4. sess'[x] # s
        BY <4>3, <2>5, GateAssumption
      <4>5. locks[sess'[x]] = l
        BY <4>3, <4>4 DEF IInv, TypeOK
      <4> QED
        BY <4>3, <4>4, <4>5, <1>0, GateAssumption DEF IInv, OwnLocks
    <3>3. Among(u, P) = <<>>
      <4> HIDE DEF u, P
      <4> QED
        BY <2>2, <3>2, AmongNone
    <3> QED
      BY <3>1, <3>3, <2>1, <2>3, <1>2
  <2>6. locks'[s] = l \/ locks'[s] = NoLock
    BY <1>0 DEF IInv, TypeOK
  <2> QED
    BY <2>4, <2>5, <2>6
<1> QED
  BY <1>1, <1>2

\* Waking the first of a FIFO changes no line: it stays until it resumes.
LEMMA WakeKeepsLine ==
    ASSUME NEW q \in Seq(Tasks), NEW f \in [Tasks -> FutureStates], NEW x \in Tasks
    PROVE  WakeFirst(q, f)[x] \in {"pending", "done"} <=> f[x] \in {"pending", "done"}
BY WakeFirstFacts

\* A cancelled task that resumes has left its line before.
LEMMA ResumeRefined ==
    ASSUME IInv, IInv', NEW t \in Tasks, CancelledQueued(t) \/ CancelledQueuedFree(t)
    PROVE  \A r \in Sessions : LineOf(r)' = LineOf(r) /\ HolderOf(r)' = HolderOf(r)
<1>0. PICK s \in Sessions, l \in Locks :
         s = sess[t] /\ l = lk[t] /\ locks[s] = l /\ Waiting(t) /\ pc[t] # "idle"
  BY DEF CancelledQueued, CancelledQueuedFree, Waiting, IInv, Placed
<1>1. /\ ResumeWithCancel(t, l) /\ LeaveGate(t)
      /\ locks' = locks \/ locks' = [locks EXCEPT ![s] = NoLock]
  BY <1>0 DEF CancelledQueued, CancelledQueuedFree, CountAndCleanup
<1> DEFINE f == [fut EXCEPT ![t] = "none"]
<1>2. /\ fut[t] \in {"cancelled", "doneCancel"}
      /\ waitq' = [waitq EXCEPT ![l] = Without(@, t)]
      /\ fut' = IF l \in locked THEN f ELSE WakeFirst(waitq'[l], f)
  BY <1>1 DEF ResumeWithCancel
<1>3. f \in [Tasks -> FutureStates] /\ waitq'[l] \in Seq(Tasks)
  BY DEF IInv, TypeOK, LockTypeOK, FutureStates
<1>4. \A x \in Tasks : f[x] \in {"pending", "done"} <=> fut[x] \in {"pending", "done"}
  BY <1>2 DEF IInv, TypeOK, LockTypeOK
<1> HIDE DEF f
<1>5. \A x \in Tasks : fut'[x] \in {"pending", "done"} <=> fut[x] \in {"pending", "done"}
  <2>1. CASE l \in locked
    BY <2>1, <1>2, <1>4
  <2>2. CASE l \notin locked
    <3>1. fut' = WakeFirst(waitq'[l], f)
      BY <2>2, <1>2
    <3>2. \A x \in Tasks :
             WakeFirst(waitq'[l], f)[x] \in {"pending", "done"} <=> f[x] \in {"pending", "done"}
      BY <1>3, WakeKeepsLine
    <3> QED
      BY <3>1, <3>2, <1>4
  <2> QED
    BY <2>1, <2>2
<1>6. InLine' = InLine /\ t \notin InLine
  BY <1>2, <1>5 DEF InLine
<1>7. ASSUME NEW r \in Sessions PROVE LineOf(r)' = LineOf(r)
  BY <1>0, <1>1, <1>2, <1>6, LeaveKeepsLines
<1>8. ASSUME NEW r \in Sessions PROVE HolderOf(r)' = HolderOf(r)
  <2>1. InTurn(r)' = InTurn(r)
    BY <1>0, <1>1 DEF InTurn, LeaveGate, Waiting, IInv, TypeOK
  <2> QED
    BY <2>1, HolderKept
<1> QED
  BY <1>7, <1>8

\* release() ends the turn of FifoTurns; whoever it wakes is still in the line.
LEMMA FinishRefined ==
    ASSUME IInv, IInv', NEW t \in Tasks, Release(t)
    PROVE  \E s \in Sessions : Fifo!Finish(s)
<1>0. PICK s \in Sessions, l \in Locks : s = sess[t] /\ l = lk[t] /\ locks[s] = l
  BY DEF Release, IInv, Placed
<1>1. pc[t] = "turn" /\ LeaveGate(t) /\ Busy(s)
  BY <1>0 DEF Release, Busy, IInv, TurnsHoldLocks
<1>2. /\ waitq' = waitq /\ fut' = WakeFirst(waitq[l], fut)
      /\ locks' = locks \/ locks' = [locks EXCEPT ![s] = NoLock]
  BY <1>0, <1>1 DEF Release, ReleaseLock, CountAndCleanup
<1>3. waitq[l] \in Seq(Tasks) /\ fut \in [Tasks -> FutureStates]
  BY DEF IInv, TypeOK, LockTypeOK
<1>4. \A x \in Tasks : fut'[x] \in {"pending", "done"} <=> fut[x] \in {"pending", "done"}
  BY <1>2, <1>3, WakeKeepsLine
<1>5. InLine' = InLine /\ t \notin InLine
  <2>1. fut[t] = "none"
    BY <1>1 DEF IInv, QueuesHoldWaiters, Waiting
  <2> QED
    BY <2>1, <1>4 DEF InLine
<1>6. \A r \in Sessions : LineOf(r)' = LineOf(r)
  BY <1>0, <1>1, <1>2, <1>5, LeaveKeepsLines
<1>7. t \in InTurn(s)
  BY <1>0, <1>1 DEF InTurn
<1>8. HolderOf(s) = t /\ InTurn(s) = {t}
  BY <1>7, HolderFacts
<1>9. \A r \in Sessions : InTurn(r)' = IF r = s THEN {} ELSE InTurn(r)
  BY <1>0, <1>1, <1>8, GateAssumption DEF InTurn, LeaveGate, IInv, TypeOK
<1>10. \A r \in Sessions : HolderOf(r)' = IF r = s THEN NoTask ELSE HolderOf(r)
  <2>1. HolderOf(s)' = NoTask
    BY <1>9 DEF HolderOf
  <2> QED
    BY <2>1, <1>9, HolderKept
<1> QED
  BY <1>6, <1>8, <1>10, GateAssumption DEF Fifo!Finish

\* Every step of the gate is one of FifoTurns, or changes neither line nor holder.
LEMMA StepRefined ==
    ASSUME IInv, IInv', [Next]_vars
    PROVE  [Fifo!Next]_(Fifo!vars)
<1>1. ASSUME NEW t \in Tasks, Acquire(t) PROVE Fifo!Next
  <2>0. PICK s \in Sessions, l \in Locks :
           AcquireFree(t, s, l) \/ AcquirePromised(t, s, l) \/ AcquireBusy(t, s, l)
    BY <1>1 DEF Acquire
  <2>1. CASE AcquireFree(t, s, l)
    BY <2>1, StartRefined DEF Fifo!Next
  <2>2. CASE AcquirePromised(t, s, l)
    <3>1. Fifo!Join(t, s)
      BY <2>2, JoinRefined DEF AcquirePromised
    <3> QED
      BY <3>1 DEF Fifo!Next
  <2>3. CASE AcquireBusy(t, s, l)
    <3>1. Fifo!Join(t, s)
      BY <2>3, JoinRefined DEF AcquireBusy
    <3> QED
      BY <3>1 DEF Fifo!Next
  <2> QED
    BY <2>0, <2>1, <2>2, <2>3
<1>2. ASSUME NEW t \in Tasks, Cancel(t) PROVE Fifo!Next
  BY <1>2, WithdrawRefined DEF Fifo!Next
<1>3. ASSUME NEW t \in Tasks, Progress(t) PROVE Fifo!Next \/ UNCHANGED Fifo!vars
  <2>1. CASE GetTurn(t)
    BY <2>1, GrantRefined DEF Fifo!Next
  <2>2. CASE CancelledQueued(t) \/ CancelledQueuedFree(t)
    <3>1. \A r \in Sessions : LineOf(r)' = LineOf(r) /\ HolderOf(r)' = HolderOf(r)
      BY <2>2, ResumeRefined
    <3> QED
      BY <3>1 DEF Fifo!vars
  <2>3. CASE Release(t)
    BY <2>3, FinishRefined DEF Fifo!Next
  <2> QED
    BY <1>3, <2>1, <2>2, <2>3 DEF Progress
<1>4. CASE UNCHANGED vars
  <2>1. \A r \in Sessions : LineOf(r)' = LineOf(r)
    BY <1>4 DEF vars, LineOf, InLine
  <2>2. \A r \in Sessions : InTurn(r)' = InTurn(r)
    BY <1>4 DEF vars, InTurn
  <2>3. \A r \in Sessions : HolderOf(r)' = HolderOf(r)
    BY <2>2, HolderKept
  <2> QED
    BY <2>1, <2>3 DEF Fifo!vars
<1> QED
  BY <1>1, <1>2, <1>3, <1>4 DEF Next

\* The gate, with locks and futures, wake-ups and cancellations, is FifoTurns: a session's
\* turns are granted one at a time, in the order in which they were asked for.
THEOREM GateImplementsFifo == Spec => Fifo!Spec
<1>1. Init => Fifo!Init
  <2> SUFFICES ASSUME Init PROVE Fifo!Init
    OBVIOUS
  <2>1. IInv
    BY InitIInv
  <2>2. \A s \in Sessions : LineOf(s) = <<>>
    BY DEF Init, LineOf
  <2>3. \A s \in Sessions : InTurn(s) = {}
    BY DEF Init, InTurn
  <2>4. \A s \in Sessions : HolderOf(s) = NoTask
    BY <2>3 DEF HolderOf
  <2> QED
    BY <2>2, <2>4 DEF Fifo!Init
<1>2. IInv /\ IInv' /\ [Next]_vars => [Fifo!Next]_(Fifo!vars)
  BY StepRefined
<1> QED
  BY <1>1, <1>2, Inductive, PTL DEF Spec, Fifo!Spec

=============================================================================
