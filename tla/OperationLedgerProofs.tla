----------------------- MODULE OperationLedgerProofs -----------------------
(***************************************************************************)
(* The ledger keeps its promises for every set of operations, invocations  *)
(* and callers and for every retention limit: type correctness, one body   *)
(* per operation, the retention of what is in flight, no unsafe repeat,    *)
(* and that it implements AtMostOnce.                                      *)
(***************************************************************************)
EXTENDS OperationLedger, SequenceTheorems, TLAPS

\* What the attempts of one operation look like: only the last one may be in flight,
\* what was done is not done again, and all are of one invocation.
SoundHistory(as) ==
    /\ as \in Seq(Attempts)
    /\ \A i \in 1 .. Len(as) - 1 : as[i].state \in Terminal
    /\ \A i \in 1 .. Len(as) - 1 :
          /\ as[i].state # "SUCCEEDED"
          /\ as[i].state = "UNKNOWN_OUTCOME" => as[i + 1].proven
    /\ \A i \in 1 .. Len(as) : as[i].inv = as[1].inv

\* An operation in flight has one caller, and a caller's operation is in flight.
Bodies ==
    \A op \in Ops :
        /\ InFlight(op) => \E c \in Callers : body[c] = op
        /\ \A c \in Callers : body[c] = op => InFlight(op)
        /\ \A c, d \in Callers : body[c] = op /\ body[d] = op => c = d

IInv ==
    /\ TypeOK
    /\ \A op \in Ops : SoundHistory(attempts[op])
    /\ Bodies
    /\ OnlyFinishedAreForgotten

-----------------------------------------------------------------------------
(* The queue of the completed operations *)

\* Without(q, t) has the elements of q but t, each once, and the head of q is its
\* head unless it was t.  (_completed_operation_ids.)
LEMMA WithoutFacts ==
    ASSUME NEW S, NEW q \in Seq(S), NEW t, Occurs(t, q), Distinct(q)
    PROVE  /\ Without(q, t) \in Seq(S)
           /\ Len(Without(q, t)) = Len(q) - 1
           /\ \A x : Occurs(x, Without(q, t)) <=> Occurs(x, q) /\ x # t
           /\ Distinct(Without(q, t))
           /\ q[1] # t => Without(q, t) # <<>> /\ Without(q, t)[1] = q[1]
<1> DEFINE k == CHOOSE j \in DOMAIN q : q[j] = t
           r == Without(q, t)
<1>1. k \in 1..Len(q) /\ q[k] = t
  BY DEF Occurs
<1> DEFINE a == SubSeq(q, 1, k-1)
           b == SubSeq(q, k+1, Len(q))
<1>a. /\ a \in Seq(S) /\ Len(a) = k - 1
      /\ \A j \in 1..k-1 : a[j] = q[j]
  <2> HIDE DEF k
  <2> QED
    BY <1>1, SubSeqProperties
<1>b. /\ b \in Seq(S) /\ Len(b) = Len(q) - k
      /\ \A j \in 1..Len(q)-k : b[j] = q[k+j]
  <2> HIDE DEF k
  <2> QED
    BY <1>1, SubSeqProperties
<1>c. r = a \o b
  BY DEF Without, RemoveAt
<1> HIDE DEF k, r, a, b
<1>2. r \in Seq(S) /\ Len(r) = Len(q) - 1
  <2>1. r \in Seq(S) /\ Len(r) = Len(a) + Len(b)
    BY <1>a, <1>b, <1>c, ConcatProperties
  <2> QED
    BY <2>1, <1>1, <1>a, <1>b
<1>3. \A j \in 1..Len(r) : r[j] = IF j < k THEN q[j] ELSE q[j+1]
  <2> TAKE j \in 1..Len(r)
  <2>1. r[j] = IF j <= Len(a) THEN a[j] ELSE b[j - Len(a)]
    BY <1>1, <1>2, <1>a, <1>b, <1>c, ConcatProperties
  <2>2. CASE j < k
    BY <2>1, <2>2, <1>1, <1>2, <1>a
  <2>3. CASE ~ (j < k)
    <3>1. j - Len(a) \in 1..Len(q)-k /\ k + (j - Len(a)) = j + 1 /\ ~ (j <= Len(a))
      BY <2>3, <1>1, <1>2, <1>a
    <3>2. b[j - Len(a)] = q[k + (j - Len(a))]
      BY <3>1, <1>b
    <3> QED
      BY <2>1, <2>3, <3>1, <3>2
  <2> QED
    BY <2>2, <2>3
<1>4. ASSUME NEW j \in 1..Len(r) PROVE r[j] # t /\ Occurs(r[j], q)
  <2>1. PICK i \in 1..Len(q) : i # k /\ r[j] = q[i]
    BY <1>1, <1>2, <1>3
  <2>2. q[i] # t
    BY <2>1, <1>1 DEF Distinct
  <2> QED
    BY <2>1, <2>2 DEF Occurs
<1>5. ASSUME NEW x, Occurs(x, q), x # t
      PROVE  Occurs(x, r)
  <2>1. PICK j \in 1..Len(q) : q[j] = x
    BY <1>5 DEF Occurs
  <2>2. CASE j < k
    BY <2>1, <2>2, <1>1, <1>2, <1>3 DEF Occurs
  <2>3. CASE j > k
    <3>1. j - 1 \in 1..Len(r) /\ r[j-1] = q[j]
      BY <2>1, <2>3, <1>1, <1>2, <1>3
    <3> QED
      BY <3>1, <2>1, <1>2 DEF Occurs
  <2> QED
    BY <2>1, <2>2, <2>3, <1>1, <1>5
<1>6. Distinct(r)
  <2> SUFFICES ASSUME NEW i \in 1..Len(r), NEW j \in 1..Len(r), r[i] = r[j]
               PROVE  i = j
    BY <1>2 DEF Distinct
  <2>1. \A m, n \in 1..Len(q) : q[m] = q[n] => m = n
    BY DEF Distinct
  <2> QED
    BY <2>1, <1>1, <1>2, <1>3
<1>7. q[1] # t => r # <<>> /\ r[1] = q[1]
  BY <1>1, <1>2, <1>3
<1>8. ASSUME NEW x, Occurs(x, r)
      PROVE  Occurs(x, q) /\ x # t
  <2>1. PICK j \in 1..Len(r) : r[j] = x
    BY <1>2, <1>8 DEF Occurs
  <2> QED
    BY <2>1, <1>4
<1> QED
  BY <1>2, <1>5, <1>6, <1>7, <1>8 DEF r

\* One more element at the end.
LEMMA AppendFacts ==
    ASSUME NEW S, NEW q \in Seq(S), NEW t \in S, ~Occurs(t, q), Distinct(q)
    PROVE  /\ Append(q, t) \in Seq(S)
           /\ Len(Append(q, t)) = Len(q) + 1
           /\ \A x : Occurs(x, Append(q, t)) <=> Occurs(x, q) \/ x = t
           /\ Distinct(Append(q, t))
<1>1. /\ Append(q, t) \in Seq(S)
      /\ Len(Append(q, t)) = Len(q) + 1
      /\ \A i \in 1..Len(q) : Append(q, t)[i] = q[i]
      /\ Append(q, t)[Len(q) + 1] = t
  BY AppendProperties
<1> DEFINE r == Append(q, t)
<1> HIDE DEF r
<1>2. /\ r \in Seq(S) /\ Len(r) = Len(q) + 1
      /\ \A i \in 1..Len(q) : r[i] = q[i]
      /\ r[Len(q) + 1] = t
  BY <1>1 DEF r
<1>3. ASSUME NEW x PROVE Occurs(x, r) <=> Occurs(x, q) \/ x = t
  BY <1>2 DEF Occurs
<1>4. Distinct(r)
  BY <1>2 DEF Distinct, Occurs
<1> QED
  BY <1>2, <1>3, <1>4 DEF r

\* One element less at the front.
LEMMA TailFacts ==
    ASSUME NEW S, NEW q \in Seq(S), q # <<>>, Distinct(q)
    PROVE  /\ Tail(q) \in Seq(S)
           /\ Len(Tail(q)) = Len(q) - 1
           /\ Head(q) \in S
           /\ \A x : Occurs(x, Tail(q)) <=> Occurs(x, q) /\ x # Head(q)
           /\ Distinct(Tail(q))
<1> DEFINE r == Tail(q)
<1>1. /\ r \in Seq(S) /\ Len(r) = Len(q) - 1
      /\ \A i \in 1..Len(r) : r[i] = q[i + 1]
      /\ Head(q) = q[1] /\ Head(q) \in S /\ Len(q) >= 1
  BY HeadTailProperties
<1> HIDE DEF r
<1>2. ASSUME NEW x, Occurs(x, r) PROVE Occurs(x, q) /\ x # Head(q)
  <2>1. PICK i \in 1..Len(r) : r[i] = x
    BY <1>1, <1>2 DEF Occurs
  <2>2. i + 1 \in 1..Len(q) /\ q[i + 1] = x /\ 1 \in 1..Len(q) /\ i + 1 # 1
    BY <2>1, <1>1
  <2> QED
    BY <2>2, <1>1 DEF Occurs, Distinct
<1>3. ASSUME NEW x, Occurs(x, q), x # Head(q) PROVE Occurs(x, r)
  <2>1. PICK i \in 1..Len(q) : q[i] = x
    BY <1>3 DEF Occurs
  <2>2. i - 1 \in 1..Len(r) /\ r[i - 1] = x
    BY <2>1, <1>1, <1>3
  <2> QED
    BY <2>2, <1>1 DEF Occurs
<1>4. Distinct(r)
  <2> SUFFICES ASSUME NEW i \in 1..Len(r), NEW j \in 1..Len(r), r[i] = r[j]
               PROVE  i = j
    BY <1>1 DEF Distinct
  <2>1. i + 1 \in 1..Len(q) /\ j + 1 \in 1..Len(q) /\ q[i + 1] = q[j + 1]
    BY <1>1
  <2> QED
    BY <2>1 DEF Distinct
<1> QED
  BY <1>1, <1>2, <1>3, <1>4 DEF r

-----------------------------------------------------------------------------
(* The history of an operation *)

\* The state of the last attempt tells whether a history is in flight.
Settled(as) == as # <<>> /\ as[Len(as)].state \in Terminal

LEMMA KnownFacts ==
    ASSUME NEW op \in Ops
    PROVE  /\ Finished(op) <=> Settled(attempts[op])
           /\ InFlight(op) <=> attempts[op] # <<>> /\ ~Settled(attempts[op])
  BY DEF Finished, InFlight, Known, Latest, Settled

LEMMA NewAttemptType ==
    ASSUME NEW inv \in Invocations, NEW st \in Terminal \union {"RUNNING"}, NEW p \in BOOLEAN
    PROVE  /\ NewAttempt(inv, st, p) \in Attempts
           /\ NewAttempt(inv, st, p).inv = inv
           /\ NewAttempt(inv, st, p).state = st
           /\ NewAttempt(inv, st, p).proven = p
  BY DEF NewAttempt, Attempts

\* An admitted call continues a sound history.
LEMMA AppendHistory ==
    ASSUME NEW op \in Ops, SoundHistory(attempts[op]), NEW inv \in Invocations,
           NEW st \in Terminal \union {"RUNNING"}, NEW auth \in BOOLEAN, NEW p \in BOOLEAN,
           Admitted(op, inv, auth, p)
    PROVE  LET as == Append(attempts[op], NewAttempt(inv, st, p)) IN
           /\ SoundHistory(as)
           /\ Len(as) = Len(attempts[op]) + 1
           /\ as # <<>>
           /\ as[Len(as)].state = st
           /\ \A i \in 1 .. Len(attempts[op]) : as[i] = attempts[op][i]
<1> DEFINE q == attempts[op]
           a == NewAttempt(inv, st, p)
           as == Append(q, a)
<1>1. a \in Attempts /\ a.inv = inv /\ a.state = st /\ a.proven = p
  BY NewAttemptType
<1>2. q \in Seq(Attempts)
  BY DEF SoundHistory
<1>3. /\ as \in Seq(Attempts) /\ Len(as) = Len(q) + 1 /\ as # <<>>
      /\ \A i \in 1..Len(q) : as[i] = q[i]
      /\ as[Len(q) + 1] = a
  BY <1>1, <1>2, AppendProperties
<1>4. q # <<>> => /\ q[Len(q)].state \in Terminal
                  /\ q[Len(q)].state # "SUCCEEDED"
                  /\ q[Len(q)].state = "UNKNOWN_OUTCOME" => p
                  /\ q[1].inv = inv
  BY DEF Admitted, Matches, NotReplayed, InFlight, Finished, Known, Latest
<1>5. /\ \A i \in 1 .. Len(q) - 1 : q[i].state \in Terminal
      /\ \A i \in 1 .. Len(q) - 1 :
            /\ q[i].state # "SUCCEEDED"
            /\ q[i].state = "UNKNOWN_OUTCOME" => q[i + 1].proven
      /\ \A i \in 1 .. Len(q) : q[i].inv = q[1].inv
  BY DEF SoundHistory
<1> HIDE DEF a, as, q
<1>6. Len(q) \in Nat /\ (q # <<>> <=> Len(q) > 0)
  BY <1>2
<1> DEFINE n == Len(q)
<1>s. /\ n \in Nat /\ Len(as) = n + 1
      /\ \A i \in 1 .. n : as[i] = q[i]
      /\ as[n + 1] = a
  BY <1>3, <1>6
<1> HIDE DEF n
<1>7. ASSUME NEW i \in 1 .. Len(as) - 1
      PROVE  /\ as[i].state \in Terminal
             /\ as[i].state # "SUCCEEDED"
             /\ as[i].state = "UNKNOWN_OUTCOME" => as[i + 1].proven
  <2>1. i \in 1 .. Len(q) /\ as[i] = q[i]
    <3>1. i \in 1 .. n
      BY <1>s
    <3> QED
      BY <3>1, <1>s DEF n
  <2>2. CASE i = Len(q)
    BY <2>1, <2>2, <1>1, <1>2, <1>3, <1>4, <1>6
  <2>3. CASE i # Len(q)
    <3>1. i \in 1 .. Len(q) - 1 /\ i + 1 \in 1 .. Len(q)
      BY <2>1, <2>3, <1>2
    <3> QED
      BY <3>1, <2>1, <1>3, <1>5
  <2> QED
    BY <2>2, <2>3
<1>8. ASSUME NEW i \in 1 .. Len(as)
      PROVE  as[i].inv = as[1].inv
  <2>1. CASE q = <<>>
    <3>1. i = 1
      BY <2>1, <1>6, <1>3
    <3> QED
      BY <3>1
  <2>2. CASE q # <<>>
    <3>1. \A j \in 1 .. n : q[j].inv = inv
      BY <2>2, <1>4, <1>5 DEF n
    <3>2. ASSUME NEW j \in 1 .. n + 1 PROVE as[j].inv = inv
      <4>1. CASE j = n + 1
        BY <4>1, <1>1, <1>s
      <4>2. CASE j \in 1 .. n
        BY <4>2, <3>1, <1>s
      <4>3. j = n + 1 \/ j \in 1 .. n
        BY <1>s
      <4> QED
        BY <4>1, <4>2, <4>3
    <3>3. i \in 1 .. n + 1 /\ 1 \in 1 .. n + 1
      BY <1>s
    <3> QED
      BY <3>2, <3>3
  <2> QED
    BY <2>1, <2>2
<1>9. SoundHistory(as)
  BY <1>3, <1>7, <1>8 DEF SoundHistory
<1>10. as # <<>> /\ as[Len(as)].state = st
  BY <1>1, <1>3
<1> QED
  BY <1>3, <1>9, <1>10 DEF as, q, a

\* The outcome of the last attempt keeps a history sound.
LEMMA OutcomeHistory ==
    ASSUME NEW q, SoundHistory(q), q # <<>>, NEW r \in Terminal
    PROVE  LET as == [q EXCEPT ![Len(q)].state = r] IN
           /\ SoundHistory(as)
           /\ Len(as) = Len(q)
           /\ as # <<>>
           /\ as[Len(as)].state = r
           /\ \A i \in 1 .. Len(q) - 1 : as[i] = q[i]
<1> DEFINE as == [q EXCEPT ![Len(q)].state = r]
<1>1. q \in Seq(Attempts) /\ Len(q) \in Nat /\ Len(q) > 0
  BY DEF SoundHistory
<1>2. q[Len(q)] \in Attempts
  BY <1>1
<1>3. /\ [q[Len(q)] EXCEPT !.state = r] \in Attempts
      /\ [q[Len(q)] EXCEPT !.state = r].inv = q[Len(q)].inv
      /\ [q[Len(q)] EXCEPT !.state = r].proven = q[Len(q)].proven
      /\ [q[Len(q)] EXCEPT !.state = r].state = r
  BY <1>2 DEF Attempts
<1>4. /\ as = [q EXCEPT ![Len(q)] = [q[Len(q)] EXCEPT !.state = r]]
      /\ as \in Seq(Attempts)
      /\ Len(as) = Len(q)
  BY <1>1, <1>3
<1>5. /\ as[Len(q)] = [q[Len(q)] EXCEPT !.state = r]
      /\ \A i \in 1 .. Len(q) : i # Len(q) => as[i] = q[i]
  BY <1>1, <1>4
<1> HIDE DEF as
<1>6. \A i \in 1 .. Len(q) : as[i].inv = q[i].inv /\ as[i].proven = q[i].proven
  BY <1>3, <1>5
<1>7. /\ \A i \in 1 .. Len(q) - 1 : q[i].state \in Terminal
      /\ \A i \in 1 .. Len(q) - 1 :
            /\ q[i].state # "SUCCEEDED"
            /\ q[i].state = "UNKNOWN_OUTCOME" => q[i + 1].proven
      /\ \A i \in 1 .. Len(q) : q[i].inv = q[1].inv
  BY DEF SoundHistory
<1>8. ASSUME NEW i \in 1 .. Len(as) - 1
      PROVE  /\ as[i].state \in Terminal
             /\ as[i].state # "SUCCEEDED"
             /\ as[i].state = "UNKNOWN_OUTCOME" => as[i + 1].proven
  <2>1. i \in 1 .. Len(q) - 1 /\ i \in 1 .. Len(q) /\ i # Len(q) /\ i + 1 \in 1 .. Len(q)
    BY <1>1, <1>4
  <2>2. as[i] = q[i] /\ as[i + 1].proven = q[i + 1].proven
    BY <2>1, <1>5, <1>6
  <2> QED
    BY <2>1, <2>2, <1>7
<1>9. \A i \in 1 .. Len(as) : as[i].inv = as[1].inv
  BY <1>1, <1>4, <1>6, <1>7
<1>10. SoundHistory(as)
  BY <1>4, <1>8, <1>9 DEF SoundHistory
<1>11. ASSUME NEW i \in 1 .. Len(q) - 1 PROVE as[i] = q[i]
  <2>1. i \in 1 .. Len(q) /\ i # Len(q)
    BY <1>1
  <2> QED
    BY <2>1, <1>5
<1> QED
  BY <1>1, <1>3, <1>4, <1>5, <1>10, <1>11 DEF as

-----------------------------------------------------------------------------
(* The list of completed operations *)

LEMMA RememberFacts ==
    ASSUME completed \in Seq(Ops), Distinct(completed), Len(completed) <= MaxCompleted,
           NEW op \in Ops
    PROVE  /\ Remember(op) \in Seq(Ops)
           /\ Distinct(Remember(op))
           /\ Len(Remember(op)) <= MaxCompleted
           /\ \A x : Occurs(x, Remember(op)) <=>
                        (Occurs(x, completed) \/ x = op) /\ x \notin Forgotten(op)
           /\ \A x \in Forgotten(op) : x = op \/ Occurs(x, completed)
<1> USE LedgerAssumption
<1> DEFINE c == IF Occurs(op, completed) THEN Without(completed, op) ELSE completed
           q == Touch(op)
<1>1. /\ c \in Seq(Ops) /\ Distinct(c) /\ Len(c) <= MaxCompleted
      /\ \A x : Occurs(x, c) <=> Occurs(x, completed) /\ x # op
  <2>1. CASE Occurs(op, completed)
    <3>1. /\ Without(completed, op) \in Seq(Ops)
          /\ Len(Without(completed, op)) = Len(completed) - 1
          /\ \A x : Occurs(x, Without(completed, op)) <=> Occurs(x, completed) /\ x # op
          /\ Distinct(Without(completed, op))
      BY <2>1, WithoutFacts
    <3>2. Len(completed) \in Nat
      OBVIOUS
    <3> QED
      BY <2>1, <3>1, <3>2
  <2>2. CASE ~Occurs(op, completed)
    BY <2>2
  <2> QED
    BY <2>1, <2>2
<1>2. q = Append(c, op)
  BY DEF Touch
<1> HIDE DEF c, q
<1>3. /\ q \in Seq(Ops) /\ Distinct(q) /\ Len(q) = Len(c) + 1
      /\ \A x : Occurs(x, q) <=> Occurs(x, completed) \/ x = op
  <2>1. ~Occurs(op, c)
    BY <1>1
  <2>2. /\ Append(c, op) \in Seq(Ops)
        /\ Len(Append(c, op)) = Len(c) + 1
        /\ \A x : Occurs(x, Append(c, op)) <=> Occurs(x, c) \/ x = op
        /\ Distinct(Append(c, op))
    BY <1>1, <2>1, AppendFacts
  <2> QED
    BY <1>1, <1>2, <2>2
<1>4. Len(c) \in Nat /\ Len(q) \in Nat
  BY <1>1, <1>3
<1>5. CASE Len(q) > MaxCompleted
  <2>1. Remember(op) = Tail(q) /\ Forgotten(op) = {Head(q)}
    BY <1>5 DEF Remember, Forgotten, q
  <2>2. q # <<>>
    <3>1. Occurs(op, q)
      BY <1>3
    <3> QED
      BY <3>1 DEF Occurs
  <2>3. /\ Tail(q) \in Seq(Ops)
        /\ Len(Tail(q)) = Len(q) - 1
        /\ \A x : Occurs(x, Tail(q)) <=> Occurs(x, q) /\ x # Head(q)
        /\ Distinct(Tail(q))
    BY <1>3, <2>2, TailFacts
  <2>4. Occurs(Head(q), q)
    BY <1>3, <2>2 DEF Occurs
  <2>5. Len(Tail(q)) <= MaxCompleted
    BY <1>1, <1>3, <1>4, <2>3
  <2> QED
    BY <1>3, <2>1, <2>3, <2>4, <2>5
<1>6. CASE ~(Len(q) > MaxCompleted)
  <2>1. Remember(op) = q /\ Forgotten(op) = {}
    BY <1>6 DEF Remember, Forgotten, q
  <2> QED
    BY <1>3, <1>4, <1>6, <2>1
<1> QED
  BY <1>5, <1>6

\* What an outcome does to the ledger: op is finished, the oldest one may be forgotten,
\* and nothing that is in flight is touched.
LEMMA FinalizeFacts ==
    ASSUME IInv, NEW op \in Ops, NEW as, SoundHistory(as), Settled(as), Finalize(op, as)
    PROVE  /\ attempts' \in [Ops -> Seq(Attempts)]
           /\ \A o \in Ops : SoundHistory(attempts'[o])
           /\ \A o \in Ops : InFlight(o)' <=> InFlight(o) /\ o # op
           /\ OnlyFinishedAreForgotten'
           /\ completed' \in Seq(Ops)
           /\ \A o \in Forgotten(op) : o = op \/ (o \in Ops /\ Finished(o))
<1>1. /\ completed \in Seq(Ops) /\ Distinct(completed) /\ Len(completed) <= MaxCompleted
      /\ \A o \in Ops : Occurs(o, completed) <=> Finished(o)
  BY DEF IInv, TypeOK, OnlyFinishedAreForgotten
<1>2. /\ Remember(op) \in Seq(Ops)
      /\ Distinct(Remember(op))
      /\ Len(Remember(op)) <= MaxCompleted
      /\ \A x : Occurs(x, Remember(op)) <=>
                   (Occurs(x, completed) \/ x = op) /\ x \notin Forgotten(op)
      /\ \A x \in Forgotten(op) : x = op \/ Occurs(x, completed)
  BY <1>1, RememberFacts
<1>3. completed' = Remember(op)
  BY DEF Finalize
<1>4. ASSUME NEW x, Occurs(x, completed) PROVE x \in Ops
  BY <1>1, <1>4 DEF Occurs
<1>5. /\ SoundHistory(<<>>) /\ ~Settled(<<>>)
  BY DEF SoundHistory, Settled
<1>6. \A o \in Ops : attempts'[o] = IF o \in Forgotten(op) THEN <<>>
                                     ELSE IF o = op THEN as ELSE attempts[o]
  BY DEF Finalize
<1>7. ASSUME NEW o \in Ops PROVE SoundHistory(attempts'[o])
  BY <1>5, <1>6 DEF IInv
<1>8. attempts' \in [Ops -> Seq(Attempts)]
  <2>1. \A o \in Ops : attempts'[o] \in Seq(Attempts)
    BY <1>7 DEF SoundHistory
  <2>2. attempts' = [o \in Ops |-> attempts'[o]]
    BY DEF Finalize
  <2> QED
    BY <2>1, <2>2
<1>9. ASSUME NEW o \in Ops
      PROVE  /\ Finished(o)' <=> Settled(attempts'[o])
             /\ InFlight(o)' <=> attempts'[o] # <<>> /\ ~Settled(attempts'[o])
  BY DEF Finished, InFlight, Known, Latest, Settled
<1>10. ASSUME NEW o \in Ops PROVE ~(Finished(o) /\ InFlight(o))
  BY DEF Finished, InFlight
<1>11. \A o \in Forgotten(op) : o = op \/ (o \in Ops /\ Finished(o))
  BY <1>1, <1>2, <1>4
<1>12. ASSUME NEW o \in Ops PROVE InFlight(o)' <=> InFlight(o) /\ o # op
  <2>1. CASE o \in Forgotten(op)
    BY <2>1, <1>6, <1>9, <1>10, <1>11
  <2>2. CASE o \notin Forgotten(op) /\ o = op
    BY <2>2, <1>6, <1>9
  <2>3. CASE o \notin Forgotten(op) /\ o # op
    BY <2>3, <1>6, <1>9, KnownFacts
  <2> QED
    BY <2>1, <2>2, <2>3
<1>13. ASSUME NEW o \in Ops PROVE Occurs(o, completed') <=> Finished(o)'
  <2>1. CASE o \in Forgotten(op)
    BY <2>1, <1>2, <1>3, <1>5, <1>6, <1>9
  <2>2. CASE o \notin Forgotten(op) /\ o = op
    BY <2>2, <1>2, <1>3, <1>6, <1>9
  <2>3. CASE o \notin Forgotten(op) /\ o # op
    BY <2>3, <1>1, <1>2, <1>3, <1>6, <1>9, KnownFacts
  <2> QED
    BY <2>1, <2>2, <2>3
<1>14. OnlyFinishedAreForgotten'
  <2>1. \A o \in Ops : (Occurs(o, completed) <=> Finished(o))'
    BY <1>13 DEF Occurs
  <2>2. (Distinct(completed) /\ Len(completed) <= MaxCompleted)'
    BY <1>2, <1>3 DEF Distinct
  <2> QED
    BY <2>1, <2>2 DEF OnlyFinishedAreForgotten
<1> QED
  BY <1>2, <1>3, <1>7, <1>8, <1>11, <1>12, <1>14

-----------------------------------------------------------------------------
(* The steps *)

LEMMA InitIInv == ASSUME Init PROVE IInv
<1> USE LedgerAssumption DEF Init
<1>1. TypeOK
  BY DEF TypeOK
<1>2. \A op \in Ops : SoundHistory(attempts[op])
  BY DEF SoundHistory
<1>3. Bodies
  BY DEF Bodies, InFlight, Known
<1>4. OnlyFinishedAreForgotten
  BY DEF OnlyFinishedAreForgotten, Occurs, Distinct, Finished, Known
<1> QED
  BY <1>1, <1>2, <1>3, <1>4 DEF IInv

LEMMA RejectStep ==
    ASSUME IInv, NEW c \in Callers, NEW op \in Ops, NEW inv \in Invocations,
           NEW auth \in BOOLEAN, NEW p \in BOOLEAN, NEW r \in {"FAILED", "CANCELLED"},
           RejectBeforeBody(c, op, inv, auth, p, r)
    PROVE  IInv'
<1> DEFINE as == Append(attempts[op], NewAttempt(inv, r, p))
<1>1. SoundHistory(attempts[op]) /\ Admitted(op, inv, auth, p) /\ r \in Terminal
  BY DEF IInv, RejectBeforeBody, Terminal
<1>2. SoundHistory(as) /\ Settled(as)
  BY <1>1, AppendHistory DEF Settled
<1>3. Finalize(op, as) /\ body' = body
  BY DEF RejectBeforeBody
<1> HIDE DEF as
<1>4. /\ attempts' \in [Ops -> Seq(Attempts)]
      /\ \A o \in Ops : SoundHistory(attempts'[o])
      /\ \A o \in Ops : InFlight(o)' <=> InFlight(o) /\ o # op
      /\ OnlyFinishedAreForgotten'
      /\ completed' \in Seq(Ops)
  BY <1>2, <1>3, FinalizeFacts
<1>5. TypeOK'
  BY <1>3, <1>4 DEF IInv, TypeOK
<1>6. ~InFlight(op)
  BY <1>1 DEF Admitted
<1>7. \A o \in Ops : InFlight(o)' <=> InFlight(o)
  BY <1>4, <1>6
<1>8. Bodies'
  BY <1>3, <1>7 DEF IInv, Bodies
<1> QED
  BY <1>4, <1>5, <1>8 DEF IInv

LEMMA ReturnStep ==
    ASSUME IInv, NEW c \in Callers, NEW r \in Terminal, Return(c, r)
    PROVE  IInv'
<1>1. PICK op \in Ops : body[c] = op
  BY DEF IInv, TypeOK, Return
<1> DEFINE as == [attempts[op] EXCEPT ![Len(attempts[op])].state = r]
<1>2. SoundHistory(attempts[op]) /\ attempts[op] # <<>>
  BY <1>1 DEF IInv, Bodies, InFlight, Known
<1>3. SoundHistory(as) /\ Settled(as)
  BY <1>2, OutcomeHistory DEF Settled
<1>4. Finalize(op, as) /\ body' = [body EXCEPT ![c] = NoOp]
  BY <1>1 DEF Return
<1> HIDE DEF as
<1>5. /\ attempts' \in [Ops -> Seq(Attempts)]
      /\ \A o \in Ops : SoundHistory(attempts'[o])
      /\ \A o \in Ops : InFlight(o)' <=> InFlight(o) /\ o # op
      /\ OnlyFinishedAreForgotten'
      /\ completed' \in Seq(Ops)
  BY <1>3, <1>4, FinalizeFacts
<1>6. TypeOK'
  BY <1>4, <1>5 DEF IInv, TypeOK
<1>7. \A d \in Callers : body'[d] = IF d = c THEN NoOp ELSE body[d]
  BY <1>4 DEF IInv, TypeOK
<1>8. Bodies'
  <2> SUFFICES ASSUME NEW o \in Ops
               PROVE  /\ InFlight(o)' => \E d \in Callers : body'[d] = o
                      /\ \A d \in Callers : body'[d] = o => InFlight(o)'
                      /\ \A d, e \in Callers : body'[d] = o /\ body'[e] = o => d = e
    BY DEF Bodies
  <2>1. o # NoOp
    BY LedgerAssumption
  <2>2. ASSUME InFlight(o)' PROVE \E d \in Callers : body'[d] = o
    BY <2>2, <1>1, <1>5, <1>7 DEF IInv, Bodies
  <2>3. ASSUME NEW d \in Callers, body'[d] = o PROVE InFlight(o)'
    <3>1. d # c /\ body[d] = o
      BY <2>1, <2>3, <1>7
    <3>2. InFlight(o) /\ o # op
      BY <3>1, <1>1 DEF IInv, Bodies
    <3> QED
      BY <3>2, <1>5
  <2>4. ASSUME NEW d \in Callers, NEW e \in Callers, body'[d] = o, body'[e] = o
        PROVE  d = e
    BY <2>1, <2>4, <1>7 DEF IInv, Bodies
  <2> QED
    BY <2>2, <2>3, <2>4
<1> QED
  BY <1>5, <1>6, <1>8 DEF IInv

LEMMA StartStep ==
    ASSUME IInv, NEW c \in Callers, NEW op \in Ops, NEW inv \in Invocations,
           NEW auth \in BOOLEAN, NEW p \in BOOLEAN, Start(c, op, inv, auth, p)
    PROVE  IInv'
<1> DEFINE as == Append(attempts[op], NewAttempt(inv, "RUNNING", p))
<1>1. SoundHistory(attempts[op]) /\ Admitted(op, inv, auth, p)
  BY DEF IInv, Start
<1>2. SoundHistory(as) /\ as # <<>> /\ ~Settled(as)
  <2>1. SoundHistory(as) /\ as # <<>> /\ as[Len(as)].state = "RUNNING"
    BY <1>1, AppendHistory
  <2> QED
    BY <2>1 DEF Settled, Terminal
<1>3. /\ attempts' = [attempts EXCEPT ![op] = as]
      /\ TakeFromCompleted(op)
      /\ body' = [body EXCEPT ![c] = op]
      /\ body[c] = NoOp
  BY DEF Start
<1> HIDE DEF as
<1>4. ~InFlight(op)
  BY <1>1 DEF Admitted
<1>5. \A o \in Ops : attempts'[o] = IF o = op THEN as ELSE attempts[o]
  BY <1>3 DEF IInv, TypeOK
<1>6. \A o \in Ops : SoundHistory(attempts'[o])
  BY <1>2, <1>5 DEF IInv
<1>7. ASSUME NEW o \in Ops
      PROVE  /\ Finished(o)' <=> Settled(attempts'[o])
             /\ InFlight(o)' <=> attempts'[o] # <<>> /\ ~Settled(attempts'[o])
  BY DEF Finished, InFlight, Known, Latest, Settled
<1>8. ASSUME NEW o \in Ops
      PROVE  /\ InFlight(o)' <=> InFlight(o) \/ o = op
             /\ Finished(o)' <=> Finished(o) /\ o # op
  BY <1>2, <1>5, <1>7, KnownFacts
<1>9. /\ completed' \in Seq(Ops)
      /\ \A x : Occurs(x, completed') <=> Occurs(x, completed) /\ x # op
      /\ Distinct(completed')
      /\ Len(completed') <= MaxCompleted
  <2>1. completed \in Seq(Ops) /\ Distinct(completed) /\ Len(completed) <= MaxCompleted
    BY DEF IInv, TypeOK, OnlyFinishedAreForgotten
  <2>2. CASE Occurs(op, completed)
    <3>1. completed' = Without(completed, op)
      BY <2>2, <1>3 DEF TakeFromCompleted
    <3>2. /\ Without(completed, op) \in Seq(Ops)
          /\ Len(Without(completed, op)) = Len(completed) - 1
          /\ \A x : Occurs(x, Without(completed, op)) <=> Occurs(x, completed) /\ x # op
          /\ Distinct(Without(completed, op))
      BY <2>1, <2>2, WithoutFacts
    <3>3. Len(completed) \in Nat
      BY <2>1
    <3> QED
      BY <3>1, <3>2, <3>3, <2>1, LedgerAssumption
  <2>3. CASE ~Occurs(op, completed)
    BY <2>1, <2>3, <1>3 DEF TakeFromCompleted
  <2> QED
    BY <2>2, <2>3
<1>10. OnlyFinishedAreForgotten'
  <2>1. \A o \in Ops : (Occurs(o, completed) <=> Finished(o))'
    BY <1>8, <1>9 DEF IInv, OnlyFinishedAreForgotten, Occurs
  <2>2. (Distinct(completed) /\ Len(completed) <= MaxCompleted)'
    BY <1>9 DEF Distinct
  <2> QED
    BY <2>1, <2>2 DEF OnlyFinishedAreForgotten
<1>11. TypeOK'
  <2>1. attempts' \in [Ops -> Seq(Attempts)]
    BY <1>2, <1>3 DEF IInv, TypeOK, SoundHistory
  <2> QED
    BY <2>1, <1>3, <1>9 DEF IInv, TypeOK
<1>12. \A d \in Callers : body'[d] = IF d = c THEN op ELSE body[d]
  BY <1>3 DEF IInv, TypeOK
<1>13. Bodies'
  <2> SUFFICES ASSUME NEW o \in Ops
               PROVE  /\ InFlight(o)' => \E d \in Callers : body'[d] = o
                      /\ \A d \in Callers : body'[d] = o => InFlight(o)'
                      /\ \A d, e \in Callers : body'[d] = o /\ body'[e] = o => d = e
    BY DEF Bodies
  <2>1. \A d \in Callers : body[d] # op
    BY <1>4 DEF IInv, Bodies
  <2>2. ASSUME InFlight(o)' PROVE \E d \in Callers : body'[d] = o
    <3>1. CASE o = op
      BY <3>1, <1>12
    <3>2. CASE o # op
      <4>1. PICK d \in Callers : body[d] = o
        BY <2>2, <3>2, <1>8 DEF IInv, Bodies
      <4>2. d # c
        BY <4>1, <1>3, LedgerAssumption
      <4> QED
        BY <4>1, <4>2, <1>12
    <3> QED
      BY <3>1, <3>2
  <2>3. ASSUME NEW d \in Callers, body'[d] = o PROVE InFlight(o)'
    BY <2>3, <1>8, <1>12 DEF IInv, Bodies
  <2>4. ASSUME NEW d \in Callers, NEW e \in Callers, body'[d] = o, body'[e] = o
        PROVE  d = e
    BY <2>1, <2>4, <1>12 DEF IInv, Bodies
  <2> QED
    BY <2>2, <2>3, <2>4
<1> QED
  BY <1>6, <1>10, <1>11, <1>13 DEF IInv

LEMMA NextIInv == ASSUME IInv, [Next]_vars PROVE IInv'
<1>1. CASE UNCHANGED vars
  <2>1. attempts' = attempts /\ completed' = completed /\ body' = body
    BY <1>1 DEF vars
  <2>2. TypeOK' /\ (\A op \in Ops : SoundHistory(attempts'[op]))
    BY <2>1 DEF IInv, TypeOK
  <2>3. \A op \in Ops : (InFlight(op)' <=> InFlight(op)) /\ (Finished(op)' <=> Finished(op))
    BY <2>1 DEF InFlight, Finished, Known, Latest
  <2>4. Bodies'
    BY <2>1, <2>3 DEF IInv, Bodies
  <2>5. OnlyFinishedAreForgotten'
    BY <2>1, <2>3 DEF IInv, OnlyFinishedAreForgotten, Occurs, Distinct
  <2> QED
    BY <2>2, <2>4, <2>5 DEF IInv
<1>2. CASE \E c \in Callers, r \in Terminal : Return(c, r)
  BY <1>2, ReturnStep
<1>3. CASE \E c \in Callers : Call(c)
  <2>1. PICK c \in Callers, op \in Ops, inv \in Invocations, auth \in BOOLEAN, p \in BOOLEAN :
            \/ Start(c, op, inv, auth, p)
            \/ \E r \in {"FAILED", "CANCELLED"} : RejectBeforeBody(c, op, inv, auth, p, r)
            \/ Answered(c, op, inv, auth, p)
    BY <1>3 DEF Call
  <2>2. CASE Start(c, op, inv, auth, p)
    BY <2>2, StartStep
  <2>3. CASE \E r \in {"FAILED", "CANCELLED"} : RejectBeforeBody(c, op, inv, auth, p, r)
    BY <2>3, RejectStep
  <2>4. CASE Answered(c, op, inv, auth, p)
    BY <2>4, <1>1 DEF Answered
  <2> QED
    BY <2>1, <2>2, <2>3, <2>4
<1> QED
  BY <1>1, <1>2, <1>3 DEF Next

LEMMA Inductive == Spec => []IInv
<1>1. Init => IInv
  BY InitIInv
<1>2. IInv /\ [Next]_vars => IInv'
  BY NextIInv
<1> QED
  BY <1>1, <1>2, PTL DEF Spec

-----------------------------------------------------------------------------
(* Theorems *)

\* The state of the ledger is well formed (OperationLedger.__init__ and all its
\* operations).
THEOREM LedgerTypeCorrect == Spec => []TypeOK
<1>1. IInv => TypeOK
  BY DEF IInv
<1> QED
  BY <1>1, Inductive, PTL

\* At most one body executes an operation, and an attempt in flight is the latest of an
\* operation that finalize will find (create_attempt, finalize).
THEOREM LedgerOneBody == Spec => []OneBodyPerOperation
<1>1. IInv => OneBodyPerOperation
  <2> SUFFICES ASSUME IInv, NEW op \in Ops
               PROVE  /\ \A i \in 1 .. Len(attempts[op]) - 1 : attempts[op][i].state \in Terminal
                      /\ InFlight(op) <=> \E c \in Callers : body[c] = op
                      /\ \A c, d \in Callers : body[c] = op /\ body[d] = op => c = d
    BY DEF OneBodyPerOperation
  <2> QED
    BY DEF IInv, Bodies, SoundHistory
<1> QED
  BY <1>1, Inductive, PTL

\* The retention limit holds and only finished operations are ever evicted
\* (_remember_completed_operation).
THEOREM LedgerRetention == Spec => []OnlyFinishedAreForgotten
<1>1. IInv => OnlyFinishedAreForgotten
  BY DEF IInv
<1> QED
  BY <1>1, Inductive, PTL

\* Neither a success nor an outcome that is not known is followed by another attempt
\* that nobody vouched for (execute_outcome's replay).
THEOREM LedgerNoUnsafeRepeat == Spec => []NoUnsafeRepeat
<1>1. IInv => NoUnsafeRepeat
  BY DEF IInv, SoundHistory, NoUnsafeRepeat
<1> QED
  BY <1>1, Inductive, PTL

\* An operation id is bound to one invocation (matches_logical_invocation).
THEOREM LedgerOneInvocation == Spec => []OneInvocation
<1>1. IInv => OneInvocation
  BY DEF IInv, SoundHistory, OneInvocation
<1> QED
  BY <1>1, Inductive, PTL

FinalStep ==
    \A op \in Ops :
        \/ attempts'[op] = <<>>
        \/ \A i \in 1 .. Len(attempts[op]) :
              attempts[op][i].state \in Terminal => attempts'[op][i] = attempts[op][i]

LEMMA FinalizeKeepsOutcomes ==
    ASSUME NEW op \in Ops, NEW as, Finalize(op, as),
           \A i \in 1 .. Len(attempts[op]) :
              attempts[op][i].state \in Terminal => as[i] = attempts[op][i]
    PROVE  FinalStep
<1>1. \A o \in Ops : attempts'[o] = IF o \in Forgotten(op) THEN <<>>
                                     ELSE IF o = op THEN as ELSE attempts[o]
  BY DEF Finalize
<1> QED
  BY <1>1 DEF FinalStep

LEMMA StepIsFinal == ASSUME IInv, [Next]_vars PROVE FinalStep
<1>1. CASE UNCHANGED vars
  BY <1>1 DEF vars, FinalStep
<1>2. ASSUME NEW c \in Callers, NEW r \in Terminal, Return(c, r) PROVE FinalStep
  <2>1. PICK op \in Ops : body[c] = op
    BY <1>2 DEF IInv, TypeOK, Return
  <2> DEFINE q == attempts[op]
             as == [q EXCEPT ![Len(q)].state = r]
  <2>2. SoundHistory(q) /\ q # <<>> /\ q[Len(q)].state \notin Terminal
    BY <2>1 DEF IInv, Bodies, InFlight, Known, Latest
  <2>3. \A i \in 1 .. Len(q) - 1 : as[i] = q[i]
    BY <2>2, OutcomeHistory
  <2>4. Finalize(op, as)
    BY <1>2, <2>1 DEF Return
  <2>5. Len(q) \in Nat
    BY <2>2 DEF SoundHistory
  <2> HIDE DEF as, q
  <2>6. ASSUME NEW i \in 1 .. Len(q), q[i].state \in Terminal PROVE as[i] = q[i]
    <3>1. i # Len(q)
      BY <2>2, <2>6
    <3>2. i \in 1 .. Len(q) - 1
      BY <2>5, <3>1
    <3> QED
      BY <2>3, <3>2
  <2> QED
    BY <2>4, <2>6, FinalizeKeepsOutcomes DEF q
<1>3. ASSUME NEW c \in Callers, NEW op \in Ops, NEW inv \in Invocations, NEW auth \in BOOLEAN,
             NEW p \in BOOLEAN, NEW r \in {"FAILED", "CANCELLED"},
             RejectBeforeBody(c, op, inv, auth, p, r)
      PROVE  FinalStep
  <2> DEFINE as == Append(attempts[op], NewAttempt(inv, r, p))
  <2>1. SoundHistory(attempts[op]) /\ Admitted(op, inv, auth, p) /\ r \in Terminal
    BY <1>3 DEF IInv, RejectBeforeBody, Terminal
  <2>2. \A i \in 1 .. Len(attempts[op]) : as[i] = attempts[op][i]
    BY <2>1, AppendHistory
  <2>3. Finalize(op, as)
    BY <1>3 DEF RejectBeforeBody
  <2> HIDE DEF as
  <2> QED
    BY <2>2, <2>3, FinalizeKeepsOutcomes
<1>4. ASSUME NEW c \in Callers, NEW op \in Ops, NEW inv \in Invocations, NEW auth \in BOOLEAN,
             NEW p \in BOOLEAN, Start(c, op, inv, auth, p)
      PROVE  FinalStep
  <2> DEFINE as == Append(attempts[op], NewAttempt(inv, "RUNNING", p))
  <2>1. SoundHistory(attempts[op]) /\ Admitted(op, inv, auth, p)
    BY <1>4 DEF IInv, Start
  <2>2. \A i \in 1 .. Len(attempts[op]) : as[i] = attempts[op][i]
    BY <2>1, AppendHistory
  <2>3. \A o \in Ops : attempts'[o] = IF o = op THEN as ELSE attempts[o]
    BY <1>4 DEF Start, IInv, TypeOK
  <2> HIDE DEF as
  <2> QED
    BY <2>2, <2>3 DEF FinalStep
<1>5. ASSUME NEW c \in Callers, Call(c) PROVE FinalStep
  BY <1>1, <1>3, <1>4, <1>5 DEF Call, Answered
<1> QED
  BY <1>1, <1>2, <1>5 DEF Next

\* An outcome is never revised (_validate_transition).
THEOREM LedgerOutcomesAreFinal == Spec => OutcomesAreFinal
<1>1. IInv /\ [Next]_vars => [FinalStep]_vars
  BY StepIsFinal
<1>2. [FinalStep]_vars =>
        [\A op \in Ops :
          \/ attempts'[op] = <<>>
          \/ \A i \in 1 .. Len(attempts[op]) :
                attempts[op][i].state \in Terminal => attempts'[op][i] = attempts[op][i]]_vars
  BY DEF FinalStep
<1> QED
  BY <1>1, <1>2, Inductive, PTL DEF Spec, OutcomesAreFinal

-----------------------------------------------------------------------------
(* The ledger implements AtMostOnce *)

StatusOf(op) == IF Known(op) THEN Latest(op).state ELSE "new"

LEMMA StatusFacts ==
    ASSUME IInv, NEW op \in Ops
    PROVE  /\ InFlight(op) <=> StatusOf(op) = "RUNNING"
           /\ Finished(op) <=> StatusOf(op) \in Terminal
           /\ ~Known(op) <=> StatusOf(op) = "new"
           /\ Finished(op) => StatusOf(op) = Latest(op).state
<1>1. Known(op) => Latest(op).state \in Terminal \union {"RUNNING"}
  <2>1. attempts[op] \in Seq(Attempts)
    BY DEF IInv, TypeOK
  <2>2. Known(op) => Latest(op) \in Attempts
    BY <2>1 DEF Known, Latest
  <2> QED
    BY <2>2 DEF Attempts
<1> QED
  BY <1>1 DEF StatusOf, InFlight, Finished, Terminal

LEMMA FinalizeRefines ==
    ASSUME IInv, NEW op \in Ops, NEW as, SoundHistory(as), Settled(as), Finalize(op, as),
           NEW r \in Terminal, as[Len(as)].state = r,
           \/ StatusOf(op) = "RUNNING"
           \/ /\ StatusOf(op) \in {"new", "FAILED", "CANCELLED", "UNKNOWN_OUTCOME"}
              /\ r \in {"FAILED", "CANCELLED"}
    PROVE  Once!Next
<1> DEFINE gone == Forgotten(op) \intersect Ops
           st == [o \in Ops |-> StatusOf(o)]
<1>1. \A o \in Forgotten(op) : o = op \/ (o \in Ops /\ Finished(o))
  BY FinalizeFacts
<1>2. \A o \in gone : st[o] \in Terminal \/ o = op
  BY <1>1, StatusFacts
<1>3. ASSUME NEW o \in Ops
      PROVE  StatusOf(o)' = IF o \in gone THEN "new" ELSE IF o = op THEN r ELSE st[o]
  <2>1. attempts'[o] = IF o \in gone THEN <<>> ELSE IF o = op THEN as ELSE attempts[o]
    BY DEF Finalize
  <2>2. as # <<>>
    BY DEF Settled
  <2> QED
    BY <2>1, <2>2 DEF StatusOf, Known, Latest
<1>4. st' = [o \in Ops |-> IF o \in gone THEN "new" ELSE IF o = op THEN r ELSE st[o]]
  BY <1>3
<1>5. Once!Finish(op, r, gone)
  <2>1. \/ st[op] = "RUNNING"
        \/ st[op] \in {"new", "FAILED", "CANCELLED", "UNKNOWN_OUTCOME"} /\ r \in {"FAILED", "CANCELLED"}
    OBVIOUS
  <2> QED
    BY <2>1, <1>2, <1>4 DEF Once!Finish, Once!MayBegin, Once!Outcomes, Terminal, StatusOf
<1>6. gone \in SUBSET Ops /\ r \in Once!Outcomes
  BY DEF Once!Outcomes, Terminal
<1> QED
  BY <1>5, <1>6 DEF Once!Next

LEMMA AdmittedStatus ==
    ASSUME IInv, NEW op \in Ops, NEW inv, NEW auth, NEW p, Admitted(op, inv, auth, p)
    PROVE  StatusOf(op) \in {"new", "FAILED", "CANCELLED", "UNKNOWN_OUTCOME"}
<1>1. ~InFlight(op) /\ (Finished(op) => Latest(op).state # "SUCCEEDED")
  BY DEF Admitted, NotReplayed
<1>2. CASE Finished(op)
  BY <1>1, <1>2, StatusFacts DEF Terminal
<1>3. CASE ~Finished(op)
  <2>1. ~Known(op)
    BY <1>1, <1>3 DEF InFlight, Finished
  <2> QED
    BY <2>1 DEF StatusOf
<1> QED
  BY <1>2, <1>3

LEMMA StepRefines ==
    ASSUME IInv, [Next]_vars
    PROVE  [Once!Next]_([op \in Ops |-> StatusOf(op)])
<1> DEFINE st == [op \in Ops |-> StatusOf(op)]
<1>1. CASE UNCHANGED vars
  BY <1>1 DEF vars, StatusOf, Known, Latest
<1>2. ASSUME NEW c \in Callers, NEW r \in Terminal, Return(c, r) PROVE Once!Next
  <2>1. PICK op \in Ops : body[c] = op
    BY <1>2 DEF IInv, TypeOK, Return
  <2> DEFINE as == [attempts[op] EXCEPT ![Len(attempts[op])].state = r]
  <2>2. SoundHistory(attempts[op]) /\ attempts[op] # <<>> /\ StatusOf(op) = "RUNNING"
    BY <2>1, StatusFacts DEF IInv, Bodies, InFlight, Known
  <2>3. SoundHistory(as) /\ Settled(as) /\ as[Len(as)].state = r
    BY <2>2, OutcomeHistory DEF Settled
  <2>4. Finalize(op, as)
    BY <1>2, <2>1 DEF Return
  <2> HIDE DEF as
  <2> QED
    BY <2>2, <2>3, <2>4, FinalizeRefines
<1>3. ASSUME NEW c \in Callers, NEW op \in Ops, NEW inv \in Invocations, NEW auth \in BOOLEAN,
             NEW p \in BOOLEAN, NEW r \in {"FAILED", "CANCELLED"},
             RejectBeforeBody(c, op, inv, auth, p, r)
      PROVE  Once!Next
  <2> DEFINE as == Append(attempts[op], NewAttempt(inv, r, p))
  <2>1. SoundHistory(attempts[op]) /\ Admitted(op, inv, auth, p) /\ r \in Terminal
    BY <1>3 DEF IInv, RejectBeforeBody, Terminal
  <2>2. SoundHistory(as) /\ Settled(as) /\ as[Len(as)].state = r
    BY <2>1, AppendHistory DEF Settled
  <2>3. Finalize(op, as)
    BY <1>3 DEF RejectBeforeBody
  <2>4. StatusOf(op) \in {"new", "FAILED", "CANCELLED", "UNKNOWN_OUTCOME"}
    BY <2>1, AdmittedStatus
  <2> HIDE DEF as
  <2> QED
    BY <2>1, <2>2, <2>3, <2>4, FinalizeRefines
<1>4. ASSUME NEW c \in Callers, NEW op \in Ops, NEW inv \in Invocations, NEW auth \in BOOLEAN,
             NEW p \in BOOLEAN, Start(c, op, inv, auth, p)
      PROVE  Once!Next
  <2> DEFINE as == Append(attempts[op], NewAttempt(inv, "RUNNING", p))
  <2>1. SoundHistory(attempts[op]) /\ Admitted(op, inv, auth, p)
    BY <1>4 DEF IInv, Start
  <2>2. as # <<>> /\ as[Len(as)].state = "RUNNING"
    BY <2>1, AppendHistory
  <2>3. \A o \in Ops : attempts'[o] = IF o = op THEN as ELSE attempts[o]
    BY <1>4 DEF Start, IInv, TypeOK
  <2> HIDE DEF as
  <2>4. ASSUME NEW o \in Ops PROVE StatusOf(o)' = IF o = op THEN "RUNNING" ELSE StatusOf(o)
    BY <2>2, <2>3 DEF StatusOf, Known, Latest
  <2>5. st' = [st EXCEPT ![op] = "RUNNING"]
    BY <2>4
  <2>6. st[op] \in {"new", "FAILED", "CANCELLED", "UNKNOWN_OUTCOME"}
    BY <2>1, AdmittedStatus
  <2>7. Once!Begin(op)
    BY <2>5, <2>6 DEF Once!Begin, Once!MayBegin, StatusOf
  <2> QED
    BY <2>7 DEF Once!Next
<1>5. ASSUME NEW c \in Callers, Call(c) PROVE Once!Next \/ UNCHANGED vars
  BY <1>3, <1>4, <1>5 DEF Call, Answered
<1> QED
  BY <1>1, <1>2, <1>5 DEF Next

\* Every behaviour of the ledger is one of AtMostOnce: an operation is executed by one
\* body at a time and again only after an outcome other than success.
THEOREM LedgerImplementsAtMostOnce == Spec => ExecutedAtMostOnce
<1>1. Init => Once!Init
  BY DEF Init, Once!Init, Known
<1>2. IInv /\ [Next]_vars => [Once!Next]_([op \in Ops |-> IF Known(op) THEN Latest(op).state ELSE "new"])
  BY StepRefines DEF StatusOf
<1> QED
  BY <1>1, <1>2, Inductive, PTL DEF Spec, ExecutedAtMostOnce, Once!Spec
=============================================================================
