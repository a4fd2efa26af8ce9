------------------------- MODULE ChannelTurnsProofs -------------------------
(***************************************************************************)
(* Safety of ChannelTurns: every message is in one place until its end, is *)
(* saved once unless it changes its route, is not injected without an      *)
(* iteration to answer it in, and /stop reaches the turn that runs.        *)
(*                                                                         *)
(* A message moves between four kinds of places, each with its own count;  *)
(* an action empties one of them and fills another.                        *)
(***************************************************************************)
EXTENDS ChannelTurns, FiniteSetTheorems, SequenceTheorems, WellFoundedInduction, TLAPS

Waiting == line[Session]
Turn == holder[Session]

\* The tasks in the line are there once, the handlers among them wait; a handler that
\* works on a message has the turn, and loses it only on its way out.
LineInv ==
    /\ \A i, j \in DOMAIN Waiting : Waiting[i] = Waiting[j] => i = j
    /\ \A h \in Handlers : pc[h] = "waiting" <=> h \in ToSet(Waiting)
    /\ \A h \in Handlers : pc[h] \in {"starting", "loop", "called"} => Turn = h
    /\ \A h \in Handlers : Turn = h => pc[h] \in {"starting", "loop", "called", "leaving"}

TurnInv == LineInv /\ StopReachesTheTurn

\* Only in the loop are there messages that the model has not seen, and then there is
\* an iteration left.
BudgetInv ==
    /\ \A h \in Handlers : fresh[h] # {} => pc[h] = "loop" /\ left[h] # 0
    /\ InjectionIsPaidFor

OnBus(m) == {i \in DOMAIN bus : m \in ToSet(bus[i].body)}
Queued(m) == {i \in DOMAIN pending : m \in ToSet(pending[i])}
Read(m) == {h \in Handlers : m \in fresh[h]}
Held(m) == {h \in Handlers : pc[h] \in Hand /\ m \in Body(h)}

Single(S) == \E x : S = {x}

Nowhere(m) == OnBus(m) = {} /\ Queued(m) = {} /\ Read(m) = {} /\ Held(m) = {}

Somewhere(m) ==
    \/ Single(OnBus(m)) /\ Queued(m) = {} /\ Read(m) = {} /\ Held(m) = {}
    \/ OnBus(m) = {} /\ Single(Queued(m)) /\ Read(m) = {} /\ Held(m) = {}
    \/ OnBus(m) = {} /\ Queued(m) = {} /\ Single(Read(m)) /\ Held(m) = {}
    \/ OnBus(m) = {} /\ Queued(m) = {} /\ Read(m) = {} /\ Single(Held(m))

Pending(m) == m <= sent /\ fate[m] = "none"

Placed(m) == IF Pending(m) THEN Somewhere(m) ELSE Nowhere(m)

PlaceInv ==
    /\ \A m \in Msgs : Placed(m)
    /\ \A m \in Msgs : fate[m] # "none" => m <= sent
    /\ \A b \in ToSet(hashes) : \A m \in ToSet(b) : m <= sent

\* The mark on a message tells whether it was saved; in the inbox and in the context
\* all were.
NotYetSaved == \A m \in Msgs : m > sent => saved[m] = 0

BusMarks ==
    \A i \in DOMAIN bus : \A m \in ToSet(bus[i].body) :
        saved[m] = IF bus[i].persisted THEN 1 ELSE 0

HandMarks ==
    \A h \in Handlers :
        /\ pc[h] \in Hand =>
               \A m \in Body(h) : saved[m] = IF carrier[h].persisted THEN 1 ELSE 0
        /\ pc[h] = "saving" => ~carrier[h].persisted

InboxIsSaved == \A i \in DOMAIN pending : \A m \in ToSet(pending[i]) : saved[m] = 1
ContextIsSaved == \A h \in Handlers : \A m \in fresh[h] : saved[m] >= 1

SavedInv ==
    NotYetSaved /\ BusMarks /\ HandMarks /\ InboxIsSaved /\ ContextIsSaved /\ SavedOnce

\* A handler has no route before it has chosen one; a message that comes back from the
\* inbox and is taken straight to the coding agent is noted.
WayInv ==
    /\ \A h \in Handlers : pc[h] \in {"idle", "received"} => h \notin direct
    /\ \A h \in Handlers :
          pc[h] \in Hand /\ h \in direct /\ carrier[h].persisted => Body(h) \subseteq rerouted

IInv == TypeOK /\ TurnInv /\ BudgetInv /\ PlaceInv /\ WayInv /\ SavedInv

-----------------------------------------------------------------------------
(***************************************************************************)
(* The inbox as one body: FlattenSeq.                                      *)
(***************************************************************************)

\* A set of naturals has a smallest element; so a statement about the first n bodies
\* holds for every n when no n is the first for which it fails.
LEMMA Smallest ==
    ASSUME NEW T \in SUBSET Nat, T # {}
    PROVE  \E n \in T : \A k \in T : n <= k
<1> DEFINE R == {ss \in Nat \X Nat : ss[1] < ss[2]}
<1>1. IsWellFoundedOn(R, Nat)
  BY NatLessThanWellFounded DEF OpToRel
<1>2. PICK n \in T : \A k \in T : ~ (<<k, n>> \in R)
  <2> HIDE DEF R
  <2> QED
    BY <1>1, WFMin
<1>3. \A k \in T : ~ (k < n)
  BY <1>2
<1> QED
  BY <1>3

\* g lists the concatenations of the first 1 .. n bodies of q.
Partial(q, n, g) == g = [i \in 1..n |-> IF i = 1 THEN q[i] ELSE g[i-1] \o q[i]]

\* The partial concatenations that FlattenSeq chooses exist.
LEMMA PartialExists ==
    ASSUME NEW q, NEW n \in Nat
    PROVE  \E g : Partial(q, n, g)
<1> DEFINE T == {k \in Nat : ~ \E g : Partial(q, k, g)}
<1>1. SUFFICES ASSUME T # {} PROVE FALSE
  OBVIOUS
<1>2. PICK m \in T : \A k \in T : m <= k
  <2> HIDE DEF T
  <2>1. T \in SUBSET Nat
    BY DEF T
  <2> QED
    BY <1>1, <2>1, Smallest
<1>3. m # 0
  <2>1. Partial(q, 0, [i \in 1..0 |-> 0])
    BY DEF Partial
  <2> QED
    BY <2>1
<1>4. PICK g : Partial(q, m-1, g)
  BY <1>2, <1>3
<1> DEFINE h == [i \in 1..m |-> IF i = 1 THEN q[i] ELSE g[i-1] \o q[i]]
<1>5. \A i \in 1..m-1 : h[i] = g[i]
  <2> SUFFICES ASSUME NEW i \in 1..m-1 PROVE h[i] = g[i]
    OBVIOUS
  <2>0. m \in Nat
    BY <1>2
  <2>1. h[i] = IF i = 1 THEN q[i] ELSE g[i-1] \o q[i]
    BY <2>0
  <2>2. g[i] = IF i = 1 THEN q[i] ELSE g[i-1] \o q[i]
    <3> HIDE DEF h, T
    <3> DEFINE e == [k \in 1..m-1 |-> IF k = 1 THEN q[k] ELSE g[k-1] \o q[k]]
    <3>1. g = e
      BY <1>4 DEF Partial
    <3>2. e[i] = IF i = 1 THEN q[i] ELSE g[i-1] \o q[i]
      OBVIOUS
    <3> HIDE DEF e
    <3> QED
      BY <3>1, <3>2
  <2> QED
    BY <2>1, <2>2
<1>6. Partial(q, m, h)
  <2>1. \A i \in 1..m : i # 1 => h[i-1] = g[i-1]
    <3> HIDE DEF h
    <3>1. m \in Nat
      BY <1>2
    <3> QED
      BY <1>5, <3>1
  <2>2. [i \in 1..m |-> IF i = 1 THEN q[i] ELSE g[i-1] \o q[i]]
         = [i \in 1..m |-> IF i = 1 THEN q[i] ELSE h[i-1] \o q[i]]
    <3> HIDE DEF h
    <3> QED BY <2>1
  <2> QED
    BY <2>2 DEF Partial
<1> QED
  BY <1>6

\* FlattenSeq, which Requeue merges the inbox with, is the last partial concatenation.
LEMMA FlattenIsPartial ==
    ASSUME NEW q, Len(q) \in Nat \ {0}
    PROVE  \E g : Partial(q, Len(q), g) /\ FlattenSeq(q) = g[Len(q)]
<1> DEFINE f == CHOOSE g : Partial(q, Len(q), g)
<1>1. Partial(q, Len(q), f)
  BY PartialExists
<1>2. FlattenSeq(q) = f[Len(q)]
  BY DEF FlattenSeq, Partial
<1> QED
  BY <1>1, <1>2

\* A concatenation holds what its two parts hold.
LEMMA ConcatFacts ==
    ASSUME NEW S, NEW a \in Seq(S), NEW b \in Seq(S)
    PROVE  a \o b \in Seq(S) /\ ToSet(a \o b) = ToSet(a) \union ToSet(b)
<1>1. /\ a \o b \in Seq(S) /\ Len(a \o b) = Len(a) + Len(b)
      /\ \A i \in 1 .. Len(a) + Len(b) :
            (a \o b)[i] = IF i <= Len(a) THEN a[i] ELSE b[i - Len(a)]
  BY ConcatProperties
<1> DEFINE c == a \o b
<1>2. c \in Seq(S) /\ Len(c) = Len(a) + Len(b)
  BY <1>1
<1>3. \A i \in 1 .. Len(c) : c[i] = IF i <= Len(a) THEN a[i] ELSE b[i - Len(a)]
  BY <1>1
<1> HIDE DEF c
<1>4. ASSUME NEW x \in ToSet(a) PROVE x \in ToSet(c)
  BY <1>2, <1>3, <1>4 DEF ToSet
<1>5. ASSUME NEW x \in ToSet(b) PROVE x \in ToSet(c)
  <2>1. PICK j \in 1..Len(b) : x = b[j]
    BY <1>5 DEF ToSet
  <2>2. c[Len(a) + j] = x /\ Len(a) + j \in DOMAIN c
    <3>1. Len(a) \in Nat /\ Len(b) \in Nat /\ DOMAIN c = 1..Len(c)
      BY <1>2
    <3>2. /\ Len(a) + j \in 1..Len(c) /\ ~ (Len(a) + j <= Len(a))
          /\ (Len(a) + j) - Len(a) = j
      BY <2>1, <3>1, <1>2
    <3> QED
      BY <2>1, <3>1, <3>2, <1>3
  <2> QED
    BY <2>2 DEF ToSet
<1>6. ASSUME NEW x \in ToSet(c) PROVE x \in ToSet(a) \union ToSet(b)
  <2>1. PICK j \in 1..Len(c) : x = c[j]
    BY <1>2, <1>6 DEF ToSet
  <2> QED
    BY <2>1, <1>2, <1>3 DEF ToSet
<1>7. ToSet(c) = ToSet(a) \union ToSet(b)
  BY <1>4, <1>5, <1>6
<1> QED
  BY <1>2, <1>7 DEF c

\* Merging the inbox for the bus neither loses nor adds a message.
LEMMA FlattenFacts ==
    ASSUME NEW S, NEW q \in Seq(Seq(S))
    PROVE  /\ FlattenSeq(q) \in Seq(S)
           /\ ToSet(FlattenSeq(q)) = UNION {ToSet(q[i]) : i \in DOMAIN q}
<1>1. CASE q = <<>>
  BY <1>1 DEF FlattenSeq, ToSet
<1>2. CASE q # <<>>
  <2>0. Len(q) \in Nat \ {0}
    BY <1>2
  <2>1. PICK g : Partial(q, Len(q), g) /\ FlattenSeq(q) = g[Len(q)]
    BY <2>0, FlattenIsPartial
  <2>2. \A i \in 1..Len(q) : g[i] = IF i = 1 THEN q[i] ELSE g[i-1] \o q[i]
    <3> SUFFICES ASSUME NEW i \in 1..Len(q) 
                 PROVE g[i] = IF i = 1 THEN q[i] ELSE g[i-1] \o q[i]
      OBVIOUS
    <3> DEFINE e == [k \in 1..Len(q) |-> IF k = 1 THEN q[k] ELSE g[k-1] \o q[k]]
    <3>1. g = e
      BY <2>1 DEF Partial
    <3>2. e[i] = IF i = 1 THEN q[i] ELSE g[i-1] \o q[i]
      OBVIOUS
    <3> HIDE DEF e
    <3> QED
      BY <3>1, <3>2
  <2> DEFINE Good(n) == /\ g[n] \in Seq(S)
                        /\ ToSet(g[n]) = UNION {ToSet(q[i]) : i \in 1..n}
             T == {n \in 1..Len(q) : ~ Good(n)}
  <2>3. ASSUME T # {} PROVE FALSE
    <3>1. PICK m \in T : \A k \in T : m <= k
      <4> HIDE DEF Good
      <4>1. T \in SUBSET Nat
        OBVIOUS
      <4> HIDE DEF T
      <4> QED
        BY <2>3, <4>1, Smallest
    <3>2. m \in 1..Len(q) /\ ~ Good(m) /\ q[m] \in Seq(S)
      BY <3>1
    <3>3. CASE m = 1
      <4>1. g[m] = q[m]
        BY <2>2, <3>2, <3>3
      <4>2. UNION {ToSet(q[i]) : i \in 1..m} = ToSet(q[m])
        BY <3>3
      <4> QED
        BY <3>2, <4>1, <4>2
    <3>4. CASE m # 1
      <4>0. m-1 \in 1..Len(q) /\ ~ (m-1 \in T)
        <5> HIDE DEF T, Good
        <5> QED
          BY <3>1, <3>2, <3>4
      <4>1. Good(m-1)
        <5> HIDE DEF Good
        <5> QED
          BY <4>0
      <4>2. g[m] = g[m-1] \o q[m]
        BY <2>2, <3>2, <3>4
      <4>3. g[m-1] \in Seq(S)
        BY <4>1
      <4>4. g[m] \in Seq(S) /\ ToSet(g[m]) = ToSet(g[m-1]) \union ToSet(q[m])
        <5> HIDE DEF Good, T
        <5> QED
          BY <4>2, <4>3, <3>2, ConcatFacts
      <4>5. (UNION {ToSet(q[i]) : i \in 1..m})
            = (UNION {ToSet(q[i]) : i \in 1..m-1}) \union ToSet(q[m])
        <5>1. 1..m = (1..m-1) \union {m}
          BY <3>2
        <5> QED
          BY <5>1
      <4> QED
        BY <4>1, <4>4, <4>5, <3>2
    <3> QED
      BY <3>3, <3>4
  <2>4. Good(Len(q))
    <3> HIDE DEF Good
    <3> QED
      BY <2>3, <2>0
  <2>5. DOMAIN q = 1..Len(q)
    OBVIOUS
  <2> QED
    BY <2>1, <2>4, <2>5
<1> QED
  BY <1>1, <1>2
-----------------------------------------------------------------------------

\* A body that joins the deduplication window is the only new one there.
LEMMA WindowGrows ==
    ASSUME TypeOK, NEW b \in Seq(Msgs), hashes' = Append(hashes, b)
    PROVE  ToSet(hashes') = ToSet(hashes) \union {b}
<1>0. hashes \in Seq(Seq(Msgs))
  BY DEF TypeOK
<1>1. /\ DOMAIN hashes = 1..Len(hashes) /\ Len(hashes) \in Nat
      /\ DOMAIN hashes' = 1..Len(hashes) + 1
      /\ \A i \in 1..Len(hashes) : hashes'[i] = hashes[i]
      /\ hashes'[Len(hashes) + 1] = b
  <2>1. hashes' \in Seq(Seq(Msgs))
    BY <1>0, AppendProperties
  <2> QED
    BY <1>0, <2>1, AppendProperties
<1> QED
  BY <1>1 DEF ToSet

\* The body whose window has passed leaves no other behind.
LEMMA WindowShrinks ==
    ASSUME TypeOK, hashes # <<>>, hashes' = Tail(hashes)
    PROVE  ToSet(hashes') \subseteq ToSet(hashes)
<1>0. hashes \in Seq(Seq(Msgs)) /\ Len(hashes) \in Nat \ {0}
  BY DEF TypeOK
<1>1. /\ DOMAIN hashes = 1..Len(hashes)
      /\ DOMAIN hashes' = 1..Len(hashes) - 1
      /\ \A i \in 1..Len(hashes) - 1 : hashes'[i] = hashes[i + 1]
  <2>1. hashes' \in Seq(Seq(Msgs))
    BY <1>0, HeadTailProperties
  <2> QED
    BY <1>0, <2>1, HeadTailProperties
<1>2. \A i \in 1..Len(hashes) - 1 : i + 1 \in 1..Len(hashes)
  BY <1>0
<1> QED
  BY <1>1, <1>2 DEF ToSet

\* enqueue leaves a queue of carriers and a window of bodies.
LEMMA EnqueueType ==
    ASSUME TypeOK, NEW c \in Carriers, Enqueue(c)
    PROVE  bus' \in Seq(Carriers) /\ hashes' \in Seq(Seq(Msgs))
<1>1. c.body \in Seq(Msgs)
  BY DEF Carriers
<1>2. Append(bus, c) \in Seq(Carriers) /\ Append(hashes, c.body) \in Seq(Seq(Msgs))
  BY <1>1, AppendProperties DEF TypeOK
<1> QED
  BY <1>1, <1>2 DEF TypeOK, Enqueue, busVars

\* A handler, the inbox and the bus hold messages of the user only.
LEMMA Bodies ==
    ASSUME TypeOK
    PROVE  /\ \A h \in Handlers : Body(h) \subseteq Msgs
           /\ InInbox \subseteq Msgs
           /\ \A i \in DOMAIN bus : ToSet(bus[i].body) \subseteq Msgs
<1>1. ASSUME NEW q \in Seq(Msgs) PROVE ToSet(q) \subseteq Msgs
  BY DEF ToSet
<1>2. \A h \in Handlers : carrier[h].body \in Seq(Msgs)
  BY DEF TypeOK, Carriers
<1>3. \A i \in DOMAIN pending : pending[i] \in Seq(Msgs)
  BY DEF TypeOK
<1>4. \A i \in DOMAIN bus : bus[i].body \in Seq(Msgs)
  <2>1. \A i \in DOMAIN bus : bus[i] \in Carriers
    BY DEF TypeOK
  <2>2. \A c \in Carriers : c.body \in Seq(Msgs)
    BY DEF Carriers
  <2> QED
    BY <2>1, <2>2
<1> QED
  BY <1>1, <1>2, <1>3, <1>4 DEF Body, InInbox

\* What the finally clause puts back on the bus is a carrier.
LEMMA RequeueType ==
    ASSUME TypeOK, ChannelAssumption
    PROVE  [body |-> FlattenSeq(pending), persisted |-> TRUE] \in Carriers
<1>1. FlattenSeq(pending) \in Seq(Msgs)
  BY FlattenFacts DEF TypeOK
<1> QED
  BY <1>1 DEF Carriers

\* No step of the handlers, the bus, the gate or /stop takes a variable out of its type.
LEMMA TypeStep ==
    ASSUME ChannelAssumption, TypeOK, [Next]_vars
    PROVE  TypeOK'
<1> USE DEF TypeOK, routing, way
<1>0. NoCarrier \in Carriers
  BY DEF NoCarrier, Carriers
<1>b. ASSUME NEW ms, NEW f \in Fates, Becomes(ms, f) PROVE fate' \in [Msgs -> Fates]
  BY <1>b DEF Becomes
<1>s. ASSUME NEW ms, Save(ms) PROVE saved' \in [Msgs -> Nat]
  BY <1>s DEF Save
<1>g. ASSUME NEW h \in Handlers, NEW l \in PCs, Goto(h, l) PROVE pc' \in [Handlers -> PCs]
  BY <1>g DEF Goto
<1>j. ASSUME NEW t \in Handlers \union Others, Gate!Start(t, Session) \/ Gate!Join(t, Session)
      PROVE  /\ line' \in [{Session} -> Seq(Handlers \union Others)]
             /\ holder' \in [{Session} -> Handlers \union Others \union {NoTask}]
  <2>1. Append(line[Session], t) \in Seq(Handlers \union Others)
    BY AppendProperties
  <2>2. CASE Gate!Start(t, Session)
    BY <2>2 DEF Gate!Start
  <2>3. CASE Gate!Join(t, Session)
    <3> DEFINE longer == Append(line[Session], t)
    <3>1. line' = [line EXCEPT ![Session] = longer] /\ UNCHANGED holder
      BY <2>3 DEF Gate!Join
    <3>2. longer \in Seq(Handlers \union Others)
      BY <2>1
    <3> HIDE DEF longer
    <3> QED
      BY <3>1, <3>2
  <2> QED
    BY <1>j, <2>2, <2>3
<1>1. CASE Publish
  <2>1. sent' \in 0 .. NMsgs /\ sent + 1 \in Msgs
    BY <1>1 DEF Publish, ChannelAssumption, Msgs
  <2>2. [body |-> <<sent + 1>>, persisted |-> FALSE] \in Carriers
    BY <2>1 DEF Carriers
  <2>3. bus' \in Seq(Carriers) /\ hashes' \in Seq(Seq(Msgs))
    BY <2>2, <1>1, EnqueueType DEF Publish
  <2> QED
    BY <1>1, <2>1, <2>3 DEF Publish, gate
<1>2. ASSUME NEW m \in Msgs, Redeliver(m) PROVE TypeOK'
  <2>1. [body |-> <<m>>, persisted |-> FALSE] \in Carriers
    BY DEF Carriers
  <2>2. bus' \in Seq(Carriers) /\ hashes' \in Seq(Seq(Msgs))
    BY <2>1, <1>2, EnqueueType DEF Redeliver
  <2> QED
    BY <1>2, <2>2 DEF Redeliver, gate
<1>3. CASE Expire
  <2>1. hashes' \in Seq(Seq(Msgs))
    BY <1>3, HeadTailProperties DEF Expire
  <2> QED
    BY <1>3, <2>1 DEF Expire, gate
<1>4. ASSUME NEW h \in Handlers, Consume(h) PROVE TypeOK'
  <2>1. Head(bus) \in Carriers /\ Tail(bus) \in Seq(Carriers)
    BY <1>4, HeadTailProperties DEF Consume
  <2>2. pc' \in [Handlers -> PCs]
    BY <1>4, <1>g DEF Consume, PCs
  <2> QED
    BY <1>4, <2>1, <2>2 DEF Consume, gate
<1>5. ASSUME NEW h \in Handlers, HandlerStep(h) PROVE TypeOK'
  <2>p. ASSUME EnqueuePending(h)
        PROVE  /\ pending' \in Seq(Seq(Msgs)) /\ carrier' \in [Handlers -> Carriers]
               /\ pc' \in [Handlers -> PCs]
    <3>1. carrier[h].body \in Seq(Msgs)
      BY DEF Carriers
    <3>2. pending' \in Seq(Seq(Msgs))
      BY <2>p, <3>1, AppendProperties DEF EnqueuePending
    <3>3. pc' \in [Handlers -> PCs]
      BY <2>p, <1>g DEF EnqueuePending, PCs
    <3> QED
      BY <2>p, <3>2, <3>3, <1>0 DEF EnqueuePending
  <2>r. ASSUME Reset(h)
        PROVE  /\ pc' \in [Handlers -> PCs] /\ carrier' \in [Handlers -> Carriers]
               /\ direct' \in SUBSET Handlers /\ rerouted' = rerouted
               /\ cancelled' \in SUBSET Handlers /\ left' \in [Handlers -> Nat] /\ fresh' = fresh
    <3>1. pc' \in [Handlers -> PCs]
      BY <2>r, <1>g DEF Reset, PCs
    <3> QED
      BY <2>r, <3>1, <1>0 DEF Reset
  <2>e. ASSUME NEW f \in Fates, EndLoop(h, f) PROVE TypeOK'
    <3>1. pc' \in [Handlers -> PCs]
      BY <2>e, <1>g DEF EndLoop, PCs
    <3>2. fate' \in [Msgs -> Fates]
      BY <2>e, <1>b DEF EndLoop
    <3>3. fresh' \in [Handlers -> SUBSET Msgs]
      BY <2>e DEF EndLoop
    <3> QED
      BY <2>e, <3>1, <3>2, <3>3 DEF EndLoop, gate, busVars
  <2>f. Gate!Finish(Session) => /\ line' = line
                               /\ holder' \in [{Session} -> Handlers \union Others \union {NoTask}]
    BY DEF Gate!Finish
  <2>1. CASE QueueSaved(h)
    BY <2>1, <2>p DEF QueueSaved, gate, busVars
  <2>2. CASE StartSaving(h)
    <3>1. pc' \in [Handlers -> PCs]
      BY <2>2, <1>g DEF StartSaving, PCs
    <3> QED
      BY <2>2, <3>1 DEF StartSaving, gate, busVars
  <2>3. CASE QueueAfterSave(h)
    <3>1. saved' \in [Msgs -> Nat]
      BY <2>3, <1>s DEF QueueAfterSave
    <3> QED
      BY <2>3, <2>p, <3>1 DEF QueueAfterSave, gate, busVars
  <2>4. CASE RefuseDirect(h)
    <3>1. pc' \in [Handlers -> PCs]
      BY <2>4, <1>g DEF RefuseDirect, PCs
    <3>2. fate' \in [Msgs -> Fates]
      BY <2>4, <1>b DEF RefuseDirect, Fates
    <3> QED
      BY <2>4, <3>1, <3>2, <1>0 DEF RefuseDirect, gate, busVars
  <2>5. CASE RequestTurn(h)
    <3>1. pc' \in [Handlers -> PCs] /\ active' \in Handlers \union {NoTask}
      BY <2>5, <1>g DEF RequestTurn, PCs
    <3>2. /\ line' \in [{Session} -> Seq(Handlers \union Others)]
          /\ holder' \in [{Session} -> Handlers \union Others \union {NoTask}]
      BY <2>5, <1>j DEF RequestTurn
    <3> QED
      BY <2>5, <3>1, <3>2 DEF RequestTurn, busVars
  <2>6. CASE StartLoop(h)
    <3>1. pc' \in [Handlers -> PCs]
      BY <2>6, <1>g DEF StartLoop, PCs
    <3>2. saved' \in [Msgs -> Nat]
      BY <2>6, <1>s DEF StartLoop
    <3>3. fresh' \in [Handlers -> SUBSET Msgs] /\ left' \in [Handlers -> Nat]
      BY <2>6, Bodies DEF StartLoop, ChannelAssumption
    <3> QED
      BY <2>6, <3>1, <3>2, <3>3 DEF StartLoop, gate, busVars
  <2>7. CASE CallModel(h)
    <3>1. pc' \in [Handlers -> PCs]
      BY <2>7, <1>g DEF CallModel, PCs
    <3>2. fate' \in [Msgs -> Fates]
      BY <2>7, <1>b DEF CallModel, Fates
    <3>3. fresh' \in [Handlers -> SUBSET Msgs] /\ left' \in [Handlers -> Nat]
      BY <2>7 DEF CallModel
    <3> QED
      BY <2>7, <3>1, <3>2, <3>3 DEF CallModel, gate, busVars
  <2>8. CASE ToolBatch(h)
    <3>1. pc' \in [Handlers -> PCs]
      BY <2>8, <1>g DEF ToolBatch, PCs
    <3>2. /\ pending' = <<>>
          /\ fresh' = [fresh EXCEPT ![h] = @ \union InInbox]
          /\ left' = [left EXCEPT ![h] = IF pending = <<>> THEN @ ELSE @ + 1]
      BY <2>8 DEF ToolBatch, Inject, TakePending
    <3>3. fresh' \in [Handlers -> SUBSET Msgs] /\ left' \in [Handlers -> Nat]
      BY <3>2, Bodies
    <3>4. pending' \in Seq(Seq(Msgs))
      BY <3>2
    <3> QED
      BY <2>8, <3>1, <3>3, <3>4 DEF ToolBatch, gate, busVars
  <2>9. CASE RepeatHardStop(h)
    <3>1. pc' \in [Handlers -> PCs]
      BY <2>9, <1>g DEF RepeatHardStop, PCs
    <3>2. fate' \in [Msgs -> Fates]
      BY <2>9, <1>b DEF RepeatHardStop, Fates
    <3>3. pending' \in Seq(Seq(Msgs))
      BY <2>9 DEF RepeatHardStop, TakePending
    <3> QED
      BY <2>9, <3>1, <3>2, <3>3 DEF RepeatHardStop, gate, busVars
  <2>10. CASE Answer(h)
    BY <2>10, <2>e DEF Answer, Fates
  <2>11. CASE BudgetSpent(h)
    BY <2>11, <2>e DEF BudgetSpent, Fates
  <2>12. CASE Interrupted(h)
    BY <2>12, <2>e DEF Interrupted, Fates
  <2>13. CASE Fail(h)
    <3>1. pc' \in [Handlers -> PCs]
      BY <2>13, <1>g DEF Fail, PCs
    <3>2. fate' \in [Msgs -> Fates]
      BY <2>13, <1>b DEF Fail, Fates
    <3>3. fresh' \in [Handlers -> SUBSET Msgs]
      BY <2>13 DEF Fail
    <3> QED
      BY <2>13, <3>1, <3>2, <3>3 DEF Fail, gate, busVars
  <2>14. CASE LeaveTurn(h)
    <3>1. fate' \in [Msgs -> Fates] /\ bus' \in Seq(Carriers) /\ hashes' \in Seq(Seq(Msgs))
      <4>1. CASE h \in cancelled
        BY <4>1, <2>14, <1>b DEF LeaveTurn, Fates, busVars
      <4>2. CASE h \notin cancelled /\ pending = <<>>
        BY <4>2, <2>14 DEF LeaveTurn, busVars
      <4>3. CASE h \notin cancelled /\ pending # <<>>
        <5>1. Requeue(h, FlattenSeq(pending))
          BY <4>3, <2>14 DEF LeaveTurn
        <5>2. bus' \in Seq(Carriers) /\ hashes' \in Seq(Seq(Msgs))
          BY <5>1, RequeueType, EnqueueType DEF Requeue
        <5>3. fate' \in [Msgs -> Fates]
          BY <5>1, <1>b DEF Requeue, Fates
        <5> QED
          BY <5>2, <5>3
      <4> QED
        BY <4>1, <4>2, <4>3
    <3>2. active' \in Handlers \union {NoTask} /\ pending' \in Seq(Seq(Msgs))
      BY <2>14 DEF LeaveTurn, ForgetToken
    <3> QED
      BY <2>14, <2>f, <2>r, <3>1, <3>2 DEF LeaveTurn
  <2>15. CASE LeaveDirect(h)
    BY <2>15, <2>f, <2>r DEF LeaveDirect, busVars
  <2>16. CASE LeaveQueued(h)
    BY <2>16, <2>r DEF LeaveQueued, ForgetToken, busVars, gate
  <2>17. CASE ChooseRoute(h)
    <3>1. pc' \in [Handlers -> PCs]
      BY <2>17, <1>g DEF ChooseRoute, PCs
    <3>2. direct' \in SUBSET Handlers /\ rerouted' \in SUBSET Msgs
      BY <2>17, Bodies DEF ChooseRoute
    <3> QED
      BY <2>17, <3>1, <3>2 DEF ChooseRoute, gate, busVars
  <2> QED
    BY <1>5, <2>1, <2>2, <2>3, <2>4, <2>5, <2>6, <2>7, <2>8, <2>9, <2>10, <2>11, <2>12,
       <2>13, <2>14, <2>15, <2>16, <2>17 DEF HandlerStep
<1>6. CASE GrantTurn
  <2>1. /\ line' \in [{Session} -> Seq(Handlers \union Others)]
        /\ holder' \in [{Session} -> Handlers \union Others \union {NoTask}]
    BY <1>6, HeadTailProperties DEF GrantTurn, Gate!Grant
  <2>2. pc' \in [Handlers -> PCs] /\ active' \in Handlers \union {NoTask}
    BY <1>6, <1>g DEF GrantTurn, PCs
  <2> QED
    BY <1>6, <2>1, <2>2 DEF GrantTurn, busVars
<1>7. ASSUME NEW o \in Others, OtherRequest(o) PROVE TypeOK'
  <2>1. /\ line' \in [{Session} -> Seq(Handlers \union Others)]
        /\ holder' \in [{Session} -> Handlers \union Others \union {NoTask}]
    BY <1>7, <1>j DEF OtherRequest
  <2> QED
    BY <1>7, <2>1 DEF OtherRequest, busVars
<1>8. CASE OtherFinish
  BY <1>8 DEF OtherFinish, Gate!Finish, busVars
<1>9. CASE Stop
  <2>1. stops' \in 0 .. MaxStops
    BY <1>9 DEF Stop, ChannelAssumption
  <2>2. fate' \in [Msgs -> Fates]
    BY <1>9, <1>b DEF Stop, Fates
  <2>3. pending' \in Seq(Seq(Msgs)) /\ cancelled' \in SUBSET Handlers
    BY <1>9 DEF Stop, DiscardPending
  <2> QED
    BY <1>9, <2>1, <2>2, <2>3 DEF Stop, gate, busVars
<1>10. CASE UNCHANGED vars
  BY <1>10 DEF vars
<1>11. CASE SwitchRoute
  <2>1. switches' \in 0 .. MaxSwitches /\ route' \in Routes
    BY <1>11 DEF SwitchRoute, ChannelAssumption
  <2> QED
    BY <1>11, <2>1 DEF SwitchRoute, gate, busVars
<1> QED
  BY <1>1, <1>2, <1>3, <1>4, <1>5, <1>6, <1>7, <1>8, <1>9, <1>10, <1>11 DEF Next

-----------------------------------------------------------------------------
(***************************************************************************)
(* The turn.                                                               *)
(***************************************************************************)

\* A handler that moves on its own, neither into nor out of the line, keeps TurnInv.
LEMMA LocalMove ==
    ASSUME TypeOK, TurnInv, NEW h \in Handlers, NEW l \in PCs, Goto(h, l),
           UNCHANGED <<line, holder, active, cancelled>>,
           pc[h] # "waiting", l # "waiting",
           l \in {"starting", "loop", "called"} => Turn = h,
           Turn = h => l \in {"starting", "loop", "called", "leaving"}
    PROVE  TurnInv'
<1>1. \A g \in Handlers : pc'[g] = IF g = h THEN l ELSE pc[g]
  BY DEF Goto, TypeOK
<1>2. LineInv'
  BY <1>1 DEF TurnInv, LineInv, Waiting, Turn, ToSet
<1>3. StopReachesTheTurn'
  BY DEF TurnInv, StopReachesTheTurn
<1> QED
  BY <1>2, <1>3 DEF TurnInv

\* The line, the turn and the registered token go together in every step: in acquire,
\* in the finally clauses, and in those of the tasks that have no turn.
LEMMA TurnStep ==
    ASSUME ChannelAssumption, TypeOK, TurnInv, [Next]_vars
    PROVE  TurnInv'
<1> USE DEF TurnInv, LineInv, StopReachesTheTurn, Waiting, Turn
<1>t. /\ line \in [{Session} -> Seq(Handlers \union Others)]
      /\ holder \in [{Session} -> Handlers \union Others \union {NoTask}]
      /\ active \in Handlers \union {NoTask} /\ pc \in [Handlers -> PCs]
      /\ cancelled \subseteq Handlers
  BY DEF TypeOK
<1>n. NoTask \notin Handlers \union Others /\ Handlers \intersect Others = {}
  BY DEF ChannelAssumption
\* Nobody in the line has the turn or comes to it twice.
<1>a. ASSUME NEW t \in Handlers \union Others, Gate!Start(t, Session)
      PROVE  /\ line' = line /\ holder'[Session] = t /\ holder[Session] = NoTask
             /\ line[Session] = <<>> /\ t \notin ToSet(line[Session])
  BY <1>a, <1>t DEF Gate!Start, Gate!Absent, Gate!ToSet, ToSet
<1>j. ASSUME NEW t \in Handlers \union Others, Gate!Join(t, Session)
      PROVE  /\ holder' = holder /\ holder[Session] # t
             /\ ToSet(line'[Session]) = ToSet(line[Session]) \union {t}
             /\ \A i, j \in DOMAIN line'[Session] : line'[Session][i] = line'[Session][j] => i = j
  <2>1. /\ line'[Session] = Append(line[Session], t) /\ holder' = holder
        /\ holder[Session] # t /\ t \notin ToSet(line[Session])
    BY <1>j, <1>t DEF Gate!Join, Gate!Absent, Gate!ToSet, ToSet
  <2> DEFINE q == line[Session]
             r == line'[Session]
  <2>2. q \in Seq(Handlers \union Others) /\ r = Append(q, t)
    BY <1>t, <2>1
  <2>3. /\ Len(r) = Len(q) + 1 /\ DOMAIN r = 1..Len(q)+1 /\ DOMAIN q = 1..Len(q)
        /\ Len(q) \in Nat
        /\ \A i \in 1..Len(q) : r[i] = q[i]
        /\ r[Len(q)+1] = t
    <3> HIDE DEF q, r
    <3>1. r \in Seq(Handlers \union Others)
      BY <2>2, AppendProperties
    <3> QED
      BY <2>2, <3>1, AppendProperties
  <2>4. \A i \in 1..Len(q) : q[i] # t
    BY <2>1, <2>3 DEF ToSet
  <2>5. \A i, j \in 1..Len(q) : q[i] = q[j] => i = j
    BY <2>3
  <2>6. ToSet(r) = ToSet(q) \union {t}
    <3> HIDE DEF q, r
    <3> QED
      BY <2>3 DEF ToSet
  <2>7. \A i, j \in DOMAIN r : r[i] = r[j] => i = j
    <3> HIDE DEF q, r
    <3> QED
      BY <2>3, <2>4, <2>5
  <2> QED
    BY <2>1, <2>6, <2>7
<1>1. CASE Publish
  BY <1>1 DEF Publish, gate
<1>2. ASSUME NEW m \in Msgs, Redeliver(m) PROVE TurnInv'
  BY <1>2 DEF Redeliver, gate
<1>3. CASE Expire
  BY <1>3 DEF Expire, gate
<1>4. ASSUME NEW h \in Handlers, Consume(h) PROVE TurnInv'
  <2>1. Goto(h, "received") /\ pc[h] = "idle" /\ UNCHANGED <<line, holder, active, cancelled>>
    BY <1>4 DEF Consume, gate
  <2> QED
    BY <2>1, LocalMove DEF PCs
<1>5. ASSUME NEW h \in Handlers, HandlerStep(h) PROVE TurnInv'
  <2>f. ASSUME Gate!Finish(Session)
        PROVE line' = line /\ holder'[Session] = NoTask
    BY <2>f, <1>t DEF Gate!Finish
  <2>r. ASSUME Reset(h)
        PROVE  /\ \A g \in Handlers : pc'[g] = IF g = h THEN "idle" ELSE pc[g]
               /\ cancelled' = cancelled \ {h}
    BY <2>r, <1>t DEF Reset, Goto
  <2>e. ASSUME NEW f \in Fates, EndLoop(h, f), pc[h] \in {"loop", "called"} PROVE TurnInv'
    <3>1. Goto(h, "leaving") /\ UNCHANGED <<line, holder, active, cancelled>>
      BY <2>e DEF EndLoop, gate
    <3> QED
      BY <2>e, <3>1, LocalMove DEF PCs
  <2>1. CASE QueueSaved(h)
    <3>1. /\ Goto(h, "leaving") /\ pc[h] = "routing"
          /\ UNCHANGED <<line, holder, active, cancelled>>
      BY <2>1 DEF QueueSaved, EnqueuePending, gate
    <3> QED
      BY <3>1, LocalMove DEF PCs
  <2>2. CASE StartSaving(h)
    <3>1. /\ Goto(h, "saving") /\ pc[h] = "routing"
          /\ UNCHANGED <<line, holder, active, cancelled>>
      BY <2>2 DEF StartSaving, gate
    <3> QED
      BY <3>1, LocalMove DEF PCs
  <2>3. CASE QueueAfterSave(h)
    <3>1. /\ Goto(h, "leaving") /\ pc[h] = "saving"
          /\ UNCHANGED <<line, holder, active, cancelled>>
      BY <2>3 DEF QueueAfterSave, EnqueuePending, gate
    <3> QED
      BY <3>1, LocalMove DEF PCs
  <2>4. CASE RefuseDirect(h)
    <3>1. /\ Goto(h, "idle") /\ pc[h] = "routing"
          /\ UNCHANGED <<line, holder, active, cancelled>>
      BY <2>4 DEF RefuseDirect, gate
    <3> QED
      BY <3>1, LocalMove DEF PCs
  <2>5. CASE RequestTurn(h)
    <3>0. pc[h] = "routing" /\ cancelled' = cancelled /\ holder[Session] = NoTask
      BY <2>5 DEF RequestTurn, Busy
    <3>1. CASE Gate!Start(h, Session) /\ Goto(h, "starting") /\ active' = h
      <4>1. \A g \in Handlers : pc'[g] = IF g = h THEN "starting" ELSE pc[g]
        BY <3>1, <1>t DEF Goto
      <4>2. cancelled = {}
        BY <3>0, <1>n, <1>t
      <4> QED
        BY <3>0, <3>1, <4>1, <4>2, <1>a, <1>n, <1>t
    <3>2. CASE Gate!Join(h, Session) /\ Goto(h, "waiting") /\ UNCHANGED active
      <4>1. \A g \in Handlers : pc'[g] = IF g = h THEN "waiting" ELSE pc[g]
        BY <3>2, <1>t DEF Goto
      <4> QED
        BY <3>0, <3>2, <4>1, <1>j, <1>n, <1>t
    <3> QED
      BY <2>5, <3>1, <3>2 DEF RequestTurn
  <2>6. CASE StartLoop(h)
    <3>1. /\ Goto(h, "loop") /\ pc[h] = "starting"
          /\ UNCHANGED <<line, holder, active, cancelled>>
      BY <2>6 DEF StartLoop, gate
    <3> QED
      BY <3>1, LocalMove DEF PCs
  <2>7. CASE CallModel(h)
    <3>1. /\ Goto(h, "called") /\ pc[h] = "loop"
          /\ UNCHANGED <<line, holder, active, cancelled>>
      BY <2>7 DEF CallModel, gate
    <3> QED
      BY <3>1, LocalMove DEF PCs
  <2>8. CASE ToolBatch(h)
    <3>1. /\ Goto(h, "loop") /\ pc[h] = "called"
          /\ UNCHANGED <<line, holder, active, cancelled>>
      BY <2>8 DEF ToolBatch, gate
    <3> QED
      BY <3>1, LocalMove DEF PCs
  <2>9. CASE RepeatHardStop(h)
    <3>1. /\ Goto(h, "leaving") /\ pc[h] = "called"
          /\ UNCHANGED <<line, holder, active, cancelled>>
      BY <2>9 DEF RepeatHardStop, gate
    <3> QED
      BY <3>1, LocalMove DEF PCs
  <2>10. CASE Answer(h)
    BY <2>10, <2>e DEF Answer, Fates
  <2>11. CASE BudgetSpent(h)
    BY <2>11, <2>e DEF BudgetSpent, Fates
  <2>12. CASE Interrupted(h)
    BY <2>12, <2>e DEF Interrupted, Fates
  <2>13. CASE Fail(h)
    <3>1. /\ Goto(h, "leaving")
          /\ pc[h] \in {"received", "routing", "saving", "starting", "loop", "called"}
          /\ UNCHANGED <<line, holder, active, cancelled>>
      BY <2>13 DEF Fail, gate
    <3> QED
      BY <3>1, LocalMove DEF PCs
  <2>14. CASE LeaveTurn(h)
    <3>1. /\ holder[Session] = h /\ Gate!Finish(Session) /\ Reset(h)
          /\ ForgetToken(h) /\ pc[h] = "leaving"
      BY <2>14 DEF LeaveTurn
    <3>2. active = h /\ active' = NoTask
      BY <3>1 DEF ForgetToken
    <3> QED
      BY <3>1, <3>2, <2>f, <2>r, <1>n, <1>t
  <2>15. CASE LeaveDirect(h)
    <3>1. /\ holder[Session] = h /\ Gate!Finish(Session) /\ Reset(h)
          /\ active' = NoTask /\ pc[h] = "leaving"
      BY <2>15 DEF LeaveDirect
    <3>2. active = h
      BY <3>1
    <3> QED
      BY <3>1, <3>2, <2>f, <2>r, <1>n, <1>t
  <2>16. CASE LeaveQueued(h)
    <3>1. /\ holder[Session] # h /\ Reset(h) /\ UNCHANGED <<line, holder>>
          /\ ForgetToken(h) /\ pc[h] = "leaving"
      BY <2>16 DEF LeaveQueued, gate
    <3>2. active' = active
      BY <3>1 DEF ForgetToken
    <3> QED
      BY <3>1, <3>2, <2>r, <1>n, <1>t
  <2>17. CASE ChooseRoute(h)
    <3>1. /\ Goto(h, "routing") /\ pc[h] = "received"
          /\ UNCHANGED <<line, holder, active, cancelled>>
      BY <2>17 DEF ChooseRoute, gate
    <3> QED
      BY <3>1, LocalMove DEF PCs
  <2> QED
    BY <1>5, <2>1, <2>2, <2>3, <2>4, <2>5, <2>6, <2>7, <2>8, <2>9, <2>10, <2>11, <2>12,
       <2>13, <2>14, <2>15, <2>16, <2>17 DEF HandlerStep
<1>6. CASE GrantTurn
  <2> DEFINE q == line[Session]
             r == line'[Session]
  <2>1. /\ q # <<>> /\ r = Tail(q) /\ holder[Session] = NoTask
        /\ holder'[Session] = Head(q) /\ cancelled' = cancelled
    BY <1>6, <1>t DEF GrantTurn, Gate!Grant
  <2>2. q \in Seq(Handlers \union Others)
    BY <1>t
  <2>3. /\ Len(q) \in Nat \ {0} /\ DOMAIN q = 1..Len(q) /\ DOMAIN r = 1..Len(q)-1
        /\ \A i \in 1..Len(q)-1 : r[i] = q[i+1]
        /\ Head(q) = q[1] /\ q[1] \in Handlers \union Others
    <3> HIDE DEF q, r
    <3>1. r \in Seq(Handlers \union Others) /\ Len(r) = Len(q) - 1
      BY <2>1, <2>2, HeadTailProperties
    <3>2. Len(q) \in Nat \ {0} /\ Head(q) = q[1]
      BY <2>1, <2>2
    <3> QED
      BY <2>1, <2>2, <3>1, <3>2, HeadTailProperties
  <2>4. \A i, j \in 1..Len(q) : q[i] = q[j] => i = j
    BY <2>3
  <2>5. ToSet(r) = ToSet(q) \ {q[1]} /\ q[1] \in ToSet(q)
    <3> HIDE DEF q, r
    <3>1. ASSUME NEW x \in ToSet(r) PROVE x \in ToSet(q) \ {q[1]}
      <4>1. PICK i \in 1..Len(q)-1 : x = r[i]
        BY <3>1, <2>3 DEF ToSet
      <4>2. x = q[i+1] /\ i+1 \in 1..Len(q) /\ i+1 # 1
        BY <4>1, <2>3
      <4> QED
        BY <4>2, <2>3, <2>4 DEF ToSet
    <3>2. ASSUME NEW x \in ToSet(q) \ {q[1]} PROVE x \in ToSet(r)
      <4>1. PICK i \in 1..Len(q) : x = q[i] /\ i # 1
        BY <3>2, <2>3 DEF ToSet
      <4>2. i-1 \in 1..Len(q)-1 /\ (i-1)+1 = i
        BY <4>1, <2>3
      <4>3. x = r[i-1]
        BY <4>1, <4>2, <2>3
      <4> QED
        BY <4>2, <4>3, <2>3 DEF ToSet
    <3>3. q[1] \in ToSet(q)
      BY <2>3 DEF ToSet
    <3> QED
      BY <3>1, <3>2, <3>3
  <2>6. \A i, j \in DOMAIN r : r[i] = r[j] => i = j
    <3> HIDE DEF q, r
    <3> QED
      BY <2>3, <2>4
  <2>7. active = NoTask /\ cancelled = {}
    BY <2>1, <1>n, <1>t
  <2>8. CASE q[1] \in Handlers
    <3>1. Goto(q[1], "starting") /\ active' = q[1]
      BY <1>6, <2>3, <2>8 DEF GrantTurn
    <3>2. \A g \in Handlers : pc'[g] = IF g = q[1] THEN "starting" ELSE pc[g]
      BY <3>1, <1>t DEF Goto
    <3>3. LineInv'
      <4>1. \A g \in Handlers : pc[g] = "waiting" <=> g \in ToSet(q)
        OBVIOUS
      <4>2. \A g \in Handlers : pc'[g] = "waiting" <=> g \in ToSet(r)
        <5> HIDE DEF r, q
        <5> QED
          BY <3>2, <4>1, <2>5
      <4> QED
        BY <4>2, <2>1, <2>3, <2>6, <3>2, <1>n
    <3> QED
      BY <3>3, <3>1, <2>1, <2>3, <2>7, <1>n
  <2>9. CASE q[1] \notin Handlers
    <3>1. pc' = pc /\ active' = active
      BY <1>6, <2>3, <2>9 DEF GrantTurn
    <3>3. LineInv'
      <4>1. \A g \in Handlers : pc[g] = "waiting" <=> g \in ToSet(q)
        OBVIOUS
      <4>2. \A g \in Handlers : pc'[g] = "waiting" <=> g \in ToSet(r)
        <5> HIDE DEF r, q
        <5> QED
          BY <2>9, <3>1, <4>1, <2>5
      <4> QED
        BY <4>2, <2>1, <2>3, <2>6, <2>9, <3>1, <1>n
    <3> QED
      BY <3>3, <3>1, <2>1, <2>3, <2>7, <2>9, <1>n
  <2> QED
    BY <2>8, <2>9
<1>7. ASSUME NEW o \in Others, OtherRequest(o) PROVE TurnInv'
  <2>0. pc' = pc /\ active' = active /\ cancelled' = cancelled
    BY <1>7 DEF OtherRequest
  <2>1. CASE Gate!Start(o, Session)
    BY <2>0, <2>1, <1>a, <1>n, <1>t
  <2>2. CASE Gate!Join(o, Session)
    BY <2>0, <2>2, <1>j, <1>n, <1>t
  <2> QED
    BY <1>7, <2>1, <2>2 DEF OtherRequest
<1>8. CASE OtherFinish
  BY <1>8, <1>n, <1>t DEF OtherFinish, Gate!Finish
<1>9. CASE Stop
  <2>1. /\ line' = line /\ holder' = holder /\ pc' = pc /\ active' = active
        /\ cancelled' = cancelled \union ({active} \ {NoTask})
    BY <1>9 DEF Stop, gate
  <2> QED
    BY <2>1
<1>10. CASE UNCHANGED vars
  BY <1>10 DEF vars
<1>11. CASE SwitchRoute
  BY <1>11 DEF SwitchRoute, gate
<1> QED
  BY <1>1, <1>2, <1>3, <1>4, <1>5, <1>6, <1>7, <1>8, <1>9, <1>10, <1>11 DEF Next

-----------------------------------------------------------------------------
(***************************************************************************)
(* The budget.                                                             *)
(***************************************************************************)
\* The loop reads the inbox only with an iteration left to answer it in.
LEMMA BudgetStep ==
    ASSUME ChannelAssumption, TypeOK, TurnInv, BudgetInv, [Next]_vars
    PROVE  BudgetInv'
<1> USE DEF BudgetInv, InjectionIsPaidFor
<1>t. /\ pc \in [Handlers -> PCs] /\ fresh \in [Handlers -> SUBSET Msgs]
      /\ left \in [Handlers -> Nat] /\ fate \in [Msgs -> Fates]
  BY DEF TypeOK
<1>b. ASSUME NEW ms, NEW f, f # "exhausted", Becomes(ms, f)
      PROVE  \A m \in Msgs : fate'[m] # "exhausted"
  BY <1>b DEF Becomes
<1>1. CASE Publish
  BY <1>1 DEF Publish
<1>2. ASSUME NEW m \in Msgs, Redeliver(m) PROVE BudgetInv'
  BY <1>2 DEF Redeliver
<1>3. CASE Expire
  BY <1>3 DEF Expire
<1>4. ASSUME NEW h \in Handlers, Consume(h) PROVE BudgetInv'
  BY <1>4, <1>t DEF Consume, Goto
<1>5. ASSUME NEW h \in Handlers, HandlerStep(h) PROVE BudgetInv'
  <2>e. ASSUME NEW f, EndLoop(h, f), f # "exhausted" \/ fresh[h] = {} PROVE BudgetInv'
    <3>1. \A m \in Msgs : fate'[m] # "exhausted"
      BY <2>e DEF EndLoop, Becomes
    <3> QED
      BY <2>e, <3>1, <1>t DEF EndLoop, Goto
  <2>1. CASE QueueSaved(h)
    BY <2>1, <1>t DEF QueueSaved, EnqueuePending, Goto
  <2>2. CASE StartSaving(h)
    BY <2>2, <1>t DEF StartSaving, Goto
  <2>3. CASE QueueAfterSave(h)
    BY <2>3, <1>t DEF QueueAfterSave, EnqueuePending, Goto
  <2>4. CASE RefuseDirect(h)
    <3>1. \A m \in Msgs : fate'[m] # "exhausted"
      BY <2>4, <1>b DEF RefuseDirect
    <3> QED
      BY <2>4, <3>1, <1>t DEF RefuseDirect, Goto
  <2>5. CASE RequestTurn(h)
    BY <2>5, <1>t DEF RequestTurn, Goto
  <2>6. CASE StartLoop(h)
    BY <2>6, <1>t DEF StartLoop, Goto, ChannelAssumption
  <2>7. CASE CallModel(h)
    <3>1. \A m \in Msgs : fate'[m] # "exhausted"
      BY <2>7, <1>b DEF CallModel
    <3> QED
      BY <2>7, <3>1, <1>t DEF CallModel, Goto
  <2>8. CASE ToolBatch(h)
    <3>1. pc[h] = "called" /\ fresh[h] = {} /\ fate' = fate
      BY <2>8 DEF ToolBatch
    <3>2. /\ \A g \in Handlers : pc'[g] = IF g = h THEN "loop" ELSE pc[g]
          /\ \A g \in Handlers : fresh'[g] = IF g = h THEN InInbox ELSE fresh[g]
          /\ \A g \in Handlers : left'[g] = IF g = h /\ pending # <<>> THEN left[g] + 1 ELSE left[g]
      BY <2>8, <3>1, <1>t DEF ToolBatch, Goto, Inject
    <3>3. InInbox # {} => pending # <<>>
      BY DEF InInbox
    <3> QED
      BY <3>1, <3>2, <3>3, <1>t
  <2>9. CASE RepeatHardStop(h)
    <3>1. \A m \in Msgs : fate'[m] # "exhausted"
      BY <2>9, <1>b DEF RepeatHardStop
    <3> QED
      BY <2>9, <3>1, <1>t DEF RepeatHardStop, Goto
  <2>10. CASE Answer(h)
    BY <2>10, <2>e DEF Answer
  <2>11. CASE BudgetSpent(h)
    BY <2>11, <2>e DEF BudgetSpent
  <2>12. CASE Interrupted(h)
    BY <2>12, <2>e DEF Interrupted
  <2>13. CASE Fail(h)
    <3>1. \A m \in Msgs : fate'[m] # "exhausted"
      BY <2>13, <1>b DEF Fail
    <3> QED
      BY <2>13, <3>1, <1>t DEF Fail, Goto
  <2>14. CASE LeaveTurn(h)
    <3>1. \A m \in Msgs : fate'[m] # "exhausted"
      BY <2>14, <1>b DEF LeaveTurn, Requeue
    <3> QED
      BY <2>14, <3>1, <1>t DEF LeaveTurn, Reset, Goto
  <2>15. CASE LeaveDirect(h)
    BY <2>15, <1>t DEF LeaveDirect, Reset, Goto
  <2>16. CASE LeaveQueued(h)
    BY <2>16, <1>t DEF LeaveQueued, Reset, Goto
  <2>17. CASE ChooseRoute(h)
    BY <2>17, <1>t DEF ChooseRoute, Goto
  <2> QED
    BY <1>5, <2>1, <2>2, <2>3, <2>4, <2>5, <2>6, <2>7, <2>8, <2>9, <2>10, <2>11, <2>12,
       <2>13, <2>14, <2>15, <2>16, <2>17 DEF HandlerStep
<1>6. CASE GrantTurn
  <2>1. holder[Session] = NoTask /\ fresh' = fresh /\ fate' = fate
    BY <1>6 DEF GrantTurn, Gate!Grant
  <2>2. \A g \in Handlers : fresh[g] = {}
    BY <2>1 DEF TurnInv, LineInv, Turn, ChannelAssumption
  <2> QED
    BY <2>1, <2>2
<1>7. ASSUME NEW o \in Others, OtherRequest(o) PROVE BudgetInv'
  BY <1>7 DEF OtherRequest
<1>8. CASE OtherFinish
  BY <1>8 DEF OtherFinish
<1>9. CASE Stop
  <2>1. \A m \in Msgs : fate'[m] # "exhausted"
    BY <1>9, <1>b DEF Stop
  <2> QED
    BY <1>9, <2>1 DEF Stop
<1>10. CASE UNCHANGED vars
  BY <1>10 DEF vars
<1>11. CASE SwitchRoute
  BY <1>11 DEF SwitchRoute
<1> QED
  BY <1>1, <1>2, <1>3, <1>4, <1>5, <1>6, <1>7, <1>8, <1>9, <1>10, <1>11 DEF Next

-----------------------------------------------------------------------------
(***************************************************************************)
(* The places.                                                             *)
(***************************************************************************)
\* InInbox lists what is in some body of the inbox.
LEMMA InboxIsQueued ==
    ASSUME NEW m
    PROVE  m \in InInbox <=> Queued(m) # {}
BY DEF InInbox, Queued

\* A step that touches none of the four places of a message leaves it where it was.
LEMMA KeepsItsPlace ==
    ASSUME NEW m \in Msgs, Placed(m), sent' = sent, fate'[m] = fate[m],
           OnBus(m)' = OnBus(m), Queued(m)' = Queued(m), Read(m)' = Read(m), Held(m)' = Held(m)
    PROVE  Placed(m)'
BY DEF Placed, Pending, Somewhere, Nowhere

\* When one handler moves on, only what that handler has in its hands changes.
LEMMA HeldAfter ==
    ASSUME TypeOK, NEW h \in Handlers, NEW l \in PCs, Goto(h, l),
           \A g \in Handlers \ {h} : carrier'[g] = carrier[g], NEW m
    PROVE  Held(m)' = (Held(m) \ {h}) \union
                      {g \in {h} : l \in Hand /\ m \in ToSet(carrier'[h].body)}
<1>1. \A g \in Handlers : pc'[g] = IF g = h THEN l ELSE pc[g]
  BY DEF TypeOK, Goto
<1>2. \A g \in Handlers : Body(g)' = ToSet(carrier'[g].body) /\ Body(g) = ToSet(carrier[g].body)
  BY DEF Body
<1> QED
  BY <1>1, <1>2 DEF Held

\* Handlers that do not move keep what they have in their hands.
LEMMA HeldKept ==
    ASSUME pc' = pc, carrier' = carrier, NEW m
    PROVE  Held(m)' = Held(m)
BY DEF Held, Body

\* When one context changes, only what is read there changes.
LEMMA ReadAfter ==
    ASSUME NEW h \in Handlers, NEW S, NEW m,
           \A g \in Handlers : fresh'[g] = IF g = h THEN S ELSE fresh[g]
    PROVE  Read(m)' = (Read(m) \ {h}) \union {g \in {h} : m \in S}
BY DEF Read

\* enqueue_pending adds one place at the end of the inbox.
LEMMA QueuedAfter ==
    ASSUME TypeOK, NEW b \in Seq(Msgs), pending' = Append(pending, b), NEW m
    PROVE  /\ Queued(m)' = Queued(m) \union {i \in {Len(pending) + 1} : m \in ToSet(b)}
           /\ Len(pending) + 1 \notin Queued(m)
<1>1. pending \in Seq(Seq(Msgs)) /\ Len(pending) \in Nat
  BY DEF TypeOK
<1>2. /\ DOMAIN pending = 1..Len(pending)
      /\ DOMAIN pending' = 1..Len(pending) + 1
      /\ \A i \in 1..Len(pending) : pending'[i] = pending[i]
      /\ pending'[Len(pending) + 1] = b
  <2>1. pending' \in Seq(Seq(Msgs))
    BY <1>1, AppendProperties
  <2> QED
    BY <1>1, <2>1, AppendProperties
<1> QED
  BY <1>1, <1>2 DEF Queued

\* An accepted carrier adds one place at the end of the bus.
LEMMA OnBusAfter ==
    ASSUME TypeOK, NEW c \in Carriers, bus' = Append(bus, c), NEW m
    PROVE  /\ OnBus(m)' = OnBus(m) \union {i \in {Len(bus) + 1} : m \in ToSet(c.body)}
           /\ Len(bus) + 1 \notin OnBus(m)
<1>1. bus \in Seq(Carriers) /\ Len(bus) \in Nat
  BY DEF TypeOK
<1>2. /\ DOMAIN bus = 1..Len(bus)
      /\ DOMAIN bus' = 1..Len(bus) + 1
      /\ \A i \in 1..Len(bus) : bus'[i] = bus[i]
      /\ bus'[Len(bus) + 1] = c
  <2>1. bus' \in Seq(Carriers)
    BY <1>1, AppendProperties
  <2> QED
    BY <1>1, <2>1, AppendProperties
<1> QED
  BY <1>1, <1>2 DEF OnBus

\* Taking the first carrier moves the others up by one place.
LEMMA OnBusShifts ==
    ASSUME TypeOK, bus # <<>>, bus' = Tail(bus), NEW m
    PROVE  /\ OnBus(m)' = {i - 1 : i \in OnBus(m) \ {1}}
           /\ m \in ToSet(Head(bus).body) <=> 1 \in OnBus(m)
           /\ OnBus(m) \subseteq Nat
<1>1. bus \in Seq(Carriers) /\ Len(bus) \in Nat \ {0} /\ Head(bus) = bus[1]
  BY DEF TypeOK
<1>2. /\ DOMAIN bus = 1..Len(bus)
      /\ DOMAIN bus' = 1..Len(bus) - 1
      /\ \A i \in 1..Len(bus) - 1 : bus'[i] = bus[i + 1]
  <2>1. bus' \in Seq(Carriers)
    BY <1>1, HeadTailProperties
  <2> QED
    BY <1>1, <2>1, HeadTailProperties
<1>3. ASSUME NEW i \in OnBus(m)' PROVE i \in {j - 1 : j \in OnBus(m) \ {1}}
  <2>1. i \in 1..Len(bus) - 1 /\ m \in ToSet(bus[i + 1].body)
    BY <1>2, <1>3 DEF OnBus
  <2>2. i + 1 \in OnBus(m) \ {1} /\ i = (i + 1) - 1
    BY <1>1, <1>2, <2>1 DEF OnBus
  <2> QED
    BY <2>2
<1>4. ASSUME NEW j \in OnBus(m) \ {1} PROVE j - 1 \in OnBus(m)'
  <2>1. j \in 2..Len(bus) /\ m \in ToSet(bus[j].body)
    BY <1>1, <1>2, <1>4 DEF OnBus
  <2>2. j - 1 \in 1..Len(bus) - 1 /\ (j - 1) + 1 = j
    BY <1>1, <2>1
  <2> QED
    BY <1>2, <2>1, <2>2 DEF OnBus
<1>5. m \in ToSet(Head(bus).body) <=> 1 \in OnBus(m)
  BY <1>1, <1>2 DEF OnBus
<1>6. OnBus(m) \subseteq Nat
  BY <1>2 DEF OnBus
<1> QED
  BY <1>3, <1>4, <1>5, <1>6

\* The deduplication window holds bodies of messages that were sent.
LEMMA BodiesAfterEnqueue ==
    ASSUME TypeOK, NEW c \in Carriers, Enqueue(c), NEW n,
           \A b \in ToSet(hashes) : \A m \in ToSet(b) : m <= n,
           \A m \in ToSet(c.body) : m <= n
    PROVE  \A b \in ToSet(hashes') : \A m \in ToSet(b) : m <= n
<1>1. CASE Known(c.body)
  BY <1>1 DEF Enqueue, busVars
<1>2. CASE ~ Known(c.body)
  <2>1. c.body \in Seq(Msgs) /\ hashes' = Append(hashes, c.body)
    BY <1>2 DEF Enqueue, Carriers
  <2>2. ToSet(hashes') = ToSet(hashes) \union {c.body}
    BY <2>1, WindowGrows
  <2> QED
    BY <2>2
<1> QED
  BY <1>1, <1>2

\* Every step takes a message from one place to one other, or to its end.
LEMMA PlaceStep ==
    ASSUME ChannelAssumption, TypeOK, TurnInv, BudgetInv, PlaceInv, [Next]_vars
    PROVE  PlaceInv'
<1>t. /\ fate \in [Msgs -> Fates] /\ sent \in Nat /\ \A m \in Msgs : m \in Nat
      /\ fresh \in [Handlers -> SUBSET Msgs] /\ pc \in [Handlers -> PCs]
      /\ carrier \in [Handlers -> Carriers] /\ pending \in Seq(Seq(Msgs))
  BY DEF TypeOK, Msgs
<1>i. /\ \A m \in Msgs : Placed(m)
      /\ \A m \in Msgs : fate[m] # "none" => m <= sent
      /\ \A b \in ToSet(hashes) : \A m \in ToSet(b) : m <= sent
  BY DEF PlaceInv
<1>a. \A m \in Msgs : ~ Nowhere(m) => Somewhere(m) /\ Pending(m)
  BY <1>i DEF Placed
<1>s. \A m \in Msgs : Pending(m) <=> m <= sent /\ fate[m] = "none"
  BY DEF Pending
<1>b. ASSUME NEW ms, NEW f, Becomes(ms, f), sent' = sent,
             \A m \in ms \intersect Msgs : ~ Nowhere(m)
      PROVE  /\ \A m \in Msgs : fate'[m] = IF m \in ms THEN f ELSE fate[m]
             /\ \A m \in Msgs : fate'[m] # "none" => m <= sent'
  <2>1. \A m \in Msgs : fate'[m] = IF m \in ms THEN f ELSE fate[m]
    BY <1>b DEF Becomes
  <2> QED
    BY <2>1, <1>a, <1>b, <1>i, <1>s
\* A message that is in one place only leaves it for its end.
<1>e. ASSUME NEW m \in Msgs, sent' = sent, fate'[m] # "none", Nowhere(m)' PROVE Placed(m)'
  BY <1>e DEF Placed, Pending
\* It leaves it for another one.
<1>m. ASSUME NEW m \in Msgs, sent' = sent, fate'[m] = fate[m], ~ Nowhere(m), Somewhere(m)'
      PROVE  Placed(m)'
  BY <1>m, <1>a DEF Placed, Pending
\* The messages in one kind of place.
<1>1. \A m \in Msgs : OnBus(m) # {} =>
          Single(OnBus(m)) /\ Queued(m) = {} /\ Read(m) = {} /\ Held(m) = {}
  BY <1>a DEF Somewhere, Nowhere, Single
<1>2. \A m \in Msgs : Queued(m) # {} =>
          OnBus(m) = {} /\ Single(Queued(m)) /\ Read(m) = {} /\ Held(m) = {}
  BY <1>a DEF Somewhere, Nowhere, Single
<1>3. \A m \in Msgs : Read(m) # {} =>
          OnBus(m) = {} /\ Queued(m) = {} /\ Single(Read(m)) /\ Held(m) = {}
  BY <1>a DEF Somewhere, Nowhere, Single
<1>4. \A m \in Msgs : Held(m) # {} =>
          OnBus(m) = {} /\ Queued(m) = {} /\ Read(m) = {} /\ Single(Held(m))
  BY <1>a DEF Somewhere, Nowhere, Single
<1>r. \A h \in Handlers, m \in Msgs : h \in Read(m) <=> m \in fresh[h]
  BY DEF Read
<1>h. \A h \in Handlers, m \in Msgs : h \in Held(m) <=> pc[h] \in Hand /\ m \in Body(h)
  BY DEF Held
\* Actions that move no message.
<1>k. ASSUME UNCHANGED <<sent, fate, bus, pending, fresh>>,
             \A m \in Msgs : Held(m)' = Held(m),
             \A b \in ToSet(hashes') : b \in ToSet(hashes)
      PROVE  PlaceInv'
  <2>1. \A m \in Msgs : OnBus(m)' = OnBus(m) /\ Queued(m)' = Queued(m) /\ Read(m)' = Read(m)
    BY <1>k DEF OnBus, Queued, Read
  <2>2. \A m \in Msgs : Placed(m)'
    BY <1>k, <1>i, <2>1, KeepsItsPlace
  <2> QED
    BY <1>k, <1>i, <2>2 DEF PlaceInv
\* Actions that leave the bus alone.
<1>u. ASSUME UNCHANGED <<sent, bus, hashes>>, \A m \in Msgs : Placed(m)',
             \A m \in Msgs : fate'[m] # "none" => m <= sent'
      PROVE  PlaceInv'
  BY <1>u, <1>i DEF PlaceInv
<1>o. ASSUME bus' = bus PROVE \A m \in Msgs : OnBus(m)' = OnBus(m)
  BY <1>o DEF OnBus
<1>q. ASSUME pending' = pending PROVE \A m \in Msgs : Queued(m)' = Queued(m)
  BY <1>q DEF Queued
<1>f. ASSUME fresh' = fresh PROVE \A m \in Msgs : Read(m)' = Read(m)
  BY <1>f DEF Read
<1>z. ASSUME pending' = <<>> PROVE \A m \in Msgs : Queued(m)' = {}
  BY <1>z DEF Queued
<1>11. CASE Publish
  <2> DEFINE n == sent + 1
             c == [body |-> <<n>>, persisted |-> FALSE]
  <2>1. /\ sent' = n /\ n \in Msgs /\ Enqueue(c)
        /\ UNCHANGED <<pending, pc, carrier, fresh, fate>>
    BY <1>11 DEF Publish, Msgs, ChannelAssumption, TypeOK
  <2>2. c \in Carriers /\ ToSet(c.body) = {n} /\ c.body = <<n>>
    BY <2>1 DEF Carriers, ToSet
  <2>3. ~ Known(c.body)
    <3>1. ASSUME Known(c.body) PROVE FALSE
      <4>1. n <= sent
        BY <3>1, <2>2, <1>i DEF Known
      <4> QED
        BY <4>1, <1>t
    <3> QED
      BY <3>1
  <2>4. bus' = Append(bus, c)
    BY <2>1, <2>3 DEF Enqueue
  <2>5. \A m \in Msgs : /\ OnBus(m)' = OnBus(m) \union {i \in {Len(bus) + 1} : m = n}
                        /\ Queued(m)' = Queued(m) /\ Read(m)' = Read(m) /\ Held(m)' = Held(m)
    <3> HIDE DEF c
    <3> QED
      BY <2>1, <2>2, <2>4, OnBusAfter, HeldKept, <1>q, <1>f
  <2>6. ASSUME NEW m \in Msgs PROVE Placed(m)'
    <3>1. CASE m = n
      <4>1. ~ (m <= sent) /\ fate[m] = "none"
        BY <3>1, <1>i, <1>t
      <4>2. Nowhere(m)
        BY <4>1, <1>a, <1>s
      <4>3. OnBus(m)' = {Len(bus) + 1} /\ Queued(m)' = {} /\ Read(m)' = {} /\ Held(m)' = {}
        BY <2>5, <3>1, <4>2 DEF Nowhere
      <4>4. Somewhere(m)'
        BY <4>3 DEF Somewhere, Single
      <4>5. Pending(m)'
        BY <4>1, <2>1, <3>1, <1>t DEF Pending
      <4> QED
        BY <4>4, <4>5 DEF Placed
    <3>2. CASE m # n
      <4>1. m <= sent' <=> m <= sent
        BY <3>2, <2>1, <1>t
      <4>2. /\ OnBus(m)' = OnBus(m) /\ Queued(m)' = Queued(m)
            /\ Read(m)' = Read(m) /\ Held(m)' = Held(m)
        BY <2>5, <3>2
      <4>3. Placed(m) /\ fate' = fate
        BY <1>i, <2>1
      <4> QED
        BY <4>1, <4>2, <4>3 DEF Placed, Pending, Somewhere, Nowhere
    <3> QED
      BY <3>1, <3>2
  <2>7. \A b \in ToSet(hashes') : \A m \in ToSet(b) : m <= n
    <3>1. \A m \in Msgs : m <= sent => m <= n
      BY <1>t
    <3>2. \A b \in ToSet(hashes) : \A m \in ToSet(b) : m <= n
      <4>1. \A b \in ToSet(hashes) : ToSet(b) \subseteq Msgs
        BY DEF TypeOK, ToSet
      <4> QED
        BY <4>1, <3>1, <1>i
    <3>3. \A m \in ToSet(c.body) : m <= n
      BY <2>2, <1>t
    <3> HIDE DEF c, n
    <3> QED
      BY <2>1, <2>2, <3>2, <3>3, BodiesAfterEnqueue
  <2>8. \A m \in Msgs : fate'[m] # "none" => m <= n
    BY <2>1, <1>i, <1>t
  <2> QED
    BY <2>1, <2>6, <2>7, <2>8 DEF PlaceInv
<1>12. ASSUME NEW m \in Msgs, Redeliver(m) PROVE PlaceInv'
  <2>1. UNCHANGED <<sent, fate, bus, hashes, pending, fresh, pc, carrier>>
    BY <1>12 DEF Redeliver, Enqueue, busVars
  <2> QED
    BY <2>1, <1>k, HeldKept
<1>13. CASE Expire
  <2>1. /\ UNCHANGED <<sent, fate, bus, pending, fresh, pc, carrier>>
        /\ hashes # <<>> /\ hashes' = Tail(hashes)
    BY <1>13 DEF Expire
  <2>2. ToSet(hashes') \subseteq ToSet(hashes)
    BY <2>1, WindowShrinks
  <2> QED
    BY <2>1, <2>2, <1>k, HeldKept
<1>14. ASSUME NEW h \in Handlers, Consume(h) PROVE PlaceInv'
  <2>1. /\ bus # <<>> /\ bus' = Tail(bus) /\ pc[h] = "idle" /\ Goto(h, "received")
        /\ carrier' = [carrier EXCEPT ![h] = Head(bus)]
        /\ UNCHANGED <<sent, fate, hashes, pending, fresh>>
    BY <1>14 DEF Consume
  <2>2. carrier'[h] = Head(bus) /\ \A g \in Handlers \ {h} : carrier'[g] = carrier[g]
    BY <2>1, <1>t
  <2>3. "received" \in PCs /\ "received" \in Hand /\ "idle" \notin Hand
    BY DEF PCs, Hand
  <2>4. ASSUME NEW m \in Msgs PROVE Placed(m)'
    <3>1. /\ OnBus(m)' = {i - 1 : i \in OnBus(m) \ {1}} /\ OnBus(m) \subseteq Nat
          /\ m \in ToSet(Head(bus).body) <=> 1 \in OnBus(m)
      BY <2>1, OnBusShifts
    <3>2. Held(m)' = (Held(m) \ {h}) \union {g \in {h} : m \in ToSet(Head(bus).body)}
      BY <2>1, <2>2, <2>3, HeldAfter
    <3>3. h \notin Held(m) /\ Queued(m)' = Queued(m) /\ Read(m)' = Read(m)
      BY <2>1, <2>3, <1>h, <1>q, <1>f
    <3>4. CASE 1 \in OnBus(m)
      <4>1. OnBus(m) = {1} /\ Queued(m) = {} /\ Read(m) = {} /\ Held(m) = {}
        BY <3>4, <1>1 DEF Single
      <4>2. OnBus(m)' = {} /\ Held(m)' = {h}
        BY <3>1, <3>2, <3>4, <4>1
      <4>3. Somewhere(m)'
        BY <3>3, <4>1, <4>2 DEF Somewhere, Single
      <4> QED
        BY <3>4, <4>3, <2>1, <1>m DEF Nowhere
    <3>5. CASE OnBus(m) # {} /\ 1 \notin OnBus(m)
      <4>1. PICK i \in Nat : OnBus(m) = {i} /\ i # 1
        BY <3>1, <3>5, <1>1 DEF Single
      <4>2. OnBus(m)' = {i - 1} /\ Held(m)' = {} /\ Queued(m)' = {} /\ Read(m)' = {}
        BY <3>1, <3>2, <3>3, <3>5, <4>1, <1>1
      <4>3. Somewhere(m)'
        BY <4>2 DEF Somewhere, Single
      <4> QED
        BY <3>5, <4>3, <2>1, <1>m DEF Nowhere
    <3>6. CASE OnBus(m) = {}
      <4>1. OnBus(m)' = {} /\ Held(m)' = Held(m)
        BY <3>1, <3>2, <3>3, <3>6
      <4> QED
        BY <3>3, <3>6, <4>1, <2>1, <1>i, KeepsItsPlace
    <3> QED
      BY <3>4, <3>5, <3>6
  <2> QED
    BY <2>1, <2>4, <1>i DEF PlaceInv
\* The inbox is emptied, and its messages come to an end.
<1>x. ASSUME NEW f, f # "none", Becomes(InInbox, f), pending' = <<>>,
             UNCHANGED <<sent, bus, hashes, fresh>>, \A m \in Msgs : Held(m)' = Held(m)
      PROVE  PlaceInv'
  <2>1. \A m \in Msgs : m \in InInbox <=> Queued(m) # {}
    BY InboxIsQueued
  <2>2. \A m \in InInbox \intersect Msgs : ~ Nowhere(m)
    BY <2>1 DEF Nowhere
  <2>3. /\ \A m \in Msgs : fate'[m] = IF m \in InInbox THEN f ELSE fate[m]
        /\ \A m \in Msgs : fate'[m] # "none" => m <= sent'
    BY <1>x, <2>2, <1>b
  <2>4. \A m \in Msgs : OnBus(m)' = OnBus(m) /\ Queued(m)' = {} /\ Read(m)' = Read(m)
    BY <1>x, <1>o, <1>z, <1>f
  <2>5. ASSUME NEW m \in Msgs PROVE Placed(m)'
    <3>1. CASE m \in InInbox
      <4>1. Nowhere(m)'
        BY <3>1, <2>1, <2>4, <1>x, <1>2 DEF Nowhere
      <4> QED
        BY <3>1, <4>1, <2>3, <1>x, <1>e
    <3>2. CASE m \notin InInbox
      <4>1. Queued(m)' = Queued(m) /\ fate'[m] = fate[m]
        BY <3>2, <2>1, <2>3, <2>4
      <4> QED
        BY <4>1, <2>4, <1>x, <1>i, KeepsItsPlace
    <3> QED
      BY <3>1, <3>2
  <2> QED
    BY <2>3, <2>5, <1>x, <1>u
<1>15. ASSUME NEW h \in Handlers, HandlerStep(h) PROVE PlaceInv'
  <2>h. \A m \in Msgs : h \in Held(m) <=> pc[h] \in Hand /\ m \in Body(h)
    BY <1>h
  <2>l. ASSUME NEW l \in PCs, Goto(h, l), l \notin Hand,
               \A g \in Handlers \ {h} : carrier'[g] = carrier[g]
        PROVE  \A m \in Msgs : Held(m)' = Held(m) \ {h}
    BY <2>l, HeldAfter
  <2>n. "leaving" \in PCs \ Hand /\ "idle" \in PCs \ Hand /\ "loop" \in PCs \ Hand
        /\ "called" \in PCs \ Hand
    BY DEF PCs, Hand
  \* It goes on with its message in hand.
  <2>c. ASSUME NEW l \in PCs \intersect Hand, Goto(h, l), pc[h] \in Hand, carrier' = carrier
        PROVE  \A m \in Msgs : Held(m)' = Held(m)
    <3>1. \A m \in Msgs : Held(m)' = (Held(m) \ {h}) \union {g \in {h} : m \in Body(h)}
      <4>1. carrier'[h].body = carrier[h].body
        BY <2>c
      <4> QED
        BY <2>c, <4>1, HeldAfter DEF Body
    <3>2. \A m \in Msgs : h \in Held(m) <=> m \in Body(h)
      BY <2>c, <2>h
    <3>3. ASSUME NEW m \in Msgs PROVE Held(m)' = Held(m)
      <4>1. CASE h \in Held(m)
        BY <4>1, <3>1, <3>2
      <4>2. CASE h \notin Held(m)
        BY <4>2, <3>1, <3>2
      <4> QED
        BY <4>1, <4>2
    <3> QED
      BY <3>3
  \* Its message goes to the inbox.
  <2>p. ASSUME EnqueuePending(h), pc[h] \in Hand, UNCHANGED <<sent, bus, hashes, fresh, fate>>
        PROVE  PlaceInv'
    <3>1. /\ pending' = Append(pending, carrier[h].body) /\ carrier[h].body \in Seq(Msgs)
          /\ \A g \in Handlers \ {h} : carrier'[g] = carrier[g]
          /\ Goto(h, "leaving")
      BY <2>p, <1>t DEF EnqueuePending, Carriers
    <3>2. ASSUME NEW m \in Msgs PROVE Placed(m)'
      <4>1. /\ Queued(m)' = Queued(m) \union {i \in {Len(pending) + 1} : m \in Body(h)}
            /\ Held(m)' = Held(m) \ {h}
            /\ OnBus(m)' = OnBus(m) /\ Read(m)' = Read(m)
        BY <3>1, <2>p, <2>l, <2>n, QueuedAfter, <1>o, <1>f DEF Body
      <4>2. CASE m \in Body(h)
        <5>1. Held(m) = {h} /\ OnBus(m) = {} /\ Queued(m) = {} /\ Read(m) = {}
          BY <4>2, <2>p, <2>h, <1>4 DEF Single
        <5>2. Queued(m)' = {Len(pending) + 1} /\ Held(m)' = {}
          BY <4>1, <4>2, <5>1
        <5>3. Somewhere(m)'
          BY <4>1, <5>1, <5>2 DEF Somewhere, Single
        <5> QED
          BY <5>1, <5>3, <2>p, <1>m DEF Nowhere
      <4>3. CASE m \notin Body(h)
        <5>1. Queued(m)' = Queued(m) /\ Held(m)' = Held(m)
          BY <4>1, <4>3, <2>h
        <5> QED
          BY <4>1, <5>1, <2>p, <1>i, KeepsItsPlace
      <4> QED
        BY <4>2, <4>3
    <3> QED
      BY <3>2, <2>p, <1>i DEF PlaceInv
  \* What is fresh in its context comes to an end.
  <2>e. ASSUME NEW f, f # "none", Becomes(fresh[h], f), fresh' = [fresh EXCEPT ![h] = {}],
               pc[h] \notin Hand, NEW l \in PCs, l \notin Hand, Goto(h, l),
               UNCHANGED <<sent, bus, hashes, pending, carrier>>
        PROVE  PlaceInv'
    <3>1. \A m \in Msgs : m \in fresh[h] <=> h \in Read(m)
      BY <1>r
    <3>2. \A m \in fresh[h] \intersect Msgs : ~ Nowhere(m)
      BY <3>1 DEF Nowhere
    <3>3. /\ \A m \in Msgs : fate'[m] = IF m \in fresh[h] THEN f ELSE fate[m]
          /\ \A m \in Msgs : fate'[m] # "none" => m <= sent'
      BY <2>e, <3>2, <1>b
    <3>4. \A m \in Msgs : /\ OnBus(m)' = OnBus(m) /\ Queued(m)' = Queued(m)
                          /\ Read(m)' = Read(m) \ {h} /\ Held(m)' = Held(m)
      <4>1. \A m \in Msgs : Held(m)' = Held(m)
        BY <2>e, <2>l, <2>h
      <4>2. \A m \in Msgs : Read(m)' = Read(m) \ {h}
        <5>1. \A g \in Handlers : fresh'[g] = IF g = h THEN {} ELSE fresh[g]
          BY <2>e, <1>t
        <5>2. \A m \in Msgs : Read(m)' = (Read(m) \ {h}) \union {g \in {h} : m \in {}}
          BY <5>1, ReadAfter
        <5> QED
          BY <5>2
      <4> QED
        BY <4>1, <4>2, <2>e, <1>o, <1>q
    <3>5. ASSUME NEW m \in Msgs PROVE Placed(m)'
      <4>1. CASE m \in fresh[h]
        <5>1. Read(m) = {h} /\ OnBus(m) = {} /\ Queued(m) = {} /\ Held(m) = {}
          BY <4>1, <3>1, <1>3 DEF Single
        <5>2. Nowhere(m)'
          BY <5>1, <3>4 DEF Nowhere
        <5> QED
          BY <5>2, <4>1, <3>3, <2>e, <1>e
      <4>2. CASE m \notin fresh[h]
        <5>1. Read(m)' = Read(m) /\ fate'[m] = fate[m]
          BY <4>2, <3>1, <3>3, <3>4
        <5> QED
          BY <5>1, <3>4, <2>e, <1>i, KeepsItsPlace
      <4> QED
        BY <4>1, <4>2
    <3> QED
      BY <3>3, <3>5, <2>e, <1>u
  \* The message in its hands comes to an end.
  <2>d. ASSUME NEW f, f # "none", Becomes(Body(h), f), fresh' = fresh, pc[h] \in Hand,
               NEW l \in PCs, l \notin Hand, Goto(h, l),
               \A g \in Handlers \ {h} : carrier'[g] = carrier[g],
               UNCHANGED <<sent, bus, hashes, pending>>
        PROVE  PlaceInv'
    <3>1. \A m \in Body(h) \intersect Msgs : ~ Nowhere(m)
      BY <2>d, <2>h DEF Nowhere
    <3>2. /\ \A m \in Msgs : fate'[m] = IF m \in Body(h) THEN f ELSE fate[m]
          /\ \A m \in Msgs : fate'[m] # "none" => m <= sent'
      BY <2>d, <3>1, <1>b
    <3>3. \A m \in Msgs : /\ OnBus(m)' = OnBus(m) /\ Queued(m)' = Queued(m)
                          /\ Read(m)' = Read(m) /\ Held(m)' = Held(m) \ {h}
      BY <2>d, <2>l, <1>o, <1>q, <1>f
    <3>4. ASSUME NEW m \in Msgs PROVE Placed(m)'
      <4>1. CASE m \in Body(h)
        <5>1. Held(m) = {h} /\ OnBus(m) = {} /\ Queued(m) = {} /\ Read(m) = {}
          BY <4>1, <2>d, <2>h, <1>4 DEF Single
        <5>2. Nowhere(m)'
          BY <5>1, <3>3 DEF Nowhere
        <5> QED
          BY <5>2, <4>1, <3>2, <2>d, <1>e
      <4>2. CASE m \notin Body(h)
        <5>1. Held(m)' = Held(m) /\ fate'[m] = fate[m]
          BY <4>2, <2>h, <3>2, <3>3
        <5> QED
          BY <5>1, <3>3, <2>d, <1>i, KeepsItsPlace
      <4> QED
        BY <4>1, <4>2
    <3> QED
      BY <3>2, <3>4, <2>d, <1>u
  <2>g. fresh[h] # {} => pc[h] = "loop"
    BY DEF BudgetInv
  <2>1. CASE QueueSaved(h)
    BY <2>1, <2>p DEF QueueSaved, Hand, busVars
  <2>2. CASE StartSaving(h)
    <3>1. /\ pc[h] = "routing" /\ Goto(h, "saving")
          /\ UNCHANGED <<sent, fate, bus, hashes, pending, fresh, carrier>>
      BY <2>2 DEF StartSaving, busVars
    <3>2. \A m \in Msgs : Held(m)' = Held(m)
      BY <3>1, <2>c DEF PCs, Hand
    <3> QED
      BY <3>1, <3>2, <1>k
  <2>3. CASE QueueAfterSave(h)
    BY <2>3, <2>p DEF QueueAfterSave, Hand, busVars
  <2>4. CASE RefuseDirect(h)
    <3>1. /\ pc[h] = "routing" /\ Goto(h, "idle") /\ Becomes(Body(h), "refused")
          /\ \A g \in Handlers \ {h} : carrier'[g] = carrier[g]
          /\ UNCHANGED <<sent, bus, hashes, pending, fresh>>
      BY <2>4, <1>t DEF RefuseDirect, busVars
    <3> QED
      BY <3>1, <2>d, <2>n DEF Hand
  <2>5. CASE RequestTurn(h)
    <3>1. /\ pc[h] = "routing" /\ (Goto(h, "starting") \/ Goto(h, "waiting"))
          /\ UNCHANGED <<sent, fate, bus, hashes, pending, fresh, carrier>>
      BY <2>5 DEF RequestTurn, busVars
    <3>2. \A m \in Msgs : Held(m)' = Held(m)
      BY <3>1, <2>c DEF PCs, Hand
    <3> QED
      BY <3>1, <3>2, <1>k
  <2>6. CASE StartLoop(h)
    <3>1. /\ pc[h] = "starting" /\ Goto(h, "loop") /\ fresh' = [fresh EXCEPT ![h] = Body(h)]
          /\ UNCHANGED <<sent, fate, bus, hashes, pending, carrier>>
      BY <2>6 DEF StartLoop, busVars
    <3>2. "starting" \in Hand
      BY DEF Hand
    <3>3. ASSUME NEW m \in Msgs PROVE Placed(m)'
      <4>1. /\ Read(m)' = (Read(m) \ {h}) \union {g \in {h} : m \in Body(h)}
            /\ Held(m)' = Held(m) \ {h}
            /\ OnBus(m)' = OnBus(m) /\ Queued(m)' = Queued(m)
        <5>1. \A g \in Handlers : fresh'[g] = IF g = h THEN Body(h) ELSE fresh[g]
          BY <3>1, <1>t
        <5>2. Read(m)' = (Read(m) \ {h}) \union {g \in {h} : m \in Body(h)}
          BY <5>1, ReadAfter
        <5> QED
          BY <3>1, <5>2, <2>l, <2>n, <1>o, <1>q
      <4>2. h \notin Read(m)
        BY <3>1, <2>g, <1>r
      <4>3. CASE m \in Body(h)
        <5>1. Held(m) = {h} /\ OnBus(m) = {} /\ Queued(m) = {} /\ Read(m) = {}
          BY <4>3, <3>1, <3>2, <2>h, <1>4 DEF Single
        <5>2. Read(m)' = {h} /\ Held(m)' = {}
          BY <4>1, <4>3, <5>1
        <5>3. Somewhere(m)'
          BY <4>1, <5>1, <5>2 DEF Somewhere, Single
        <5> QED
          BY <5>1, <5>3, <3>1, <1>m DEF Nowhere
      <4>4. CASE m \notin Body(h)
        <5>1. Read(m)' = Read(m) /\ Held(m)' = Held(m)
          BY <4>1, <4>2, <4>4, <2>h
        <5> QED
          BY <4>1, <5>1, <3>1, <1>i, KeepsItsPlace
      <4> QED
        BY <4>3, <4>4
    <3> QED
      BY <3>1, <3>3, <1>i DEF PlaceInv
  <2>7. CASE CallModel(h)
    <3>1. /\ pc[h] = "loop" /\ Goto(h, "called") /\ Becomes(fresh[h], "seen")
          /\ fresh' = [fresh EXCEPT ![h] = {}]
          /\ UNCHANGED <<sent, bus, hashes, pending, carrier>>
      BY <2>7 DEF CallModel, busVars
    <3> QED
      BY <3>1, <2>e, <2>n
  <2>8. CASE ToolBatch(h)
    <3>1. /\ pc[h] = "called" /\ Goto(h, "loop") /\ pending' = <<>>
          /\ fresh' = [fresh EXCEPT ![h] = fresh[h] \union InInbox]
          /\ UNCHANGED <<sent, fate, bus, hashes, carrier>>
      BY <2>8 DEF ToolBatch, Inject, TakePending, busVars
    <3>2. ASSUME NEW m \in Msgs PROVE Placed(m)'
      <4>1. /\ Read(m)' = (Read(m) \ {h}) \union {g \in {h} : m \in fresh[h] \union InInbox}
            /\ Held(m)' = Held(m)
            /\ OnBus(m)' = OnBus(m) /\ Queued(m)' = {}
        <5>1. Held(m)' = Held(m) \ {h} /\ h \notin Held(m)
          BY <3>1, <2>l, <2>n, <2>h
        <5>2. Read(m)' = (Read(m) \ {h}) \union {g \in {h} : m \in fresh[h] \union InInbox}
          <6>1. \A g \in Handlers :
                   fresh'[g] = IF g = h THEN fresh[h] \union InInbox ELSE fresh[g]
            BY <3>1, <1>t
          <6> QED
            BY <6>1, ReadAfter
        <5> QED
          BY <5>1, <5>2, <3>1, <1>o, <1>z
      <4>2. fresh[h] = {} /\ h \notin Read(m)
        BY <3>1, <2>g, <1>r
      <4>3. m \in InInbox <=> Queued(m) # {}
        BY InboxIsQueued
      <4>4. CASE m \in InInbox
        <5>1. Held(m) = {} /\ OnBus(m) = {} /\ Queued(m) # {} /\ Read(m) = {}
          BY <4>3, <4>4, <1>2
        <5>2. Read(m)' = {h}
          BY <4>1, <4>4, <5>1
        <5>3. Somewhere(m)'
          BY <4>1, <5>1, <5>2 DEF Somewhere, Single
        <5> QED
          BY <5>1, <5>3, <3>1, <1>m DEF Nowhere
      <4>5. CASE m \notin InInbox
        <5>1. Read(m)' = Read(m) /\ Queued(m)' = Queued(m)
          BY <4>1, <4>2, <4>3, <4>5
        <5> QED
          BY <4>1, <5>1, <3>1, <1>i, KeepsItsPlace
      <4> QED
        BY <4>4, <4>5
    <3> QED
      BY <3>1, <3>2, <1>i DEF PlaceInv
  <2>9. CASE RepeatHardStop(h)
    <3>1. /\ pc[h] = "called" /\ Goto(h, "leaving") /\ pending' = <<>>
          /\ Becomes(InInbox, "absorbed")
          /\ UNCHANGED <<sent, bus, hashes, fresh, carrier>>
      BY <2>9 DEF RepeatHardStop, TakePending, busVars
    <3>2. \A m \in Msgs : Held(m)' = Held(m)
      BY <3>1, <2>l, <2>n, <2>h
    <3> QED
      BY <3>1, <3>2, <1>x
  <2>q. ASSUME NEW f, f # "none", EndLoop(h, f), pc[h] \in {"loop", "called"} PROVE PlaceInv'
    <3>1. /\ Goto(h, "leaving") /\ Becomes(fresh[h], f) /\ fresh' = [fresh EXCEPT ![h] = {}]
          /\ UNCHANGED <<sent, bus, hashes, pending, carrier>>
      BY <2>q DEF EndLoop, busVars
    <3> QED
      BY <3>1, <2>q, <2>e, <2>n
  <2>10. CASE Answer(h)
    BY <2>10, <2>q DEF Answer
  <2>11. CASE BudgetSpent(h)
    BY <2>11, <2>q DEF BudgetSpent
  <2>12. CASE Interrupted(h)
    BY <2>12, <2>q DEF Interrupted
  <2>13. CASE Fail(h)
    <3>1. /\ Goto(h, "leaving") /\ fresh' = [fresh EXCEPT ![h] = {}]
          /\ UNCHANGED <<sent, bus, hashes, pending, carrier>>
      BY <2>13 DEF Fail, busVars
    <3>2. CASE pc[h] \in {"loop", "called"}
      <4>1. Becomes(fresh[h], "failed")
        BY <2>13, <3>2 DEF Fail
      <4> QED
        BY <3>1, <3>2, <4>1, <2>e, <2>n
    <3>3. CASE pc[h] \notin {"loop", "called"}
      <4>1. Becomes(Body(h), "failed") /\ pc[h] \in Hand
        BY <2>13, <3>3 DEF Fail, Hand
      <4>2. fresh' = fresh
        BY <3>1, <3>3, <2>g, <1>t
      <4> QED
        BY <3>1, <4>1, <4>2, <2>d, <2>n
    <3> QED
      BY <3>2, <3>3
  <2>r. ASSUME Reset(h), pc[h] = "leaving"
        PROVE  \A m \in Msgs : Held(m)' = Held(m)
    <3>1. Goto(h, "idle") /\ \A g \in Handlers \ {h} : carrier'[g] = carrier[g]
      BY <2>r, <1>t DEF Reset
    <3> QED
      BY <3>1, <2>r, <2>l, <2>n, <2>h
  <2>14. CASE LeaveTurn(h)
    <3>1. /\ pc[h] = "leaving" /\ pending' = <<>> /\ Reset(h) /\ fresh' = fresh /\ sent' = sent
      BY <2>14 DEF LeaveTurn, Reset
    <3>2. CASE h \in cancelled
      <4>1. Becomes(InInbox, "dropped") /\ UNCHANGED <<bus, hashes>>
        BY <2>14, <3>2 DEF LeaveTurn, busVars
      <4> QED
        BY <3>1, <4>1, <2>r, <1>x
    <3>3. CASE h \notin cancelled /\ pending = <<>>
      <4>1. UNCHANGED <<fate, bus, hashes>>
        BY <2>14, <3>3 DEF LeaveTurn, busVars
      <4> QED
        BY <3>1, <3>3, <4>1, <2>r, <1>k
    <3>4. CASE h \notin cancelled /\ pending # <<>>
      <4> DEFINE b == FlattenSeq(pending)
                 c == [body |-> b, persisted |-> TRUE]
      <4>1. /\ Enqueue(c)
            /\ IF Known(b) THEN Becomes(ToSet(b), "duplicate") ELSE UNCHANGED fate
        BY <2>14, <3>4 DEF LeaveTurn, Requeue
      <4>2. b \in Seq(Msgs) /\ ToSet(b) = InInbox /\ c \in Carriers /\ c.body = b
        BY <1>t, FlattenFacts DEF InInbox, Carriers
      <4>3. CASE Known(b)
        <5>1. Becomes(InInbox, "duplicate") /\ UNCHANGED <<bus, hashes>>
          BY <4>1, <4>2, <4>3 DEF Enqueue, busVars
        <5> QED
          BY <3>1, <5>1, <2>r, <1>x
      <4>4. CASE ~ Known(b)
        <5>1. bus' = Append(bus, c) /\ fate' = fate
          BY <4>1, <4>2, <4>4 DEF Enqueue
        <5>2. \A m \in Msgs : m \in InInbox <=> Queued(m) # {}
          BY InboxIsQueued
        <5>3. \A m \in Msgs :
                 /\ OnBus(m)' = OnBus(m) \union {i \in {Len(bus) + 1} : m \in InInbox}
                 /\ Queued(m)' = {} /\ Read(m)' = Read(m) /\ Held(m)' = Held(m)
          <6> HIDE DEF b, c
          <6> QED
            BY <3>1, <4>2, <5>1, OnBusAfter, <2>r, <1>f, <1>z
        <5>4. ASSUME NEW m \in Msgs PROVE Placed(m)'
          <6>1. CASE m \in InInbox
            <7>1. Held(m) = {} /\ OnBus(m) = {} /\ Queued(m) # {} /\ Read(m) = {}
              BY <6>1, <5>2, <1>2
            <7>2. OnBus(m)' = {Len(bus) + 1}
              BY <5>3, <6>1, <7>1
            <7>3. Somewhere(m)'
              BY <5>3, <7>1, <7>2 DEF Somewhere, Single
            <7> QED
              BY <7>1, <7>3, <3>1, <5>1, <1>m DEF Nowhere
          <6>2. CASE m \notin InInbox
            <7>1. OnBus(m)' = OnBus(m) /\ Queued(m)' = Queued(m)
              BY <5>2, <5>3, <6>2
            <7> QED
              BY <5>3, <7>1, <3>1, <5>1, <1>i, KeepsItsPlace
          <6> QED
            BY <6>1, <6>2
        <5>5. \A m \in ToSet(c.body) : m <= sent
          <6>1. \A m \in InInbox : m \in Msgs /\ m <= sent
            BY <5>2, Bodies, <1>a, <1>s DEF Nowhere
          <6> QED
            BY <6>1, <4>2
        <5>6. \A d \in ToSet(hashes') : \A m \in ToSet(d) : m <= sent
          <6> HIDE DEF b, c
          <6> QED
            BY <4>1, <4>2, <5>5, <1>i, BodiesAfterEnqueue
        <5> QED
          BY <3>1, <5>1, <5>4, <5>6, <1>i DEF PlaceInv
      <4> QED
        BY <4>3, <4>4
    <3> QED
      BY <3>2, <3>3, <3>4
  <2>15. CASE LeaveDirect(h)
    <3>1. /\ pc[h] = "leaving" /\ Reset(h) /\ fresh' = fresh
          /\ UNCHANGED <<sent, fate, bus, hashes, pending>>
      BY <2>15 DEF LeaveDirect, Reset, busVars
    <3> QED
      BY <3>1, <2>r, <1>k
  <2>16. CASE LeaveQueued(h)
    <3>1. /\ pc[h] = "leaving" /\ Reset(h) /\ fresh' = fresh
          /\ UNCHANGED <<sent, fate, bus, hashes, pending>>
      BY <2>16 DEF LeaveQueued, Reset, busVars
    <3> QED
      BY <3>1, <2>r, <1>k
  <2>17. CASE ChooseRoute(h)
    <3>1. /\ pc[h] = "received" /\ Goto(h, "routing")
          /\ UNCHANGED <<sent, fate, bus, hashes, pending, fresh, carrier>>
      BY <2>17 DEF ChooseRoute, busVars
    <3>2. \A m \in Msgs : Held(m)' = Held(m)
      BY <3>1, <2>c DEF PCs, Hand
    <3> QED
      BY <3>1, <3>2, <1>k
  <2> QED
    BY <1>15, <2>1, <2>2, <2>3, <2>4, <2>5, <2>6, <2>7, <2>8, <2>9, <2>10, <2>11, <2>12,
       <2>13, <2>14, <2>15, <2>16, <2>17 DEF HandlerStep
<1>16. CASE GrantTurn
  <2> DEFINE t == Head(line[Session])
  <2>1. UNCHANGED <<sent, fate, bus, hashes, pending, fresh, carrier>>
    BY <1>16 DEF GrantTurn, busVars
  <2>2. CASE t \in Handlers
    <3>1. Goto(t, "starting") /\ line[Session] # <<>>
      BY <1>16, <2>2 DEF GrantTurn, Gate!Grant
    <3>2. pc[t] = "waiting"
      <4>1. line[Session] \in Seq(Handlers \union Others)
        BY DEF TypeOK
      <4>2. t \in ToSet(line[Session])
        BY <3>1, <4>1 DEF ToSet
      <4> QED
        BY <2>2, <4>2 DEF TurnInv, LineInv, Waiting
    <3>3. \A m \in Msgs : Held(m)' = (Held(m) \ {t}) \union {g \in {t} : m \in Body(t)}
      <4>1. "starting" \in PCs /\ "starting" \in Hand /\ carrier'[t].body = carrier[t].body
        BY <2>1 DEF PCs, Hand
      <4> HIDE DEF t
      <4> QED
        BY <2>1, <2>2, <3>1, <4>1, HeldAfter DEF Body
    <3>4. \A m \in Msgs : Held(m)' = Held(m)
      <4>1. pc[t] \in Hand
        BY <3>2 DEF Hand
      <4> HIDE DEF t
      <4> QED
        BY <3>3, <4>1, <2>2, <1>h
    <3> QED
      BY <2>1, <3>4, <1>k
  <2>3. CASE t \notin Handlers
    <3>1. pc' = pc
      BY <1>16, <2>3 DEF GrantTurn
    <3> QED
      BY <2>1, <3>1, <1>k, HeldKept
  <2> QED
    BY <2>2, <2>3
<1>17. ASSUME NEW o \in Others, OtherRequest(o) PROVE PlaceInv'
  <2>1. UNCHANGED <<sent, fate, bus, hashes, pending, fresh, pc, carrier>>
    BY <1>17 DEF OtherRequest, busVars
  <2> QED
    BY <2>1, <1>k, HeldKept
<1>18. CASE OtherFinish
  <2>1. UNCHANGED <<sent, fate, bus, hashes, pending, fresh, pc, carrier>>
    BY <1>18 DEF OtherFinish, busVars
  <2> QED
    BY <2>1, <1>k, HeldKept
<1>19. CASE Stop
  <2>1. /\ pending' = <<>> /\ Becomes(InInbox, "stopped")
        /\ UNCHANGED <<sent, bus, hashes, fresh, pc, carrier>>
    BY <1>19 DEF Stop, DiscardPending, busVars
  <2> QED
    BY <2>1, <1>x, HeldKept
<1>20. CASE UNCHANGED vars
  <2>1. UNCHANGED <<sent, fate, bus, hashes, pending, fresh, pc, carrier>>
    BY <1>20 DEF vars
  <2> QED
    BY <2>1, <1>k, HeldKept
<1>21. CASE SwitchRoute
  <2>1. UNCHANGED <<sent, fate, bus, hashes, pending, fresh, pc, carrier>>
    BY <1>21 DEF SwitchRoute, busVars
  <2> QED
    BY <2>1, <1>k, HeldKept
<1> QED
  BY <1>11, <1>12, <1>13, <1>14, <1>15, <1>16, <1>17, <1>18, <1>19, <1>20, <1>21 DEF Next

-----------------------------------------------------------------------------
(***************************************************************************)
(* The routes.                                                             *)
(***************************************************************************)

\* What is noted as taken to the coding agent stays noted.
LEMMA ReroutedGrows ==
    ASSUME [Next]_vars
    PROVE  rerouted \subseteq rerouted'
<1>1. ASSUME NEW h \in Handlers, HandlerStep(h) PROVE rerouted \subseteq rerouted'
  BY <1>1 DEF HandlerStep, ChooseRoute, QueueSaved, StartSaving, QueueAfterSave, RefuseDirect,
       RequestTurn, StartLoop, CallModel, ToolBatch, RepeatHardStop, Answer, BudgetSpent,
       Interrupted, EndLoop, Fail, LeaveTurn, LeaveDirect, LeaveQueued, Reset, way
<1> QED
  BY <1>1 DEF Next, Publish, Redeliver, Expire, SwitchRoute, Consume, GrantTurn, OtherRequest,
       OtherFinish, Stop, vars, way

\* A handler that has its message in hand and goes on keeps the route it chose.
LEMMA WayStep ==
    ASSUME ChannelAssumption, TypeOK, TurnInv, WayInv, [Next]_vars
    PROVE  WayInv'
<1>t. pc \in [Handlers -> PCs] /\ carrier \in [Handlers -> Carriers]
  BY DEF TypeOK
<1>w. rerouted \subseteq rerouted'
  BY ReroutedGrows
\* One handler moves to l, and keeps its route and its message where l matters.
<1>m. ASSUME NEW h \in Handlers, NEW l \in PCs, Goto(h, l),
             \A g \in Handlers \ {h} : carrier'[g] = carrier[g],
             \A g \in Handlers \ {h} : g \in direct' <=> g \in direct,
             l \in {"idle", "received"} => h \notin direct',
             l \in Hand /\ h \in direct' =>
                 /\ carrier'[h].persisted => ToSet(carrier'[h].body) \subseteq rerouted'
      PROVE  WayInv'
  <2>1. \A g \in Handlers : pc'[g] = IF g = h THEN l ELSE pc[g]
    BY <1>m, <1>t DEF Goto
  <2>2. \A g \in Handlers : Body(g)' = ToSet(carrier'[g].body) /\ Body(g) = ToSet(carrier[g].body)
    BY DEF Body
  <2>3. \A g \in Handlers \ {h} : Body(g)' = Body(g)
    BY <1>m, <2>2
  <2> QED
    BY <1>m, <1>w, <2>1, <2>2, <2>3 DEF WayInv
<1>k. ASSUME UNCHANGED <<pc, carrier, direct>> PROVE WayInv'
  <2>1. \A g \in Handlers : Body(g)' = Body(g)
    BY <1>k DEF Body
  <2> QED
    BY <1>k, <1>w, <2>1 DEF WayInv
\* With its message in hand it goes on.
<1>g. ASSUME NEW h \in Handlers, NEW l \in PCs \ {"idle", "received"}, Goto(h, l), pc[h] \in Hand,
             UNCHANGED <<carrier, direct>>
      PROVE  WayInv'
  <2>1. h \in direct /\ carrier[h].persisted => ToSet(carrier[h].body) \subseteq rerouted
    BY <1>g DEF WayInv, Body
  <2> QED
    BY <1>g, <1>m, <1>w, <2>1
<1>5. ASSUME NEW h \in Handlers, HandlerStep(h) PROVE WayInv'
  <2>n. /\ "leaving" \in PCs /\ "idle" \in PCs /\ "loop" \in PCs /\ "called" \in PCs
        /\ {"leaving", "idle", "loop", "called"} \cap Hand = {}
    BY DEF PCs, Hand
  \* Out of its hands.
  <2>o. ASSUME NEW l \in PCs \ Hand, Goto(h, l), l # "idle" \/ h \notin direct',
               \A g \in Handlers \ {h} : carrier'[g] = carrier[g],
               \A g \in Handlers \ {h} : g \in direct' <=> g \in direct
        PROVE  WayInv'
    <3>1. "received" \in Hand
      BY DEF Hand
    <3> QED
      BY <2>o, <3>1, <1>m
  <2>p. ASSUME EnqueuePending(h), direct' = direct PROVE WayInv'
    <3>1. Goto(h, "leaving") /\ \A g \in Handlers \ {h} : carrier'[g] = carrier[g]
      BY <2>p, <1>t DEF EnqueuePending
    <3> QED
      BY <2>p, <3>1, <2>o, <2>n
  <2>r. ASSUME Reset(h) PROVE WayInv'
    <3>1. /\ Goto(h, "idle") /\ direct' = direct \ {h}
          /\ \A g \in Handlers \ {h} : carrier'[g] = carrier[g]
      BY <2>r, <1>t DEF Reset
    <3> QED
      BY <3>1, <2>o, <2>n
  <2>e. ASSUME NEW f, EndLoop(h, f) PROVE WayInv'
    <3>1. Goto(h, "leaving") /\ UNCHANGED <<carrier, direct>>
      BY <2>e DEF EndLoop, way
    <3> QED
      BY <3>1, <2>o, <2>n
  <2>1. CASE QueueSaved(h)
    BY <2>1, <2>p DEF QueueSaved, way
  <2>2. CASE StartSaving(h)
    <3>1. Goto(h, "saving") /\ pc[h] = "routing" /\ UNCHANGED <<carrier, direct>>
      BY <2>2 DEF StartSaving, way
    <3> QED
      BY <3>1, <1>g DEF PCs, Hand
  <2>3. CASE QueueAfterSave(h)
    BY <2>3, <2>p DEF QueueAfterSave, way
  <2>4. CASE RefuseDirect(h)
    <3>1. /\ Goto(h, "idle") /\ direct' = direct \ {h}
          /\ \A g \in Handlers \ {h} : carrier'[g] = carrier[g]
      BY <2>4, <1>t DEF RefuseDirect
    <3> QED
      BY <3>1, <2>o, <2>n
  <2>5. CASE RequestTurn(h)
    <3>1. /\ pc[h] = "routing" /\ (Goto(h, "starting") \/ Goto(h, "waiting"))
          /\ UNCHANGED <<carrier, direct>>
      BY <2>5 DEF RequestTurn, way
    <3> QED
      BY <3>1, <1>g DEF PCs, Hand
  <2>6. CASE StartLoop(h)
    <3>1. Goto(h, "loop") /\ UNCHANGED <<carrier, direct>>
      BY <2>6 DEF StartLoop, way
    <3> QED
      BY <3>1, <2>o, <2>n
  <2>7. CASE CallModel(h)
    <3>1. Goto(h, "called") /\ UNCHANGED <<carrier, direct>>
      BY <2>7 DEF CallModel, way
    <3> QED
      BY <3>1, <2>o, <2>n
  <2>8. CASE ToolBatch(h)
    <3>1. Goto(h, "loop") /\ UNCHANGED <<carrier, direct>>
      BY <2>8 DEF ToolBatch, way
    <3> QED
      BY <3>1, <2>o, <2>n
  <2>9. CASE RepeatHardStop(h)
    <3>1. Goto(h, "leaving") /\ UNCHANGED <<carrier, direct>>
      BY <2>9 DEF RepeatHardStop, way
    <3> QED
      BY <3>1, <2>o, <2>n
  <2>10. CASE Answer(h)
    BY <2>10, <2>e DEF Answer
  <2>11. CASE BudgetSpent(h)
    BY <2>11, <2>e DEF BudgetSpent
  <2>12. CASE Interrupted(h)
    BY <2>12, <2>e DEF Interrupted
  <2>13. CASE Fail(h)
    <3>1. Goto(h, "leaving") /\ UNCHANGED <<carrier, direct>>
      BY <2>13 DEF Fail, way
    <3> QED
      BY <3>1, <2>o, <2>n
  <2>14. CASE LeaveTurn(h)
    BY <2>14, <2>r DEF LeaveTurn
  <2>15. CASE LeaveDirect(h)
    BY <2>15, <2>r DEF LeaveDirect
  <2>16. CASE LeaveQueued(h)
    BY <2>16, <2>r DEF LeaveQueued
  <2>17. CASE ChooseRoute(h)
    <3>1. PICK straight \in WaysOf(carrier[h].body) :
             /\ direct' = IF straight THEN direct \union {h} ELSE direct
             /\ rerouted' = IF straight /\ carrier[h].persisted
                            THEN rerouted \union Body(h) ELSE rerouted
      BY <2>17 DEF ChooseRoute
    <3>2. /\ pc[h] = "received" /\ Goto(h, "routing") /\ carrier' = carrier
          /\ h \notin direct
      BY <2>17 DEF ChooseRoute, WayInv
    <3>3. \A g \in Handlers \ {h} : g \in direct' <=> g \in direct
      BY <3>1
    <3>4. h \in direct' /\ carrier'[h].persisted => ToSet(carrier'[h].body) \subseteq rerouted'
      BY <3>1, <3>2 DEF Body
    <3> QED
      BY <3>2, <3>3, <3>4, <1>m DEF PCs
  <2> QED
    BY <1>5, <2>1, <2>2, <2>3, <2>4, <2>5, <2>6, <2>7, <2>8, <2>9, <2>10, <2>11, <2>12,
       <2>13, <2>14, <2>15, <2>16, <2>17 DEF HandlerStep
<1>4. ASSUME NEW h \in Handlers, Consume(h) PROVE WayInv'
  <2>1. /\ pc[h] = "idle" /\ Goto(h, "received") /\ direct' = direct
        /\ \A g \in Handlers \ {h} : carrier'[g] = carrier[g]
    BY <1>4, <1>t DEF Consume, way
  <2>2. h \notin direct'
    BY <2>1 DEF WayInv
  <2> QED
    BY <2>1, <2>2, <1>m DEF PCs
<1>6. CASE GrantTurn
  <2> DEFINE t == Head(line[Session])
  <2>1. UNCHANGED <<carrier, direct>>
    BY <1>6 DEF GrantTurn, way
  <2>2. CASE t \in Handlers
    <3>1. Goto(t, "starting") /\ line[Session] # <<>>
      BY <1>6, <2>2 DEF GrantTurn, Gate!Grant
    <3>2. pc[t] = "waiting"
      <4>1. line[Session] \in Seq(Handlers \union Others)
        BY DEF TypeOK
      <4>2. t \in ToSet(line[Session])
        BY <3>1, <4>1 DEF ToSet
      <4> QED
        BY <2>2, <4>2 DEF TurnInv, LineInv, Waiting
    <3> HIDE DEF t
    <3> QED
      BY <2>1, <2>2, <3>1, <3>2, <1>g DEF PCs, Hand
  <2>3. CASE t \notin Handlers
    <3>1. pc' = pc
      BY <1>6, <2>3 DEF GrantTurn
    <3> QED
      BY <2>1, <3>1, <1>k
  <2> QED
    BY <2>2, <2>3
<1>7. CASE \/ Publish \/ Expire \/ SwitchRoute \/ OtherFinish \/ Stop \/ UNCHANGED vars
           \/ \E m \in Msgs : Redeliver(m)
           \/ \E o \in Others : OtherRequest(o)
  <2>1. UNCHANGED <<pc, carrier, direct>>
    BY <1>7 DEF Publish, Redeliver, Expire, SwitchRoute, OtherRequest, OtherFinish, Stop,
                vars, way
  <2> QED
    BY <2>1, <1>k
<1> QED
  BY <1>4, <1>5, <1>6, <1>7 DEF Next

-----------------------------------------------------------------------------
(***************************************************************************)
(* The history.                                                            *)
(***************************************************************************)

\* When one handler moves on, only the marks of what it has in its hands change.
LEMMA HandMarksAfter ==
    ASSUME TypeOK, HandMarks, saved' = saved, NEW h \in Handlers, NEW l \in PCs, Goto(h, l),
           \A g \in Handlers \ {h} : carrier'[g] = carrier[g],
           l \in Hand => /\ \A m \in ToSet(carrier'[h].body) :
                               saved[m] = IF carrier'[h].persisted THEN 1 ELSE 0
                         /\ l = "saving" => ~carrier'[h].persisted
    PROVE  HandMarks'
<1>1. \A g \in Handlers : pc'[g] = IF g = h THEN l ELSE pc[g]
  BY DEF TypeOK, Goto
<1>2. \A g \in Handlers : Body(g)' = ToSet(carrier'[g].body) /\ Body(g) = ToSet(carrier[g].body)
  BY DEF Body
<1>3. "saving" \in Hand
  BY DEF Hand
<1> QED
  BY <1>1, <1>2, <1>3 DEF HandMarks

\* A carrier with the right mark keeps the marks on the bus right.
LEMMA BusMarksAfter ==
    ASSUME TypeOK, BusMarks, saved' = saved, NEW c \in Carriers, Enqueue(c),
           \A m \in ToSet(c.body) : saved[m] = IF c.persisted THEN 1 ELSE 0
    PROVE  BusMarks'
<1>1. CASE Known(c.body)
  BY <1>1 DEF Enqueue, busVars, BusMarks
<1>2. CASE ~ Known(c.body)
  <2>1. bus \in Seq(Carriers) /\ Len(bus) \in Nat /\ bus' = Append(bus, c)
    BY <1>2 DEF TypeOK, Enqueue
  <2>2. /\ DOMAIN bus = 1..Len(bus)
        /\ DOMAIN bus' = 1..Len(bus) + 1
        /\ \A i \in 1..Len(bus) : bus'[i] = bus[i]
        /\ bus'[Len(bus) + 1] = c
    <3>1. bus' \in Seq(Carriers)
      BY <2>1, AppendProperties
    <3> QED
      BY <2>1, <3>1, AppendProperties
  <2>3. ASSUME NEW i \in DOMAIN bus', NEW m \in ToSet(bus'[i].body)
        PROVE  saved[m] = IF bus'[i].persisted THEN 1 ELSE 0
    <3>1. CASE i = Len(bus) + 1
      BY <3>1, <2>2, <2>3
    <3>2. CASE i \in 1..Len(bus)
      BY <3>2, <2>2, <2>3 DEF BusMarks
    <3> QED
      BY <2>1, <2>2, <3>1, <3>2
  <2> QED
    BY <2>3 DEF BusMarks
<1> QED
  BY <1>1, <1>2

\* The marks tell what was saved: no step writes a message that has its mark, and none
\* shows the model a message that was not written.
LEMMA SavedStep ==
    ASSUME ChannelAssumption, TypeOK, TurnInv, BudgetInv, PlaceInv, WayInv, SavedInv,
           [Next]_vars
    PROVE  SavedInv'
<1>t. /\ fate \in [Msgs -> Fates] /\ sent \in Nat /\ \A m \in Msgs : m \in Nat
      /\ fresh \in [Handlers -> SUBSET Msgs] /\ pc \in [Handlers -> PCs]
      /\ carrier \in [Handlers -> Carriers] /\ pending \in Seq(Seq(Msgs))
      /\ saved \in [Msgs -> Nat]
  BY DEF TypeOK, Msgs
<1>i. NotYetSaved /\ BusMarks /\ HandMarks /\ InboxIsSaved /\ ContextIsSaved /\ SavedOnce
  BY DEF SavedInv
<1>a. \A m \in Msgs : ~ Nowhere(m) => Somewhere(m) /\ m <= sent /\ fate[m] = "none"
  BY DEF PlaceInv, Placed, Pending
<1>m. /\ \A h \in Handlers : Body(h) \subseteq Msgs
      /\ InInbox \subseteq Msgs
      /\ \A i \in DOMAIN bus : ToSet(bus[i].body) \subseteq Msgs
  BY Bodies
<1>w. rerouted \subseteq rerouted'
  BY ReroutedGrows
\* The parts, where they stay as they are.
<1>n. ASSUME saved' = saved, sent' = sent PROVE NotYetSaved'
  BY <1>n, <1>i DEF NotYetSaved
<1>u. ASSUME saved' = saved, bus' = bus PROVE BusMarks'
  BY <1>u, <1>i DEF BusMarks
<1>h. ASSUME saved' = saved, pc' = pc, carrier' = carrier PROVE HandMarks'
  BY <1>h, <1>i DEF HandMarks, Body
<1>q. ASSUME saved' = saved, pending' = pending \/ pending' = <<>> PROVE InboxIsSaved'
  BY <1>q, <1>i DEF InboxIsSaved
<1>f. ASSUME saved' = saved, \A h \in Handlers : fresh'[h] \subseteq fresh[h] PROVE ContextIsSaved'
  BY <1>f, <1>i DEF ContextIsSaved
<1>o. ASSUME saved' = saved, NEW ms, NEW f, Becomes(ms, f),
             f = "seen" => \A m \in ms \intersect Msgs : saved[m] >= 1
      PROVE  SavedOnce'
  BY <1>o, <1>w, <1>i, <1>t DEF SavedOnce, Becomes
<1>p. ASSUME saved' = saved, fate' = fate PROVE SavedOnce'
  BY <1>p, <1>w, <1>i, <1>t DEF SavedOnce
<1>b. \A m \in InInbox : saved[m] = 1
  BY <1>i DEF InInbox, InboxIsSaved
<1>11. CASE Publish
  <2> DEFINE n == sent + 1
             c == [body |-> <<n>>, persisted |-> FALSE]
  <2>1. /\ sent' = n /\ n \in Msgs /\ Enqueue(c)
        /\ UNCHANGED <<pending, pc, carrier, fresh, fate, saved>>
    BY <1>11 DEF Publish, Msgs, ChannelAssumption, TypeOK
  <2>2. c \in Carriers /\ ToSet(c.body) = {n} /\ ~c.persisted
    BY <2>1 DEF Carriers, ToSet
  <2>3. saved[n] = 0
    <3>1. n > sent
      BY <1>t
    <3> QED
      BY <2>1, <3>1, <1>i DEF NotYetSaved
  <2>4. BusMarks'
    <3> HIDE DEF c
    <3> QED
      BY <2>1, <2>2, <2>3, <1>i, BusMarksAfter
  <2>5. NotYetSaved'
    <3>1. \A m \in Msgs : m > n => m > sent
      BY <1>t
    <3> QED
      BY <2>1, <3>1, <1>i DEF NotYetSaved
  <2> QED
    BY <2>1, <2>4, <2>5, <1>h, <1>q, <1>f, <1>p DEF SavedInv
<1>12. ASSUME NEW m \in Msgs, Redeliver(m) PROVE SavedInv'
  <2>1. UNCHANGED <<sent, fate, bus, pending, fresh, pc, carrier, saved>>
    BY <1>12 DEF Redeliver, Enqueue, busVars
  <2> QED
    BY <2>1, <1>n, <1>u, <1>h, <1>q, <1>f, <1>p DEF SavedInv
<1>13. CASE Expire
  <2>1. UNCHANGED <<sent, fate, bus, pending, fresh, pc, carrier, saved>>
    BY <1>13 DEF Expire
  <2> QED
    BY <2>1, <1>n, <1>u, <1>h, <1>q, <1>f, <1>p DEF SavedInv
<1>14. ASSUME NEW h \in Handlers, Consume(h) PROVE SavedInv'
  <2>1. /\ bus # <<>> /\ bus' = Tail(bus) /\ Goto(h, "received")
        /\ carrier' = [carrier EXCEPT ![h] = Head(bus)]
        /\ UNCHANGED <<sent, fate, pending, fresh, saved>>
    BY <1>14 DEF Consume
  <2>2. bus \in Seq(Carriers) /\ Len(bus) \in Nat \ {0} /\ Head(bus) = bus[1]
    BY <2>1 DEF TypeOK
  <2>3. /\ DOMAIN bus = 1..Len(bus)
        /\ DOMAIN bus' = 1..Len(bus) - 1
        /\ \A i \in 1..Len(bus) - 1 : bus'[i] = bus[i + 1]
    <3>1. bus' \in Seq(Carriers)
      BY <2>1, <2>2, HeadTailProperties
    <3> QED
      BY <2>1, <2>2, <3>1, HeadTailProperties
  <2>4. BusMarks'
    <3>1. \A i \in 1..Len(bus) - 1 : i + 1 \in DOMAIN bus
      BY <2>2, <2>3
    <3> QED
      BY <2>1, <2>3, <3>1, <1>i DEF BusMarks
  <2>5. /\ carrier'[h] = bus[1] /\ 1 \in DOMAIN bus
        /\ \A g \in Handlers \ {h} : carrier'[g] = carrier[g]
    BY <2>1, <2>2, <2>3, <1>t
  <2>6. \A m \in ToSet(carrier'[h].body) : saved[m] = IF carrier'[h].persisted THEN 1 ELSE 0
    BY <2>5, <1>i DEF BusMarks
  <2>7. HandMarks'
    BY <2>1, <2>5, <2>6, <1>i, HandMarksAfter DEF PCs
  <2> QED
    BY <2>1, <2>4, <2>7, <1>n, <1>q, <1>f, <1>p DEF SavedInv
<1>15. ASSUME NEW h \in Handlers, HandlerStep(h) PROVE SavedInv'
  <2>n. "leaving" \in PCs \ Hand /\ "idle" \in PCs \ Hand /\ "loop" \in PCs \ Hand
        /\ "called" \in PCs \ Hand
    BY DEF PCs, Hand
  <2>l. ASSUME saved' = saved, NEW l \in PCs, Goto(h, l), l \notin Hand,
               \A g \in Handlers \ {h} : carrier'[g] = carrier[g]
        PROVE  HandMarks'
    BY <2>l, <1>i, HandMarksAfter
  <2>c. ASSUME saved' = saved, NEW l \in PCs, Goto(h, l), pc[h] \in Hand, carrier' = carrier,
               l = "saving" => ~carrier[h].persisted
        PROVE  HandMarks'
    <3>1. \A m \in ToSet(carrier[h].body) : saved[m] = IF carrier[h].persisted THEN 1 ELSE 0
      BY <2>c, <1>i DEF HandMarks, Body
    <3> QED
      BY <2>c, <3>1, <1>i, HandMarksAfter
  \* The messages in its hands are written.
  <2>s. ASSUME Save(Body(h)), pc[h] \in Hand,
               carrier[h].persisted => Body(h) \subseteq rerouted,
               UNCHANGED <<sent, bus, fate>>,
               NEW l \in PCs, l \notin Hand, Goto(h, l),
               \A g \in Handlers \ {h} : carrier'[g] = carrier[g]
        PROVE  /\ NotYetSaved' /\ BusMarks' /\ HandMarks' /\ SavedOnce'
               /\ \A m \in Msgs : Queued(m) # {} \/ Read(m) # {} => saved'[m] = saved[m]
               /\ \A m \in Body(h) : saved'[m] = IF carrier[h].persisted THEN 2 ELSE 1
    <3>1. \A m \in Msgs : saved'[m] = IF m \in Body(h) THEN saved[m] + 1 ELSE saved[m]
      BY <2>s DEF Save
    <3>2. \A m \in Body(h) : m \in Msgs /\ saved[m] = IF carrier[h].persisted THEN 1 ELSE 0
      BY <2>s, <1>i, <1>m DEF HandMarks
    <3>3. \A m \in Body(h) : /\ Held(m) = {h} /\ OnBus(m) = {} /\ Queued(m) = {} /\ Read(m) = {}
                             /\ m <= sent /\ fate[m] = "none"
      <4>1. \A m \in Body(h) : h \in Held(m)
        BY <2>s DEF Held
      <4> QED
        BY <4>1, <3>2, <1>a DEF Nowhere, Somewhere, Single
    <3>4. NotYetSaved'
      <4>1. \A m \in Msgs : m > sent => m \notin Body(h)
        BY <3>3, <1>t
      <4> QED
        BY <2>s, <3>1, <4>1, <1>i DEF NotYetSaved
    <3>5. BusMarks'
      <4>1. \A i \in DOMAIN bus : \A m \in ToSet(bus[i].body) : m \in Msgs /\ m \notin Body(h)
        BY <3>3, <1>m DEF OnBus
      <4> QED
        BY <2>s, <3>1, <4>1, <1>i DEF BusMarks
    <3>6. HandMarks'
      <4>1. \A g \in Handlers : pc'[g] = IF g = h THEN l ELSE pc[g]
        BY <2>s, <1>t DEF Goto
      <4>2. \A g \in Handlers \ {h} : pc[g] \in Hand =>
               \A m \in Body(g) : m \in Msgs /\ m \notin Body(h)
        BY <3>3, <1>m DEF Held
      <4>3. \A g \in Handlers \ {h} : Body(g)' = Body(g)
        BY <2>s DEF Body
      <4>4. "saving" \in Hand
        BY DEF Hand
      <4>5. \A g \in Handlers \ {h} : pc[g] \in Hand => \A m \in Body(g) : saved'[m] = saved[m]
        BY <3>1, <4>2
      <4> QED
        BY <2>s, <4>1, <4>3, <4>4, <4>5, <1>i DEF HandMarks
    <3>7. SavedOnce'
      <4>1. \A m \in Body(h) :
               saved'[m] >= 1 /\ saved'[m] <= IF m \in rerouted' THEN 2 ELSE 1
        BY <2>s, <3>1, <3>2, <1>w
      <4>2. \A m \in Msgs \ Body(h) :
               /\ saved'[m] = saved[m] /\ fate'[m] = fate[m]
               /\ saved'[m] <= IF m \in rerouted' THEN 2 ELSE 1
        BY <2>s, <3>1, <1>w, <1>i, <1>t DEF SavedOnce
      <4> QED
        BY <4>1, <4>2, <1>i DEF SavedOnce
    <3>8. \A m \in Msgs : Queued(m) # {} \/ Read(m) # {} => saved'[m] = saved[m]
      BY <3>1, <3>3
    <3> QED
      BY <3>1, <3>2, <3>4, <3>5, <3>6, <3>7, <3>8
  \* The body it holds joins the inbox.
  <2>p. ASSUME pending' = Append(pending, carrier[h].body),
               \A m \in Msgs : Queued(m) # {} => saved'[m] = saved[m],
               \A m \in Body(h) : saved'[m] = 1
        PROVE  InboxIsSaved'
    <3>1. carrier[h].body \in Seq(Msgs) /\ Body(h) = ToSet(carrier[h].body)
      BY <1>t DEF Carriers, Body
    <3>2. /\ DOMAIN pending = 1..Len(pending) /\ Len(pending) \in Nat
          /\ DOMAIN pending' = 1..Len(pending) + 1
          /\ \A i \in 1..Len(pending) : pending'[i] = pending[i]
          /\ pending'[Len(pending) + 1] = carrier[h].body
      <4>1. pending' \in Seq(Seq(Msgs))
        BY <2>p, <3>1, <1>t, AppendProperties
      <4> QED
        BY <2>p, <3>1, <4>1, <1>t, AppendProperties
    <3>3. \A i \in DOMAIN pending : \A m \in ToSet(pending[i]) : saved'[m] = 1
      <4>1. \A i \in DOMAIN pending : \A m \in ToSet(pending[i]) : m \in Msgs /\ Queued(m) # {}
        BY <1>m DEF Queued, InInbox
      <4> QED
        BY <4>1, <2>p, <1>i DEF InboxIsSaved
    <3>4. ASSUME NEW i \in DOMAIN pending', NEW m \in ToSet(pending'[i]) PROVE saved'[m] = 1
      <4>1. CASE i = Len(pending) + 1
        BY <4>1, <3>1, <3>2, <3>4, <2>p
      <4>2. CASE i \in 1..Len(pending)
        BY <4>2, <3>2, <3>3, <3>4
      <4> QED
        BY <3>2, <4>1, <4>2
    <3> QED
      BY <3>4 DEF InboxIsSaved
  <2>e. ASSUME NEW f, Becomes(fresh[h], f), \A g \in Handlers : fresh'[g] \subseteq fresh[g],
               NEW l \in PCs \ Hand, Goto(h, l),
               UNCHANGED <<sent, bus, pending, carrier, saved>>
        PROVE  SavedInv'
    <3>1. \A m \in fresh[h] : saved[m] >= 1
      BY <1>i DEF ContextIsSaved
    <3>2. SavedOnce'
      BY <2>e, <3>1, <1>o
    <3>3. HandMarks'
      BY <2>e, <2>l
    <3> QED
      BY <2>e, <3>2, <3>3, <1>n, <1>u, <1>q, <1>f DEF SavedInv
  <2>q. ASSUME NEW f, EndLoop(h, f) PROVE SavedInv'
    <3>1. /\ Goto(h, "leaving") /\ Becomes(fresh[h], f) /\ fresh' = [fresh EXCEPT ![h] = {}]
          /\ UNCHANGED <<sent, bus, pending, carrier, saved>>
      BY <2>q DEF EndLoop, busVars
    <3>2. \A g \in Handlers : fresh'[g] \subseteq fresh[g]
      BY <3>1, <1>t
    <3> QED
      BY <3>1, <3>2, <2>e, <2>n
  <2>1. CASE QueueSaved(h)
    <3>1. /\ pc[h] = "routing" /\ carrier[h].persisted /\ Goto(h, "leaving")
          /\ pending' = Append(pending, carrier[h].body)
          /\ \A g \in Handlers \ {h} : carrier'[g] = carrier[g]
          /\ UNCHANGED <<sent, fate, bus, fresh, saved>>
      BY <2>1, <1>t DEF QueueSaved, EnqueuePending, busVars
    <3>2. \A m \in Body(h) : saved'[m] = 1
      BY <3>1, <1>i DEF HandMarks, Hand
    <3>3. InboxIsSaved'
      BY <3>1, <3>2, <2>p
    <3>4. HandMarks'
      BY <3>1, <2>l, <2>n
    <3> QED
      BY <3>1, <3>3, <3>4, <1>n, <1>u, <1>f, <1>p DEF SavedInv
  <2>2. CASE StartSaving(h)
    <3>1. /\ pc[h] = "routing" /\ Goto(h, "saving") /\ ~carrier[h].persisted
          /\ UNCHANGED <<sent, fate, bus, pending, fresh, carrier, saved>>
      BY <2>2 DEF StartSaving, busVars
    <3>2. HandMarks'
      BY <3>1, <2>c DEF PCs, Hand
    <3> QED
      BY <3>1, <3>2, <1>n, <1>u, <1>q, <1>f, <1>p DEF SavedInv
  <2>3. CASE QueueAfterSave(h)
    <3>1. /\ pc[h] = "saving" /\ Save(Body(h)) /\ Goto(h, "leaving")
          /\ pending' = Append(pending, carrier[h].body)
          /\ \A g \in Handlers \ {h} : carrier'[g] = carrier[g]
          /\ UNCHANGED <<sent, fate, bus, fresh>>
      BY <2>3, <1>t DEF QueueAfterSave, EnqueuePending, busVars
    <3>2. ~carrier[h].persisted
      BY <3>1, <1>i DEF HandMarks
    <3>3. /\ NotYetSaved' /\ BusMarks' /\ HandMarks' /\ SavedOnce'
          /\ \A m \in Msgs : Queued(m) # {} \/ Read(m) # {} => saved'[m] = saved[m]
          /\ \A m \in Body(h) : saved'[m] = 1
      BY <3>1, <3>2, <2>s, <2>n DEF Hand
    <3>4. InboxIsSaved'
      BY <3>1, <3>3, <2>p
    <3>5. ContextIsSaved'
      <4>1. \A g \in Handlers : \A m \in fresh[g] : m \in Msgs /\ Read(m) # {}
        BY <1>t DEF Read
      <4> QED
        BY <3>1, <3>3, <4>1, <1>i DEF ContextIsSaved
    <3> QED
      BY <3>3, <3>4, <3>5 DEF SavedInv
  <2>4. CASE RefuseDirect(h)
    <3>1. /\ Goto(h, "idle") /\ Becomes(Body(h), "refused")
          /\ \A g \in Handlers \ {h} : carrier'[g] = carrier[g]
          /\ UNCHANGED <<sent, bus, pending, fresh, saved>>
      BY <2>4, <1>t DEF RefuseDirect, busVars
    <3>2. HandMarks'
      BY <3>1, <2>l, <2>n
    <3>3. SavedOnce'
      BY <3>1, <1>o
    <3> QED
      BY <3>1, <3>2, <3>3, <1>n, <1>u, <1>q, <1>f DEF SavedInv
  <2>5. CASE RequestTurn(h)
    <3>1. /\ pc[h] = "routing" /\ (Goto(h, "starting") \/ Goto(h, "waiting"))
          /\ UNCHANGED <<sent, fate, bus, pending, fresh, carrier, saved>>
      BY <2>5 DEF RequestTurn, busVars
    <3>2. HandMarks'
      BY <3>1, <2>c DEF PCs, Hand
    <3> QED
      BY <3>1, <3>2, <1>n, <1>u, <1>q, <1>f, <1>p DEF SavedInv
  <2>6. CASE StartLoop(h)
    <3>1. /\ pc[h] = "starting" /\ Goto(h, "loop") /\ fresh' = [fresh EXCEPT ![h] = Body(h)]
          /\ IF carrier[h].persisted /\ h \notin direct
             THEN UNCHANGED saved ELSE Save(Body(h))
          /\ UNCHANGED <<sent, fate, bus, pending, carrier>>
      BY <2>6 DEF StartLoop, IsDirect, busVars
    <3>2. "starting" \in Hand
      BY DEF Hand
    <3>3. \A g \in Handlers : fresh'[g] = IF g = h THEN Body(h) ELSE fresh[g]
      BY <3>1, <1>t
    <3>4. CASE carrier[h].persisted /\ h \notin direct
      <4>1. \A m \in Body(h) : saved[m] = 1
        BY <3>1, <3>2, <3>4, <1>i DEF HandMarks
      <4>2. ContextIsSaved'
        BY <3>1, <3>3, <3>4, <4>1, <1>i DEF ContextIsSaved
      <4>3. HandMarks'
        BY <3>1, <3>4, <2>l, <2>n
      <4> QED
        BY <3>1, <3>4, <4>2, <4>3, <1>n, <1>u, <1>q, <1>p DEF SavedInv
    <3>5. CASE ~ (carrier[h].persisted /\ h \notin direct)
      <4>0. carrier[h].persisted => Body(h) \subseteq rerouted
        BY <3>1, <3>2, <3>5 DEF WayInv
      <4>1. /\ NotYetSaved' /\ BusMarks' /\ HandMarks' /\ SavedOnce'
            /\ \A m \in Msgs : Queued(m) # {} \/ Read(m) # {} => saved'[m] = saved[m]
            /\ \A m \in Body(h) : saved'[m] = IF carrier[h].persisted THEN 2 ELSE 1
        BY <3>1, <3>2, <3>5, <4>0, <2>s, <2>n
      <4>2. ContextIsSaved'
        <5>1. \A g \in Handlers : \A m \in fresh[g] : m \in Msgs /\ Read(m) # {}
          BY <1>t DEF Read
        <5> QED
          BY <3>3, <4>1, <5>1, <1>i DEF ContextIsSaved
      <4>3. InboxIsSaved'
        <5>1. \A i \in DOMAIN pending : \A m \in ToSet(pending[i]) : m \in Msgs /\ Queued(m) # {}
          BY <1>m DEF Queued, InInbox
        <5> QED
          BY <3>1, <4>1, <5>1, <1>i DEF InboxIsSaved
      <4> QED
        BY <4>1, <4>2, <4>3 DEF SavedInv
    <3> QED
      BY <3>4, <3>5
  <2>7. CASE CallModel(h)
    <3>1. /\ Goto(h, "called") /\ Becomes(fresh[h], "seen") /\ fresh' = [fresh EXCEPT ![h] = {}]
          /\ UNCHANGED <<sent, bus, pending, carrier, saved>>
      BY <2>7 DEF CallModel, busVars
    <3>2. \A g \in Handlers : fresh'[g] \subseteq fresh[g]
      BY <3>1, <1>t
    <3> QED
      BY <3>1, <3>2, <2>e, <2>n
  <2>8. CASE ToolBatch(h)
    <3>1. /\ Goto(h, "loop") /\ pending' = <<>>
          /\ fresh' = [fresh EXCEPT ![h] = fresh[h] \union InInbox]
          /\ UNCHANGED <<sent, fate, bus, carrier, saved>>
      BY <2>8 DEF ToolBatch, Inject, TakePending, busVars
    <3>2. \A g \in Handlers : fresh'[g] = IF g = h THEN fresh[h] \union InInbox ELSE fresh[g]
      BY <3>1, <1>t
    <3>3. ContextIsSaved'
      BY <3>1, <3>2, <1>b, <1>i DEF ContextIsSaved
    <3>4. HandMarks'
      BY <3>1, <2>l, <2>n
    <3> QED
      BY <3>1, <3>3, <3>4, <1>n, <1>u, <1>q, <1>p DEF SavedInv
  <2>9. CASE RepeatHardStop(h)
    <3>1. /\ Goto(h, "leaving") /\ pending' = <<>> /\ Becomes(InInbox, "absorbed")
          /\ UNCHANGED <<sent, bus, fresh, carrier, saved>>
      BY <2>9 DEF RepeatHardStop, TakePending, busVars
    <3>2. HandMarks'
      BY <3>1, <2>l, <2>n
    <3>3. SavedOnce'
      BY <3>1, <1>o
    <3> QED
      BY <3>1, <3>2, <3>3, <1>n, <1>u, <1>q, <1>f DEF SavedInv
  <2>10. CASE Answer(h)
    BY <2>10, <2>q DEF Answer
  <2>11. CASE BudgetSpent(h)
    BY <2>11, <2>q DEF BudgetSpent
  <2>12. CASE Interrupted(h)
    BY <2>12, <2>q DEF Interrupted
  <2>13. CASE Fail(h)
    <3>1. /\ Goto(h, "leaving") /\ fresh' = [fresh EXCEPT ![h] = {}]
          /\ Becomes(IF pc[h] \in {"loop", "called"} THEN fresh[h] ELSE Body(h), "failed")
          /\ UNCHANGED <<sent, bus, pending, carrier, saved>>
      BY <2>13 DEF Fail, busVars
    <3>2. HandMarks'
      BY <3>1, <2>l, <2>n
    <3>3. SavedOnce'
      BY <3>1, <1>o
    <3>4. \A g \in Handlers : fresh'[g] \subseteq fresh[g]
      BY <3>1, <1>t
    <3> QED
      BY <3>1, <3>2, <3>3, <3>4, <1>n, <1>u, <1>q, <1>f DEF SavedInv
  <2>r. ASSUME Reset(h), saved' = saved PROVE HandMarks' /\ fresh' = fresh
    <3>1. Goto(h, "idle") /\ \A g \in Handlers \ {h} : carrier'[g] = carrier[g] /\ fresh' = fresh
      BY <2>r, <1>t DEF Reset
    <3> QED
      BY <2>r, <3>1, <2>l, <2>n DEF Reset
  <2>14. CASE LeaveTurn(h)
    <3>1. pending' = <<>> /\ Reset(h) /\ sent' = sent /\ saved' = saved
      BY <2>14 DEF LeaveTurn
    <3>2. CASE h \in cancelled
      <4>1. Becomes(InInbox, "dropped") /\ bus' = bus
        BY <2>14, <3>2 DEF LeaveTurn, busVars
      <4>2. SavedOnce'
        BY <3>1, <4>1, <1>o
      <4> QED
        BY <3>1, <4>1, <4>2, <2>r, <1>n, <1>u, <1>q, <1>f DEF SavedInv
    <3>3. CASE h \notin cancelled /\ pending = <<>>
      <4>1. fate' = fate /\ bus' = bus
        BY <2>14, <3>3 DEF LeaveTurn, busVars
      <4> QED
        BY <3>1, <4>1, <2>r, <1>n, <1>u, <1>q, <1>f, <1>p DEF SavedInv
    <3>4. CASE h \notin cancelled /\ pending # <<>>
      <4> DEFINE b == FlattenSeq(pending)
                 c == [body |-> b, persisted |-> TRUE]
      <4>1. /\ Enqueue(c)
            /\ IF Known(b) THEN Becomes(ToSet(b), "duplicate") ELSE UNCHANGED fate
        BY <2>14, <3>4 DEF LeaveTurn, Requeue
      <4>2. b \in Seq(Msgs) /\ ToSet(b) = InInbox /\ c \in Carriers /\ c.body = b /\ c.persisted
        BY <1>t, FlattenFacts DEF InInbox, Carriers
      <4>3. SavedOnce'
        BY <3>1, <4>1, <1>o, <1>p
      <4>4. BusMarks'
        <5>1. \A m \in ToSet(c.body) : saved[m] = 1
          BY <4>2, <1>b
        <5> HIDE DEF b, c
        <5> QED
          BY <3>1, <4>1, <4>2, <5>1, <1>i, BusMarksAfter
      <4> QED
        BY <3>1, <4>3, <4>4, <2>r, <1>n, <1>q, <1>f DEF SavedInv
    <3> QED
      BY <3>2, <3>3, <3>4
  <2>15. CASE LeaveDirect(h)
    <3>1. Reset(h) /\ UNCHANGED <<sent, fate, bus, pending, saved>>
      BY <2>15 DEF LeaveDirect, busVars
    <3> QED
      BY <3>1, <2>r, <1>n, <1>u, <1>q, <1>f, <1>p DEF SavedInv
  <2>16. CASE LeaveQueued(h)
    <3>1. Reset(h) /\ UNCHANGED <<sent, fate, bus, pending, saved>>
      BY <2>16 DEF LeaveQueued, busVars
    <3> QED
      BY <3>1, <2>r, <1>n, <1>u, <1>q, <1>f, <1>p DEF SavedInv
  <2>17. CASE ChooseRoute(h)
    <3>1. /\ pc[h] = "received" /\ Goto(h, "routing")
          /\ UNCHANGED <<sent, fate, bus, pending, fresh, carrier, saved>>
      BY <2>17 DEF ChooseRoute, busVars
    <3>2. HandMarks'
      BY <3>1, <2>c DEF PCs, Hand
    <3> QED
      BY <3>1, <3>2, <1>n, <1>u, <1>q, <1>f, <1>p DEF SavedInv
  <2> QED
    BY <1>15, <2>1, <2>2, <2>3, <2>4, <2>5, <2>6, <2>7, <2>8, <2>9, <2>10, <2>11, <2>12,
       <2>13, <2>14, <2>15, <2>16, <2>17 DEF HandlerStep
<1>16. CASE GrantTurn
  <2> DEFINE t == Head(line[Session])
  <2>1. UNCHANGED <<sent, fate, bus, pending, fresh, carrier, saved>>
    BY <1>16 DEF GrantTurn, busVars
  <2>2. HandMarks'
    <3>1. CASE t \in Handlers
      <4>1. Goto(t, "starting") /\ line[Session] # <<>>
        BY <1>16, <3>1 DEF GrantTurn, Gate!Grant
      <4>2. pc[t] = "waiting"
        <5>1. line[Session] \in Seq(Handlers \union Others)
          BY DEF TypeOK
        <5>2. t \in ToSet(line[Session])
          BY <4>1, <5>1 DEF ToSet
        <5> QED
          BY <3>1, <5>2 DEF TurnInv, LineInv, Waiting
      <4>3. \A m \in ToSet(carrier[t].body) : saved[m] = IF carrier[t].persisted THEN 1 ELSE 0
        BY <3>1, <4>2, <1>i DEF HandMarks, Body, Hand
      <4> HIDE DEF t
      <4> QED
        BY <2>1, <3>1, <4>1, <4>3, <1>i, HandMarksAfter DEF PCs
    <3>2. CASE t \notin Handlers
      <4>1. pc' = pc
        BY <1>16, <3>2 DEF GrantTurn
      <4> QED
        BY <2>1, <4>1, <1>h
    <3> QED
      BY <3>1, <3>2
  <2> QED
    BY <2>1, <2>2, <1>n, <1>u, <1>q, <1>f, <1>p DEF SavedInv
<1>17. ASSUME NEW o \in Others, OtherRequest(o) PROVE SavedInv'
  <2>1. UNCHANGED <<sent, fate, bus, pending, fresh, pc, carrier, saved>>
    BY <1>17 DEF OtherRequest, busVars
  <2> QED
    BY <2>1, <1>n, <1>u, <1>h, <1>q, <1>f, <1>p DEF SavedInv
<1>18. CASE OtherFinish
  <2>1. UNCHANGED <<sent, fate, bus, pending, fresh, pc, carrier, saved>>
    BY <1>18 DEF OtherFinish, busVars
  <2> QED
    BY <2>1, <1>n, <1>u, <1>h, <1>q, <1>f, <1>p DEF SavedInv
<1>19. CASE Stop
  <2>1. /\ pending' = <<>> /\ Becomes(InInbox, "stopped")
        /\ UNCHANGED <<sent, bus, fresh, pc, carrier, saved>>
    BY <1>19 DEF Stop, DiscardPending, busVars
  <2>2. SavedOnce'
    BY <2>1, <1>o
  <2> QED
    BY <2>1, <2>2, <1>n, <1>u, <1>h, <1>q, <1>f DEF SavedInv
<1>20. CASE UNCHANGED vars
  <2>1. UNCHANGED <<sent, fate, bus, pending, fresh, pc, carrier, saved>>
    BY <1>20 DEF vars
  <2> QED
    BY <2>1, <1>n, <1>u, <1>h, <1>q, <1>f, <1>p DEF SavedInv
<1>21. CASE SwitchRoute
  <2>1. UNCHANGED <<sent, fate, bus, pending, fresh, pc, carrier, saved>>
    BY <1>21 DEF SwitchRoute, busVars
  <2> QED
    BY <2>1, <1>n, <1>u, <1>h, <1>q, <1>f, <1>p DEF SavedInv
<1> QED
  BY <1>11, <1>12, <1>13, <1>14, <1>15, <1>16, <1>17, <1>18, <1>19, <1>20, <1>21 DEF Next

-----------------------------------------------------------------------------
(***************************************************************************)
(* The theorems.                                                           *)
(***************************************************************************)

\* Nothing was sent, no task runs, and nobody has the turn: IInv holds at the start.
LEMMA InitIInv ==
    ASSUME ChannelAssumption, Init
    PROVE  IInv
<1>1. /\ line = [s \in {Session} |-> <<>>] /\ holder = [s \in {Session} |-> NoTask]
  BY DEF Init, Gate!Init
<1>2. /\ sent = 0 /\ stops = 0 /\ bus = <<>> /\ hashes = <<>> /\ pending = <<>>
      /\ switches = 0 /\ route = "ai" /\ direct = {} /\ rerouted = {}
      /\ active = NoTask /\ cancelled = {}
      /\ pc = [h \in Handlers |-> "idle"]
      /\ carrier = [h \in Handlers |-> NoCarrier]
      /\ fresh = [h \in Handlers |-> {}]
      /\ left = [h \in Handlers |-> 0]
      /\ saved = [m \in Msgs |-> 0]
      /\ fate = [m \in Msgs |-> "none"]
  BY DEF Init
<1>3. TypeOK
  <2>1. NoCarrier \in Carriers
    BY DEF NoCarrier, Carriers
  <2>2. line \in [{Session} -> Seq(Handlers \union Others)]
    BY <1>1
  <2>3. bus \in Seq(Carriers) /\ pending \in Seq(Seq(Msgs)) /\ hashes \in Seq(Seq(Msgs))
    BY <1>2
  <2>4. /\ sent \in 0 .. NMsgs /\ stops \in 0 .. MaxStops
        /\ switches \in 0 .. MaxSwitches
    BY <1>2 DEF ChannelAssumption
  <2> QED
    BY <1>1, <1>2, <2>1, <2>2, <2>3, <2>4 DEF TypeOK, PCs, Fates, Routes
<1>4. TurnInv
  <2>1. Waiting = <<>> /\ Turn = NoTask /\ ToSet(Waiting) = {}
    BY <1>1 DEF Waiting, Turn, ToSet
  <2>2. LineInv
    BY <1>2, <2>1 DEF LineInv, ChannelAssumption
  <2>3. StopReachesTheTurn
    BY <1>2, <2>1 DEF StopReachesTheTurn, Turn, ChannelAssumption
  <2> QED
    BY <2>2, <2>3 DEF TurnInv
<1>5. BudgetInv
  BY <1>2 DEF BudgetInv, InjectionIsPaidFor
<1>6. PlaceInv
  <2>0. ToSet(hashes) = {}
    BY <1>2 DEF ToSet
  <2>1. ASSUME NEW m \in Msgs PROVE Placed(m)
    <3>1. ~ (m <= 0)
      BY DEF Msgs
    <3>2. Nowhere(m)
      BY <1>2 DEF Nowhere, OnBus, Queued, Read, Held, Hand
    <3> QED
      BY <1>2, <3>1, <3>2 DEF Placed, Pending
  <2> QED
    BY <1>2, <2>0, <2>1 DEF PlaceInv
<1>8. WayInv
  BY <1>2 DEF WayInv
<1>7. SavedInv
  BY <1>2 DEF SavedInv, NotYetSaved, BusMarks, HandMarks, Hand, InboxIsSaved,
              ContextIsSaved, SavedOnce
<1> QED
  BY <1>3, <1>4, <1>5, <1>6, <1>7, <1>8 DEF IInv

\* The inductive invariant of one chat: the line and the tokens, the budget of the
\* loop, the place of every message and the marks of what was saved.
THEOREM ChannelInvariant == Spec => []IInv
<1>1. Init => IInv
  BY ChannelAssumption, InitIInv
<1>2. IInv /\ [Next]_vars => IInv'
  BY ChannelAssumption, TypeStep, TurnStep, BudgetStep, PlaceStep, WayStep, SavedStep
     DEF IInv
<1> QED
  BY <1>1, <1>2, PTL DEF Spec

\* Type correctness of handle_message, the bus, the gate and the inbox of a chat.
THEOREM ChannelTypeCorrect == Spec => []TypeOK
<1>1. IInv => TypeOK
  BY DEF IInv
<1> QED
  BY <1>1, ChannelInvariant, PTL

\* Places counts what OnBus, Queued, Read and Held list.
LEMMA PlacesOf ==
    ASSUME NEW m
    PROVE  Places(m) = {<<"bus", i>> : i \in OnBus(m)} \union {<<"inbox", i>> : i \in Queued(m)}
                       \union {<<"context", h>> : h \in Read(m)}
                       \union {<<"handler", h>> : h \in Held(m)}
BY DEF Places, OnBus, Queued, Read, Held, Hand

\* A message that is somewhere is in one place by the count of Places, and one that is
\* nowhere in none.
LEMMA PlacesCount ==
    ASSUME NEW m
    PROVE  /\ Somewhere(m) => Cardinality(Places(m)) = 1
           /\ Nowhere(m) => Cardinality(Places(m)) = 0
<1>1. ASSUME Somewhere(m) PROVE \E p : Places(m) = {p}
  <2>1. CASE Single(OnBus(m)) /\ Queued(m) = {} /\ Read(m) = {} /\ Held(m) = {}
    <3>1. PICK i : OnBus(m) = {i}
      BY <2>1 DEF Single
    <3>2. Places(m) = {<<"bus", i>>}
      BY <2>1, <3>1, PlacesOf
    <3> QED
      BY <3>2
  <2>2. CASE OnBus(m) = {} /\ Single(Queued(m)) /\ Read(m) = {} /\ Held(m) = {}
    <3>1. PICK i : Queued(m) = {i}
      BY <2>2 DEF Single
    <3>2. Places(m) = {<<"inbox", i>>}
      BY <2>2, <3>1, PlacesOf
    <3> QED
      BY <3>2
  <2>3. CASE OnBus(m) = {} /\ Queued(m) = {} /\ Single(Read(m)) /\ Held(m) = {}
    <3>1. PICK h : Read(m) = {h}
      BY <2>3 DEF Single
    <3>2. Places(m) = {<<"context", h>>}
      BY <2>3, <3>1, PlacesOf
    <3> QED
      BY <3>2
  <2>4. CASE OnBus(m) = {} /\ Queued(m) = {} /\ Read(m) = {} /\ Single(Held(m))
    <3>1. PICK h : Held(m) = {h}
      BY <2>4 DEF Single
    <3>2. Places(m) = {<<"handler", h>>}
      BY <2>4, <3>1, PlacesOf
    <3> QED
      BY <3>2
  <2> QED
    BY <1>1, <2>1, <2>2, <2>3, <2>4 DEF Somewhere
<1>2. ASSUME Nowhere(m) PROVE Places(m) = {}
  BY <1>2, PlacesOf DEF Nowhere
<1>3. \A p : Cardinality({p}) = 1
  BY FS_Singleton
<1>4. Cardinality({}) = 0
  BY FS_EmptySet
<1> QED
  BY <1>1, <1>2, <1>3, <1>4

\* A message that was sent is in exactly one of the bus, the inbox, a handler and a
\* context until it has come to its end, whatever the tasks' order and however often
\* it is put back: none is lost track of, and none is handled twice.
THEOREM ChannelOnePlace == Spec => []OnePlace
<1>1. ASSUME IInv, NEW m \in 1 .. sent
      PROVE  Cardinality(Places(m)) = IF fate[m] = "none" THEN 1 ELSE 0
  <2>1. m \in Msgs /\ m <= sent
    BY <1>1, ChannelAssumption DEF ChannelAssumption, IInv, TypeOK, Msgs
  <2>2. Placed(m)
    BY <1>1, <2>1 DEF IInv, PlaceInv
  <2> QED
    BY <2>1, <2>2, PlacesCount DEF Placed, Pending
<1>2. IInv => OnePlace
  BY <1>1 DEF OnePlace
<1> QED
  BY <1>2, ChannelInvariant, PTL

\* _save_message writes a message of the user before the model sees it, and once; twice
\* only one that comes back from the inbox and takes the direct route.
THEOREM ChannelSavedOnce == Spec => []SavedOnce
<1>1. IInv => SavedOnce
  BY DEF IInv, SavedInv
<1> QED
  BY <1>1, ChannelInvariant, PTL

\* The loop never ends for want of iterations with an injected message unread.
THEOREM ChannelInjectionIsPaidFor == Spec => []InjectionIsPaidFor
<1>1. IInv => InjectionIsPaidFor
  BY DEF IInv, BudgetInv
<1> QED
  BY <1>1, ChannelInvariant, PTL

\* _active_tasks names the handler that has the turn, so that cancel_task reaches it
\* and no other.
THEOREM ChannelStopReachesTheTurn == Spec => []StopReachesTheTurn
<1>1. IInv => StopReachesTheTurn
  BY DEF IInv, TurnInv
<1> QED
  BY <1>1, ChannelInvariant, PTL

\* Only a message that is somewhere comes to its end: no handler tells the sender of,
\* and no turn reads, what came to its end before.
LEMMA FateStep ==
    ASSUME ChannelAssumption, TypeOK, PlaceInv, [Next]_vars, NEW m \in Msgs, fate[m] # "none"
    PROVE  fate'[m] = fate[m]
<1>1. Nowhere(m)
  BY DEF PlaceInv, Placed, Pending
<1>2. /\ \A h \in Handlers : m \notin fresh[h]
      /\ \A h \in Handlers : pc[h] \in Hand => m \notin Body(h)
      /\ m \notin InInbox
  BY <1>1, InboxIsQueued DEF Nowhere, Read, Held
<1>b. ASSUME NEW ms, NEW f, Becomes(ms, f), m \notin ms PROVE fate'[m] = fate[m]
  BY <1>b DEF Becomes
<1>3. CASE fate' = fate
  BY <1>3
<1>4. ASSUME NEW h \in Handlers, HandlerStep(h) PROVE fate'[m] = fate[m]
  <2>1. CASE RefuseDirect(h)
    BY <2>1, <1>2, <1>b DEF RefuseDirect, Hand
  <2>2. CASE CallModel(h)
    BY <2>2, <1>2, <1>b DEF CallModel
  <2>3. CASE RepeatHardStop(h)
    BY <2>3, <1>2, <1>b DEF RepeatHardStop
  <2>4. CASE Answer(h) \/ BudgetSpent(h) \/ Interrupted(h)
    BY <2>4, <1>2, <1>b DEF Answer, BudgetSpent, Interrupted, EndLoop
  <2>5. CASE Fail(h)
    <3>1. m \notin IF pc[h] \in {"loop", "called"} THEN fresh[h] ELSE Body(h)
      BY <2>5, <1>2 DEF Fail, Hand
    <3> QED
      BY <2>5, <3>1, <1>b DEF Fail
  <2>6. CASE LeaveTurn(h)
    <3>1. ToSet(FlattenSeq(pending)) = InInbox
      BY FlattenFacts DEF TypeOK, InInbox
    <3> QED
      BY <2>6, <3>1, <1>2, <1>b DEF LeaveTurn, Requeue
  <2>7. CASE \/ ChooseRoute(h) \/ QueueSaved(h) \/ StartSaving(h) \/ QueueAfterSave(h) \/ RequestTurn(h)
             \/ StartLoop(h) \/ ToolBatch(h) \/ LeaveDirect(h) \/ LeaveQueued(h)
    BY <2>7 DEF ChooseRoute, QueueSaved, StartSaving, QueueAfterSave, RequestTurn,
                StartLoop, ToolBatch, LeaveDirect, LeaveQueued
  <2> QED
    BY <1>4, <2>1, <2>2, <2>3, <2>4, <2>5, <2>6, <2>7 DEF HandlerStep
<1>5. CASE Stop
  BY <1>5, <1>2, <1>b DEF Stop
<1>6. CASE \/ Publish \/ Expire \/ SwitchRoute
           \/ \E n \in Msgs : Redeliver(n)
  BY <1>6 DEF Publish, Redeliver, Expire, SwitchRoute
<1>7. CASE \E h \in Handlers : Consume(h)
  BY <1>7 DEF Consume
<1>8. CASE GrantTurn \/ OtherFinish \/ \E o \in Others : OtherRequest(o)
  BY <1>8 DEF GrantTurn, OtherFinish, OtherRequest
<1>9. CASE UNCHANGED vars
  BY <1>9 DEF vars
<1> QED
  BY <1>4, <1>5, <1>6, <1>7, <1>8, <1>9 DEF Next

\* What became of a message is final: in particular one that /stop called off is not
\* given to the model by a later turn, however it was put back before.
THEOREM ChannelFateIsFinal == Spec => FateIsFinal
<1>1. IInv /\ [Next]_vars
      => [\A m \in Msgs : fate[m] # "none" => fate'[m] = fate[m]]_vars
  BY ChannelAssumption, FateStep DEF IInv
<1> QED
  BY <1>1, ChannelInvariant, PTL DEF Spec, FateIsFinal
=============================================================================
