------------------------- MODULE CancelTokensProofs -------------------------
(***************************************************************************)
(* Proofs about CancelTokens: a delayed cancellation cancels nothing while *)
(* a connection is there, and nothing but the token it was started for;    *)
(* and no token outlives the turn that made it.  For every number of       *)
(* connections, turns, tokens and delays.                                  *)
(*                                                                         *)
(* The count of a task leaves out the connections that were bound before   *)
(* the task was there.  It is exact all the same as long as a delayed      *)
(* cancellation of the task may fire: the delay is started when the last   *)
(* connection goes, and from then on every change of the one is a change   *)
(* of the other.                                                           *)
(***************************************************************************)
EXTENDS CancelTokens, FiniteSetTheorems, TLAPS

\* A delayed cancellation that may still fire.
Armed(d) == delayAt[d] \in {"new", "sleeping"}

\* Tokens that are in use have been made.
MadeBefore ==
    /\ registered # Nil => registered <= tokens
    /\ \A d \in Delays : Armed(d) => delayFor[d] \in Tokens /\ delayFor[d] <= tokens

\* A turn that is there has a token.
TurnsHaveTokens == \A t \in Turns : Live(t) => token[t] \in Tokens

\* The count is exact for a task that a delayed cancellation may hit.
ExactWhenArmed ==
    \A d \in Delays : Armed(d) /\ delayFor[d] = registered => count = Cardinality(bound)

\* The inductive invariant.
IInv == TypeOK /\ MadeBefore /\ TurnsHaveTokens /\ ExactWhenArmed /\ NoStaleToken

-----------------------------------------------------------------------------
(***************************************************************************)
(* What the helpers do.                                                    *)
(***************************************************************************)

\* A new connection arms nothing and lets nothing fire (cancel_delayed_cancellation).
LEMMA InterruptsDisarms ==
    ASSUME TypeOK, NEW c \in Conns, Interrupts(c)
    PROVE  /\ delays' \in 0 .. MaxDelays
           /\ delayAt' \in [Delays -> {"none", "new", "sleeping", "interrupted", "done"}]
           /\ pending' \in [Tokens -> Delays \union {Nil}]
           /\ delayFor' = delayFor
           /\ \A d \in Delays : Armed(d)' => Armed(d)
           /\ \A d \in Delays : ~FiresNow(d)
<1>1. CASE c \in bound \/ registered = Nil
  BY <1>1 DEF Interrupts, delayVars, TypeOK, Armed, FiresNow
<1>2. CASE c \notin bound /\ registered # Nil /\ pending[registered] = Nil
  BY <1>2 DEF Interrupts, delayVars, TypeOK, Armed, FiresNow
<1>3. CASE c \notin bound /\ registered # Nil /\ pending[registered] # Nil
  <2>1. registered \in Tokens /\ pending[registered] \in Delays
    BY <1>3 DEF TypeOK
  <2>2. /\ delayAt' = [delayAt EXCEPT ![pending[registered]] = Cancelling(pending[registered])]
        /\ pending' = [pending EXCEPT ![registered] = Nil]
        /\ delays' = delays /\ delayFor' = delayFor
    BY <1>3 DEF Interrupts
  <2> QED
    BY <2>1, <2>2 DEF TypeOK, Armed, FiresNow, Cancelling
<1> QED
  BY <1>1, <1>2, <1>3

\* The last connection that goes arms one cancellation, of the task that is there, and lets
\* none fire (schedule_delayed_cancellation).
LEMMA SchedulesArmsOne ==
    ASSUME TypeOK, registered \in Tokens, Schedules
    PROVE  /\ delays' \in 0 .. MaxDelays
           /\ delayAt' \in [Delays -> {"none", "new", "sleeping", "interrupted", "done"}]
           /\ delayFor' \in [Delays -> Tokens \union {Nil}]
           /\ pending' \in [Tokens -> Delays \union {Nil}]
           /\ \A d \in Delays : Armed(d)' =>
                \/ delayFor'[d] = registered
                \/ Armed(d) /\ delayFor'[d] = delayFor[d]
           /\ \A d \in Delays : ~FiresNow(d)
<1> DEFINE d == delays + 1
           earlier == pending[registered]
           stopped == IF earlier = Nil THEN delayAt
                      ELSE [delayAt EXCEPT ![earlier] = Cancelling(earlier)]
           At == {"none", "new", "sleeping", "interrupted", "done"}
<1>1. /\ d \in Delays /\ delays' = d /\ d \in 0 .. MaxDelays
      /\ delayAt' = [stopped EXCEPT ![d] = "new"]
      /\ delayFor' = [delayFor EXCEPT ![d] = registered]
      /\ pending' = [pending EXCEPT ![registered] = d]
  BY TokensAssumption DEF Schedules, TypeOK, Delays
<1>2. earlier \in Delays \union {Nil}
  BY DEF TypeOK
<1>3. stopped \in [Delays -> At]
  BY <1>2 DEF TypeOK, Cancelling
<1>4. \A e \in Delays : /\ stopped[e] \in {"new", "sleeping"} => stopped[e] = delayAt[e]
                        /\ delayAt[e] = "sleeping" => stopped[e] \in {"sleeping", "interrupted"}
  BY <1>2 DEF TypeOK, Cancelling
<1> HIDE DEF d, stopped
<1>5. /\ delayAt' \in [Delays -> At]
      /\ delayFor' \in [Delays -> Tokens \union {Nil}]
      /\ pending' \in [Tokens -> Delays \union {Nil}]
  BY <1>1, <1>3 DEF TypeOK
<1>6. \A e \in Delays : ~FiresNow(e)
  BY <1>1, <1>3, <1>4 DEF FiresNow
<1>7. ASSUME NEW e \in Delays, Armed(e)'
      PROVE  delayFor'[e] = registered \/ (Armed(e) /\ delayFor'[e] = delayFor[e])
  BY <1>1, <1>3, <1>4, <1>7 DEF Armed, TypeOK
<1> QED
  BY <1>1, <1>5, <1>6, <1>7

\* A turn that comes shares the token, or makes a new one (acquire_cancel_token).
LEMMA TakesTokenShares ==
    ASSUME TypeOK, NEW t \in Turns, NEW counted \in Nat, TakesToken(t, counted)
    PROVE  /\ registered' \in Tokens /\ count' \in Nat
           /\ tokens' \in 0 .. MaxTokens
           /\ token' = [token EXCEPT ![t] = registered']
           /\ cancelled' = cancelled
           /\ \/ /\ registered' = registered /\ tokens' = tokens /\ made' = made
                 /\ count' = counted /\ registered # Nil
              \/ /\ registered' = tokens + 1 /\ tokens' = tokens + 1
                 /\ made' = made \union {t}
  BY TokensAssumption DEF TakesToken, Reusable, TypeOK, Tokens

\* How many connections are bound when one is added or lost.
LEMMA BoundCount ==
    ASSUME TypeOK, NEW c \in Conns
    PROVE  /\ Cardinality(bound) \in Nat
           /\ Cardinality(bound) = 0 <=> bound = {}
           /\ c \notin bound => Cardinality(bound \union {c}) = Cardinality(bound) + 1
           /\ c \in bound => Cardinality(bound \ {c}) = Cardinality(bound) - 1
<1>1. IsFiniteSet(bound)
  BY TokensAssumption, FS_Subset DEF TypeOK
<1> QED
  BY <1>1, FS_CardinalityType, FS_EmptySet, FS_AddElement, FS_RemoveElement

\* What becomes of the count and the delays when a connection is lost.
LEMMA DisconnectDoes ==
    ASSUME TypeOK, NEW c \in Conns, Disconnect(c)
    PROVE  /\ known' \subseteq Conns /\ bound' = bound \ {c} /\ count' \in Nat
           /\ delays' \in 0 .. MaxDelays
           /\ delayAt' \in [Delays -> {"none", "new", "sleeping", "interrupted", "done"}]
           /\ delayFor' \in [Delays -> Tokens \union {Nil}]
           /\ pending' \in [Tokens -> Delays \union {Nil}]
           /\ UNCHANGED <<registered, tokens, cancelled, turnVars>>
           /\ \A d \in Delays : ~FiresNow(d)
           /\ c \in bound /\ registered # Nil => count' = Decremented
           /\ c \notin bound \/ registered = Nil => count' = count
           /\ \A d \in Delays : Armed(d)' =>
                \/ delayFor'[d] = registered /\ registered \in Tokens
                   /\ bound' = {} /\ count' = 0
                \/ Armed(d) /\ delayFor'[d] = delayFor[d]
<1>1. known' \subseteq Conns /\ bound' = bound \ {c}
          /\ UNCHANGED <<registered, tokens, cancelled, turnVars>>
  BY DEF Disconnect, TypeOK
<1>2. Decremented \in Nat
  BY DEF Decremented, TypeOK
<1>3. CASE c \in bound /\ registered # Nil /\ bound = {c} /\ Decremented = 0
  <2>1. registered \in Tokens /\ Schedules /\ count' = Decremented /\ bound' = {}
    BY <1>1, <1>3 DEF Disconnect, TypeOK
  <2> QED
    BY <1>1, <1>3, <2>1, SchedulesArmsOne
<1>4. CASE c \in bound /\ registered # Nil /\ ~(bound = {c} /\ Decremented = 0)
  <2>1. UNCHANGED delayVars /\ count' = Decremented
    BY <1>4 DEF Disconnect
  <2> QED
    BY <1>1, <1>2, <1>4, <2>1 DEF TypeOK, delayVars, Armed, FiresNow
<1>5. CASE c \notin bound \/ registered = Nil
  <2>1. UNCHANGED delayVars /\ count' = count
    BY <1>5 DEF Disconnect
  <2> QED
    BY <1>1, <1>5, <2>1 DEF TypeOK, delayVars, Armed, FiresNow
<1> QED
  BY <1>3, <1>4, <1>5

-----------------------------------------------------------------------------
(***************************************************************************)
(* Each part of the invariant is kept by every step.                       *)
(***************************************************************************)

\* The invariant holds at the start: no token, no delay.
LEMMA InitInv == Init => IInv
<1> SUFFICES ASSUME Init PROVE IInv
  OBVIOUS
<1>1. TypeOK
  BY TokensAssumption DEF Init, TypeOK, TurnAt
<1>2. MadeBefore /\ TurnsHaveTokens /\ ExactWhenArmed /\ NoStaleToken
  BY DEF Init, MadeBefore, TurnsHaveTokens, ExactWhenArmed, NoStaleToken, Armed, Live
<1> QED
  BY <1>1, <1>2 DEF IInv

\* Every variable keeps its type.
LEMMA TypeStep ==
    ASSUME TypeOK, MadeBefore, TurnsHaveTokens, Next
    PROVE  TypeOK'
<1> USE TokensAssumption DEF connVars, tokenVars, turnVars, delayVars
<1>1. ASSUME NEW d \in Delays, DelayBegins(d) PROVE TypeOK'
  BY <1>1 DEF DelayBegins, TypeOK
<1>2. ASSUME NEW d \in Delays, Fires(d) PROVE TypeOK'
  <2>1. cancelled' \subseteq Tokens
    BY <1>2 DEF Fires, TypeOK, MadeBefore, Armed
  <2> QED
    BY <1>2, <2>1 DEF Fires, DelayEnds, TypeOK
<1>3. ASSUME NEW d \in Delays, Interrupted(d) PROVE TypeOK'
  BY <1>3 DEF Interrupted, DelayEnds, TypeOK
<1>4. ASSUME NEW c \in Conns, Subscribe(c) PROVE TypeOK'
  <2>1. Interrupts(c) /\ count' \in Nat
    BY <1>4 DEF Subscribe, CountAfterBind, TypeOK
  <2> QED
    BY <1>4, <2>1, InterruptsDisarms DEF Subscribe, TypeOK
<1>5. ASSUME NEW c \in Conns, Disconnect(c), open' \subseteq Conns PROVE TypeOK'
  BY <1>5, DisconnectDoes DEF TypeOK
<1>6. ASSUME NEW t \in Turns, NEW c \in Conns, Message(t, c) PROVE TypeOK'
  <2>1. CountAfterBind(c) \in Nat
    BY DEF CountAfterBind, TypeOK
  <2>2. Interrupts(c) /\ TakesToken(t, CountAfterBind(c))
    BY <1>6 DEF Message
  <2>3. /\ at' \in [Turns -> TurnAt] /\ conn' \in [Turns -> Conns \union {NoConn}]
        /\ bound' \subseteq Conns /\ open' = open /\ known' = known
    BY <1>6 DEF Message, Move, TypeOK, TurnAt
  <2> QED
    BY <2>1, <2>2, <2>3, InterruptsDisarms, TakesTokenShares DEF TypeOK
<1>7. ASSUME NEW t \in Turns, Stream(t) PROVE TypeOK'
  <2>1. count \in Nat /\ TakesToken(t, count)
    BY <1>7 DEF Stream, TypeOK
  <2>2. at' \in [Turns -> TurnAt] /\ UNCHANGED <<connVars, conn, delayVars>>
    BY <1>7 DEF Stream, Move, TypeOK, TurnAt
  <2> QED
    BY <2>1, <2>2, TakesTokenShares DEF TypeOK
<1>8. ASSUME NEW t \in Turns, NEW c \in Conns, ToolCall(t, c) PROVE TypeOK'
  <2>1. count \in Nat /\ TakesToken(t, count)
    BY <1>8 DEF ToolCall, TypeOK
  <2>2. /\ at' \in [Turns -> TurnAt] /\ conn' \in [Turns -> Conns \union {NoConn}]
        /\ UNCHANGED <<connVars, delayVars>>
    BY <1>8 DEF ToolCall, Move, TypeOK, TurnAt
  <2> QED
    BY <2>1, <2>2, TakesTokenShares DEF TypeOK
<1>9. ASSUME NEW t \in Turns, Refused(t) \/ Prepared(t) \/ Runs(t) \/ Ends(t) PROVE TypeOK'
  BY <1>9 DEF Refused, Prepared, Runs, Ends, CleansUp, Move, TypeOK, TurnAt
<1>10. ASSUME NEW t \in Turns, StreamAborts(t) PROVE TypeOK'
  <2>1. cancelled' \subseteq Tokens
    BY <1>10 DEF StreamAborts, TypeOK, TurnsHaveTokens, Live
  <2> QED
    BY <1>10, <2>1 DEF StreamAborts, CleansUp, Move, TypeOK, TurnAt
<1>11. CASE CancelSession
  BY <1>11 DEF CancelSession, Reusable, TypeOK
<1>12. ASSUME NEW c \in Conns, SendFails(c) \/ Closes(c) PROVE TypeOK'
  BY <1>5, <1>12 DEF SendFails, Closes, TypeOK
<1> QED
  BY <1>1, <1>2, <1>3, <1>4, <1>6, <1>7, <1>8, <1>9, <1>10, <1>11, <1>12 DEF Next, DelayMoves

\* Whatever a turn does that is there or comes, it touches neither the connections nor the
\* delays, and the session's token is its own at most when it removes it.
LEMMA TurnEndDoes ==
    ASSUME TypeOK, NEW t \in Turns, Refused(t) \/ Ends(t) \/ StreamAborts(t)
    PROVE  /\ UNCHANGED <<connVars, tokens, conn, token, made, delayVars>>
           /\ at' = [at EXCEPT ![t] = "over"]
           /\ \/ UNCHANGED <<registered, count>> /\ (t \in made => registered # token[t])
              \/ registered' = Nil
  BY DEF Refused, Ends, StreamAborts, CleansUp, Move

\* Every token in use has been made, also when turns, delays and connections end.
LEMMA MadeStep ==
    ASSUME IInv, Next
    PROVE  MadeBefore'
<1> USE TokensAssumption DEF connVars, tokenVars, turnVars, delayVars
<1>0. TypeOK /\ MadeBefore
  BY DEF IInv
<1>1. ASSUME NEW d \in Delays, DelayMoves(d) PROVE MadeBefore'
  <2>1. /\ registered' = registered /\ tokens' = tokens /\ delayFor' = delayFor
        /\ \A e \in Delays : Armed(e)' => Armed(e)
    BY <1>0, <1>1 DEF DelayMoves, DelayBegins, Fires, Interrupted, DelayEnds, Armed, TypeOK
  <2> QED
    BY <1>0, <2>1 DEF MadeBefore
<1>2. ASSUME NEW c \in Conns, Subscribe(c) PROVE MadeBefore'
  BY <1>0, <1>2, InterruptsDisarms DEF Subscribe, MadeBefore
<1>3. ASSUME NEW c \in Conns, Disconnect(c) PROVE MadeBefore'
  <2>1. UNCHANGED <<registered, tokens>>
    BY <1>0, <1>3, DisconnectDoes
  <2>2. registered \in Tokens => registered <= tokens
    BY <1>0 DEF MadeBefore, Tokens
  <2>3. \A d \in Delays : Armed(d)' => delayFor'[d] \in Tokens /\ delayFor'[d] <= tokens
    BY <1>0, <1>3, <2>2, DisconnectDoes DEF MadeBefore
  <2> QED
    BY <1>0, <2>1, <2>3 DEF MadeBefore
<1>4. ASSUME NEW t \in Turns, NEW counted \in Nat, TakesToken(t, counted),
             delayFor' = delayFor, \A d \in Delays : Armed(d)' => Armed(d)
      PROVE  MadeBefore'
  <2>1. \/ registered' = registered /\ tokens' = tokens
        \/ registered' = tokens + 1 /\ tokens' = tokens + 1
    BY <1>0, <1>4, TakesTokenShares
  <2>2. tokens \in Nat /\ \A d \in Delays : delayFor[d] \in Tokens => delayFor[d] \in Nat
    BY <1>0 DEF TypeOK, Tokens
  <2> QED
    BY <1>0, <1>4, <2>1, <2>2 DEF MadeBefore
<1>5. ASSUME NEW t \in Turns, NEW c \in Conns, Message(t, c) PROVE MadeBefore'
  <2>1. CountAfterBind(c) \in Nat
    BY <1>0 DEF CountAfterBind, TypeOK
  <2> QED
    BY <1>0, <1>4, <1>5, <2>1, InterruptsDisarms DEF Message
<1>6. ASSUME NEW t \in Turns, Stream(t) \/ \E c \in Conns : ToolCall(t, c) PROVE MadeBefore'
  <2>1. count \in Nat /\ TakesToken(t, count) /\ UNCHANGED delayVars
    BY <1>0, <1>6 DEF Stream, ToolCall, TypeOK
  <2> QED
    BY <1>0, <1>4, <2>1 DEF Armed
<1>7. ASSUME NEW t \in Turns, Refused(t) \/ Ends(t) \/ StreamAborts(t) PROVE MadeBefore'
  BY <1>0, <1>7, TurnEndDoes DEF MadeBefore, Armed
<1>8. ASSUME NEW t \in Turns, Prepared(t) \/ Runs(t) PROVE MadeBefore'
  BY <1>0, <1>8 DEF Prepared, Runs, MadeBefore, Armed
<1>9. CASE CancelSession
  BY <1>0, <1>9 DEF CancelSession, MadeBefore, Armed
<1>10. ASSUME NEW c \in Conns, SendFails(c) \/ Closes(c) PROVE MadeBefore'
  BY <1>3, <1>10 DEF SendFails, Closes
<1> QED
  BY <1>1, <1>2, <1>5, <1>6, <1>7, <1>8, <1>9, <1>10 DEF Next

\* A turn has a token as long as it is there.
LEMMA TurnsStep ==
    ASSUME IInv, Next
    PROVE  TurnsHaveTokens'
<1> USE DEF connVars, tokenVars, turnVars, delayVars, TurnsHaveTokens, Live
<1>0. TypeOK /\ TurnsHaveTokens
  BY DEF IInv
<1>1. ASSUME UNCHANGED <<at, token>> PROVE TurnsHaveTokens'
  BY <1>0, <1>1
<1>2. ASSUME NEW t \in Turns, NEW counted \in Nat, NEW l, TakesToken(t, counted), Move(t, l)
      PROVE  TurnsHaveTokens'
  <2>1. token' = [token EXCEPT ![t] = registered'] /\ registered' \in Tokens
    BY <1>0, <1>2, TakesTokenShares
  <2> QED
    BY <1>0, <1>2, <2>1 DEF Move, TypeOK
<1>3. ASSUME NEW t \in Turns, NEW c \in Conns, Message(t, c) PROVE TurnsHaveTokens'
  <2>1. CountAfterBind(c) \in Nat
    BY <1>0 DEF CountAfterBind, TypeOK
  <2> QED
    BY <1>2, <1>3, <2>1 DEF Message
<1>4. ASSUME NEW t \in Turns, Stream(t) \/ \E c \in Conns : ToolCall(t, c)
      PROVE  TurnsHaveTokens'
  <2>1. count \in Nat
    BY <1>0 DEF TypeOK
  <2> QED
    BY <1>2, <1>4, <2>1 DEF Stream, ToolCall
<1>5. ASSUME NEW t \in Turns, Refused(t) \/ Ends(t) \/ StreamAborts(t) PROVE TurnsHaveTokens'
  BY <1>0, <1>5, TurnEndDoes DEF TypeOK
<1>6. ASSUME NEW t \in Turns, Prepared(t) \/ Runs(t) PROVE TurnsHaveTokens'
  BY <1>0, <1>6 DEF Prepared, Runs, Move, TypeOK
<1>7. ASSUME NEW c \in Conns, SendFails(c) \/ Closes(c) PROVE TurnsHaveTokens'
  BY <1>0, <1>7, <1>1, DisconnectDoes DEF SendFails, Closes
<1>8. ASSUME NEW c \in Conns, Subscribe(c) PROVE TurnsHaveTokens'
  BY <1>1, <1>8 DEF Subscribe
<1>9. ASSUME NEW d \in Delays, DelayMoves(d) PROVE TurnsHaveTokens'
  BY <1>1, <1>9 DEF DelayMoves, DelayBegins, Fires, Interrupted
<1>10. CASE CancelSession
  BY <1>1, <1>10 DEF CancelSession
<1> QED
  BY <1>3, <1>4, <1>5, <1>6, <1>7, <1>8, <1>9, <1>10 DEF Next

\* The count stays exact for a task that may be hit: whoever is bound or lost changes both,
\* and a delay is started when both are zero.
LEMMA ExactStep ==
    ASSUME IInv, Next
    PROVE  ExactWhenArmed'
<1> USE TokensAssumption DEF connVars, tokenVars, turnVars, delayVars
<1>0. TypeOK /\ MadeBefore /\ ExactWhenArmed
  BY DEF IInv
<1>1. ASSUME UNCHANGED <<bound, count, registered, delayFor>>,
             \A d \in Delays : Armed(d)' => Armed(d)
      PROVE  ExactWhenArmed'
  BY <1>0, <1>1 DEF ExactWhenArmed
<1>2. ASSUME NEW d \in Delays, DelayMoves(d) PROVE ExactWhenArmed'
  <2>1. \A e \in Delays : Armed(e)' => Armed(e)
    BY <1>0, <1>2 DEF DelayMoves, DelayBegins, Fires, Interrupted, DelayEnds, Armed, TypeOK
  <2> QED
    BY <1>1, <1>2, <2>1 DEF DelayMoves, DelayBegins, Fires, Interrupted, DelayEnds
<1>3. ASSUME NEW c \in Conns, Interrupts(c), bound' = bound \union {c},
             registered' = registered, registered # Nil => count' = CountAfterBind(c)
      PROVE  ExactWhenArmed'
  <2>1. delayFor' = delayFor /\ \A d \in Delays : Armed(d)' => Armed(d)
    BY <1>0, <1>3, InterruptsDisarms
  <2> SUFFICES ASSUME NEW d \in Delays, Armed(d), delayFor[d] = registered
               PROVE  count' = Cardinality(bound')
    BY <1>3, <2>1 DEF ExactWhenArmed
  <2>2. registered # Nil /\ count = Cardinality(bound)
    BY <1>0 DEF MadeBefore, ExactWhenArmed, Tokens
  <2>3. CASE c \in bound
    <3>1. bound' = bound
      BY <1>3, <2>3
    <3> QED
      BY <1>3, <2>2, <2>3, <3>1 DEF CountAfterBind
  <2>4. CASE c \notin bound
    <3>1. Cardinality(bound \union {c}) = Cardinality(bound) + 1
      BY <1>0, <2>4, BoundCount
    <3> QED
      BY <1>3, <2>2, <2>4, <3>1 DEF CountAfterBind
  <2> QED
    BY <2>3, <2>4
<1>4. ASSUME NEW c \in Conns, Subscribe(c) PROVE ExactWhenArmed'
  BY <1>3, <1>4 DEF Subscribe
<1>5. ASSUME NEW c \in Conns, Disconnect(c) PROVE ExactWhenArmed'
  <2> SUFFICES ASSUME NEW d \in Delays, Armed(d)', delayFor'[d] = registered'
               PROVE  count' = Cardinality(bound')
    BY DEF ExactWhenArmed
  <2>1. registered' = registered /\ bound' = bound \ {c}
    BY <1>0, <1>5, DisconnectDoes
  <2>2. CASE bound' = {} /\ count' = 0
    <3>1. Cardinality(bound') = 0
      BY <2>2, FS_EmptySet
    <3> QED
      BY <2>2, <3>1
  <2>3. CASE Armed(d) /\ delayFor'[d] = delayFor[d]
    <3>1. count = Cardinality(bound) /\ registered # Nil
      BY <1>0, <2>1, <2>3 DEF ExactWhenArmed, MadeBefore, Tokens
    <3>2. CASE c \in bound
      <4>1. count' = Decremented
        BY <1>0, <1>5, <3>1, <3>2, DisconnectDoes
      <4>2. Cardinality(bound \ {c}) = Cardinality(bound) - 1 /\ Cardinality(bound) # 0
        BY <1>0, <3>2, BoundCount
      <4> QED
        BY <2>1, <3>1, <4>1, <4>2 DEF Decremented
    <3>3. CASE c \notin bound
      <4>1. count' = count /\ bound' = bound
        BY <1>0, <1>5, <2>1, <3>3, DisconnectDoes
      <4> QED
        BY <3>1, <4>1
    <3> QED
      BY <3>2, <3>3
  <2> QED
    BY <1>0, <1>5, <2>2, <2>3, DisconnectDoes
<1>6. ASSUME NEW t \in Turns, NEW counted \in Nat, TakesToken(t, counted),
             registered' = tokens + 1, delayFor' = delayFor,
             \A d \in Delays : Armed(d)' => Armed(d)
      PROVE  ExactWhenArmed'
  <2>1. \A d \in Delays : Armed(d) => delayFor[d] # tokens + 1
    BY <1>0 DEF MadeBefore, TypeOK, Tokens
  <2> QED
    BY <1>6, <2>1 DEF ExactWhenArmed
<1>7. ASSUME NEW t \in Turns, NEW c \in Conns, Message(t, c) PROVE ExactWhenArmed'
  <2>1. CountAfterBind(c) \in Nat
    BY <1>0 DEF CountAfterBind, TypeOK
  <2>2. /\ TakesToken(t, CountAfterBind(c)) /\ Interrupts(c) /\ bound' = bound \union {c}
    BY <1>7 DEF Message
  <2>3. delayFor' = delayFor /\ \A d \in Delays : Armed(d)' => Armed(d)
    BY <1>0, <2>2, InterruptsDisarms
  <2>4. \/ registered' = registered /\ count' = CountAfterBind(c)
        \/ registered' = tokens + 1
    BY <1>0, <2>1, <2>2, TakesTokenShares
  <2> QED
    BY <1>3, <1>6, <2>1, <2>2, <2>3, <2>4
<1>8. ASSUME NEW t \in Turns, Stream(t) \/ \E c \in Conns : ToolCall(t, c)
      PROVE  ExactWhenArmed'
  <2>1. count \in Nat /\ TakesToken(t, count) /\ UNCHANGED <<connVars, delayVars>>
    BY <1>0, <1>8 DEF Stream, ToolCall, TypeOK
  <2>2. \/ registered' = registered /\ count' = count
        \/ registered' = tokens + 1
    BY <1>0, <2>1, TakesTokenShares
  <2>3. delayFor' = delayFor /\ \A d \in Delays : Armed(d)' => Armed(d)
    BY <2>1 DEF Armed
  <2> QED
    BY <1>1, <1>6, <2>1, <2>2, <2>3
<1>9. ASSUME NEW t \in Turns, Refused(t) \/ Ends(t) \/ StreamAborts(t) PROVE ExactWhenArmed'
  <2>1. UNCHANGED <<connVars, delayVars>> /\ \A d \in Delays : Armed(d)' => Armed(d)
    BY <1>0, <1>9, TurnEndDoes DEF Armed
  <2>2. CASE UNCHANGED <<registered, count>>
    BY <1>1, <2>1, <2>2
  <2>3. CASE registered' = Nil
    <3>1. \A d \in Delays : Armed(d) => delayFor[d] # Nil
      BY <1>0 DEF MadeBefore, Tokens
    <3> QED
      BY <2>1, <2>3, <3>1 DEF ExactWhenArmed
  <2> QED
    BY <1>0, <1>9, <2>2, <2>3, TurnEndDoes
<1>10. ASSUME NEW t \in Turns, Prepared(t) \/ Runs(t) PROVE ExactWhenArmed'
  BY <1>1, <1>10 DEF Prepared, Runs, Armed
<1>11. CASE CancelSession
  BY <1>1, <1>11 DEF CancelSession, Armed
<1>12. ASSUME NEW c \in Conns, SendFails(c) \/ Closes(c) PROVE ExactWhenArmed'
  BY <1>5, <1>12 DEF SendFails, Closes
<1> QED
  BY <1>2, <1>4, <1>7, <1>8, <1>9, <1>10, <1>11, <1>12 DEF Next

\* A token is removed by the turn that made it at the latest.
LEMMA NoStaleStep ==
    ASSUME IInv, Next
    PROVE  NoStaleToken'
<1> USE TokensAssumption DEF connVars, tokenVars, turnVars, delayVars
<1>0. TypeOK /\ NoStaleToken
  BY DEF IInv
<1>1. ASSUME UNCHANGED <<registered, made, token>>, \A t \in Turns : Live(t) => Live(t)'
      PROVE  NoStaleToken'
  BY <1>0, <1>1 DEF NoStaleToken, TypeOK
<1>2. ASSUME NEW d \in Delays, DelayMoves(d) PROVE NoStaleToken'
  BY <1>1, <1>2 DEF DelayMoves, DelayBegins, Fires, Interrupted, Live
<1>3. ASSUME NEW c \in Conns, Subscribe(c) PROVE NoStaleToken'
  BY <1>1, <1>3 DEF Subscribe, Live
<1>4. ASSUME NEW c \in Conns, SendFails(c) \/ Closes(c) PROVE NoStaleToken'
  <2>1. Disconnect(c)
    BY <1>4 DEF SendFails, Closes
  <2> QED
    BY <1>0, <1>1, <2>1, DisconnectDoes DEF Live
<1>5. ASSUME NEW t \in Turns, NEW counted \in Nat, NEW l \in TurnAt \ {"idle", "over"},
             TakesToken(t, counted), at[t] = "idle", Move(t, l)
      PROVE  NoStaleToken'
  <2>1. /\ token' = [token EXCEPT ![t] = registered']
        /\ \/ registered' = registered /\ made' = made /\ registered # Nil
           \/ made' = made \union {t}
    BY <1>0, <1>5, TakesTokenShares
  <2>2. CASE registered' = registered /\ made' = made /\ registered # Nil
    <3>1. PICK u \in made : Live(u) /\ token[u] = registered
      BY <1>0, <2>2 DEF NoStaleToken
    <3>2. u # t /\ u \in Turns
      BY <1>0, <1>5, <3>1 DEF Live, TypeOK
    <3>3. Live(u)' /\ token'[u] = registered'
      BY <1>0, <1>5, <2>1, <2>2, <3>1, <3>2 DEF Move, Live, TypeOK
    <3> QED
      BY <2>2, <3>1, <3>3 DEF NoStaleToken
  <2>3. CASE made' = made \union {t}
    <3>1. Live(t)' /\ token'[t] = registered'
      BY <1>0, <1>5, <2>1 DEF Move, Live, TypeOK
    <3> QED
      BY <2>3, <3>1 DEF NoStaleToken
  <2> QED
    BY <2>1, <2>2, <2>3
<1>6. ASSUME NEW t \in Turns, NEW c \in Conns, Message(t, c) PROVE NoStaleToken'
  <2>1. CountAfterBind(c) \in Nat
    BY <1>0 DEF CountAfterBind, TypeOK
  <2> QED
    BY <1>5, <1>6, <2>1 DEF Message, TurnAt
<1>7. ASSUME NEW t \in Turns, Stream(t) \/ \E c \in Conns : ToolCall(t, c) PROVE NoStaleToken'
  <2>1. count \in Nat
    BY <1>0 DEF TypeOK
  <2> QED
    BY <1>5, <1>7, <2>1 DEF Stream, ToolCall, TurnAt
<1>8. ASSUME NEW t \in Turns, Refused(t) \/ Ends(t) \/ StreamAborts(t) PROVE NoStaleToken'
  <2>1. CASE registered' = Nil
    BY <2>1 DEF NoStaleToken
  <2>2. CASE registered' = registered /\ registered # Nil /\ (t \in made => registered # token[t])
    <3>1. PICK u \in made : Live(u) /\ token[u] = registered
      BY <1>0, <2>2 DEF NoStaleToken
    <3>2. u # t /\ u \in Turns
      BY <1>0, <2>2, <3>1 DEF TypeOK
    <3>3. Live(u)' /\ token'[u] = registered' /\ made' = made
      BY <1>0, <1>8, <2>2, <3>1, <3>2, TurnEndDoes DEF Live, TypeOK
    <3> QED
      BY <3>1, <3>3 DEF NoStaleToken
  <2> QED
    BY <1>0, <1>8, <2>1, <2>2, TurnEndDoes
<1>9. ASSUME NEW t \in Turns, Prepared(t) \/ Runs(t) PROVE NoStaleToken'
  BY <1>0, <1>1, <1>9 DEF Prepared, Runs, Move, Live, TypeOK
<1>10. CASE CancelSession
  BY <1>1, <1>10 DEF CancelSession, Live
<1> QED
  BY <1>2, <1>3, <1>4, <1>6, <1>7, <1>8, <1>9, <1>10 DEF Next

\* The invariant is inductive.
LEMMA InvStep == IInv /\ [Next]_vars => IInv'
<1> SUFFICES ASSUME IInv, [Next]_vars PROVE IInv'
  OBVIOUS
<1>1. CASE Next
  <2>1. TypeOK'
    BY <1>1, TypeStep DEF IInv
  <2> QED
    BY <1>1, <2>1, MadeStep, TurnsStep, ExactStep, NoStaleStep DEF IInv
<1>2. CASE UNCHANGED vars
  BY <1>2 DEF vars, connVars, tokenVars, turnVars, delayVars, IInv, TypeOK, MadeBefore,
              TurnsHaveTokens, ExactWhenArmed, NoStaleToken, Armed, Live
<1> QED
  BY <1>1, <1>2

\* Only a delayed cancellation that fires goes from sleeping to done.
LEMMA OnlyFiresFire ==
    ASSUME TypeOK, [Next]_vars, NEW d \in Delays, FiresNow(d)
    PROVE  Fires(d)
<1> USE DEF connVars, tokenVars, turnVars, delayVars, FiresNow
<1>1. ASSUME NEW e \in Delays, DelayMoves(e) PROVE Fires(d)
  <2>1. e = d
    BY <1>1 DEF DelayMoves, DelayBegins, Fires, Interrupted, DelayEnds, TypeOK
  <2> QED
    BY <1>1, <2>1 DEF DelayMoves, DelayBegins, Fires, Interrupted, DelayEnds, TypeOK
<1>2. ASSUME NEW c \in Conns, Subscribe(c) \/ \E t \in Turns : Message(t, c) PROVE FALSE
  BY <1>2, InterruptsDisarms DEF Subscribe, Message
<1>3. ASSUME NEW c \in Conns, SendFails(c) \/ Closes(c) PROVE FALSE
  BY <1>3, DisconnectDoes DEF SendFails, Closes
<1>4. ASSUME UNCHANGED delayVars PROVE FALSE
  BY <1>4
<1>5. ASSUME NEW t \in Turns, \/ Stream(t) \/ Refused(t) \/ Prepared(t) \/ Runs(t) \/ Ends(t)
                              \/ StreamAborts(t) \/ \E c \in Conns : ToolCall(t, c)
      PROVE  FALSE
  BY <1>4, <1>5 DEF Stream, Refused, Prepared, Runs, Ends, StreamAborts, ToolCall
<1>6. CASE CancelSession \/ UNCHANGED vars
  BY <1>4, <1>6 DEF CancelSession, vars
<1> QED
  BY <1>1, <1>2, <1>3, <1>5, <1>6 DEF Next

-----------------------------------------------------------------------------
(***************************************************************************)
(* Theorems.                                                               *)
(***************************************************************************)

\* The inductive invariant holds in every run.
THEOREM TokensInvariant == Spec => []IInv
  BY InitInv, InvStep, PTL DEF Spec

\* Every variable keeps its type.
THEOREM TokensTypeCorrect == Spec => []TypeOK
<1>1. IInv => TypeOK
  BY DEF IInv
<1> QED
  BY <1>1, TokensInvariant, PTL

\* A registered token has the turn that made it (cleanup_cancel_token in each of the ways a
\* turn ends): no turn takes over the token of one that is over.
THEOREM TokensAreNotStale == Spec => []NoStaleToken
<1>1. IInv => NoStaleToken
  BY DEF IInv
<1> QED
  BY <1>1, TokensInvariant, PTL

\* No delayed cancellation calls a session off while one of its connections is there, also one
\* that a new connection could not find (_pending_cancellations after its finally clause).
THEOREM TokensNoCancelWhileConnected == Spec => NoCancelWhileConnected
<1>1. IInv /\ [Next]_vars
        => [\A d \in Delays : FiresNow(d) /\ bound # {} => cancelled' = cancelled]_vars
  <2> SUFFICES ASSUME IInv, [Next]_vars, NEW d \in Delays, FiresNow(d), bound # {}
               PROVE  cancelled' = cancelled
    OBVIOUS
  <2>1. TypeOK /\ ExactWhenArmed
    BY DEF IInv
  <2>2. Fires(d) /\ Armed(d)
    BY <2>1, OnlyFiresFire DEF FiresNow, Armed
  <2>3. Conns = {} => bound = {}
    BY <2>1 DEF TypeOK
  <2>4. PICK c \in Conns : TRUE
    BY <2>3
  <2>5. Cardinality(bound) # 0
    BY <2>1, <2>4, BoundCount
  <2>6. ~(registered = delayFor[d] /\ count = 0)
    BY <2>1, <2>2, <2>5 DEF ExactWhenArmed
  <2> QED
    BY <2>2, <2>6 DEF Fires
<1> QED
  BY <1>1, TokensInvariant, PTL DEF Spec, NoCancelWhileConnected

\* A delayed cancellation that is late cancels the token it was started for, or none.
THEOREM TokensStaleDelaysAreHarmless == Spec => StaleDelaysAreHarmless
<1>1. IInv /\ [Next]_vars
        => [\A d \in Delays : FiresNow(d) => cancelled' \ cancelled \subseteq {delayFor[d]}]_vars
  <2> SUFFICES ASSUME IInv, [Next]_vars, NEW d \in Delays, FiresNow(d)
               PROVE  cancelled' \ cancelled \subseteq {delayFor[d]}
    OBVIOUS
  <2>1. Fires(d)
    BY OnlyFiresFire DEF IInv
  <2> QED
    BY <2>1 DEF Fires
<1> QED
  BY <1>1, TokensInvariant, PTL DEF Spec, StaleDelaysAreHarmless
=============================================================================
