--------------------------- MODULE AgentLoopProofs ---------------------------
(***************************************************************************)
(* Proofs about AgentLoop: what the model is sent is well formed, the turn *)
(* makes no more requests and calls than it was given, repeated calls are  *)
(* cut off, and no tool starts after the user has stopped the turn.  For   *)
(* every budget and limit, any tools and ids, any number of calls in a     *)
(* response, of interjections and of other turns.                          *)
(***************************************************************************)
EXTENDS AgentLoop, TLAPS

\* The two parts of type correctness: the sequences, and the rest.
SequencesOK ==
    toolCalls \in Seq(Calls) /\ asked \in Seq(Ids) /\ tail \in Seq(Ids \union {User})

ScalarsOK ==
    /\ pc \in PCs
    /\ iteration \in Nat /\ iterationBudget \in Nat /\ totalToolCalls \in Nat
    /\ text \in BOOLEAN /\ nextCall \in Nat \ {0} /\ attempt \in Nat
    /\ lastSignature \in Sigs \union {NoSig}
    /\ repeatCount \in Nat /\ consecutiveSkips \in Nat
    /\ repeatStop \in BOOLEAN /\ limitReached \in BOOLEAN /\ directResult \in BOOLEAN
    /\ rotations \in Nat
    /\ cancelled \in BOOLEAN /\ inbox \in Nat /\ interjected \in Nat /\ others \in Nat
    /\ ending \in Endings /\ warning \in Warnings
    /\ requests \in Nat /\ rotated \in Nat /\ absorbed \in Nat /\ unseen \in BOOLEAN
    /\ spin \in [executed : Nat, skipped : Nat]

\* A batch is being executed.
Busy == {"batch", "announced", "body", "pausing"}

\* The budget is the given one and an iteration for each interjection that was taken;
\* requests are iterations, those given back for a rotated key included.
Budget ==
    /\ iterationBudget = MaxIterations + absorbed
    /\ iteration <= iterationBudget
    /\ requests <= iteration + rotated
    /\ pc = "stream" => iteration >= 1

\* The shared count of rotations starts anew only when another turn starts.
Rotations ==
    /\ rotations <= MaxRotations
    /\ rotated <= MaxRotations * others + rotations

\* A call is counted when it starts, and a skipped one given back.
CallsCounted ==
    /\ totalToolCalls <= MaxIterations
    /\ pc = "announced" => totalToolCalls >= 1

\* The counters of the fuse count the latest calls of one fingerprint.
Fuse ==
    /\ repeatCount = spin.executed
    /\ consecutiveSkips = spin.skipped
    /\ spin.executed <= MaxIdentical
    /\ spin.skipped <= MaxSkips
    /\ spin.skipped > 0 => spin.executed = MaxIdentical
    /\ pc \in {"body", "pausing"} => spin.executed < MaxIdentical /\ spin.skipped = 0

\* The flags that end a batch.
Stops ==
    /\ spin.skipped = MaxSkips => repeatStop
    /\ repeatStop => pc \in {"batch", "done"} /\ ~directResult
    /\ directResult => pc \in {"batch", "done"}
    /\ pc # "done" => ending = "none"
    /\ pc = "done" /\ repeatStop => ending = "cut"

\* The calls of a response have ids of their own, or none.
IdsDiffer ==
    \A i, j \in DOMAIN toolCalls :
        toolCalls[i].id = toolCalls[j].id => i = j \/ toolCalls[i].id = NoId

\* While a batch is executed the results are those of the calls up to the current one.
PairedSoFar ==
    pc \in Busy =>
        /\ Len(asked) = Len(toolCalls)
        /\ \A i \in DOMAIN asked : asked[i] = toolCalls[i].id
        /\ nextCall <= Len(asked) + 1
        /\ pc # "batch" => nextCall <= Len(asked)
        /\ ~directResult =>
             Len(tail) = nextCall - 1 /\ \A i \in DOMAIN tail : tail[i] = asked[i]

\* Between the batches every call has its result, and user messages follow.
Paired ==
    pc \in {"head", "stream", "drained"} =>
        /\ Len(asked) <= Len(tail)
        /\ \A i \in DOMAIN tail : tail[i] = IF i <= Len(asked) THEN asked[i] ELSE User
        /\ \A i, j \in DOMAIN asked : asked[i] = asked[j] => i = j \/ asked[i] = NoId

\* The inductive invariant.
IInv ==
    /\ TypeOK
    /\ Budget /\ Rotations /\ CallsCounted
    /\ Fuse /\ Stops
    /\ IdsDiffer /\ PairedSoFar /\ Paired

-----------------------------------------------------------------------------
(***************************************************************************)
(* Every step keeps the invariant.                                         *)
(***************************************************************************)

\* Requests and calls stay within what they are paid for.
LEMMA BudgetStep ==
    ASSUME TypeOK, Budget, CallsCounted, [Next]_vars
    PROVE  (Budget /\ CallsCounted)'
<1> USE LoopAssumption
    DEF counters, control, response, batch, fuse, flags, context, env, outcome, tally, history,
        TypeOK, Budget, CallsCounted
<1>1. CASE BudgetSpent
  BY <1>1 DEF BudgetSpent, Finish
<1>2. CASE NextIteration
  BY <1>2 DEF NextIteration, Abort
<1>3. CASE StreamText
  BY <1>3 DEF StreamText
<1>4. CASE StreamToolCall
  BY <1>4 DEF StreamToolCall, Collect
<1>5. CASE RotateKey
  BY <1>5 DEF RotateKey, KeysLeft
<1>6. CASE StreamError
  BY <1>6 DEF StreamError, Abort
<1>7. CASE Answer
  BY <1>7 DEF Answer, Finish
<1>8. CASE RefuseBatch
  BY <1>8 DEF RefuseBatch, Finish, Slots
<1>9. CASE BeginBatch
  BY <1>9 DEF BeginBatch, Slots
<1>10. CASE CancelledBetweenCalls
  BY <1>10 DEF CancelledBetweenCalls, Abort, BatchIsOver
<1>11. CASE StartCall
  BY <1>11 DEF StartCall, BatchIsOver
<1>12. CASE EndBatch
  <2>1. UNCHANGED <<iteration, requests, rotated, totalToolCalls>> /\ pc' \in {"head", "done"}
    BY <1>12 DEF EndBatch, Finish
  <2>2. CASE directResult \/ inbox = 0
    <3>1. iterationBudget' = iterationBudget /\ absorbed' = absorbed
      <4>1. CASE directResult
        BY <1>12, <4>1 DEF EndBatch
      <4>2. CASE ~directResult
        BY <1>12, <2>2, <4>2 DEF EndBatch, TakePending
      <4> QED
        BY <4>1, <4>2
    <3> QED
      BY <2>1, <3>1
  <2>3. CASE ~directResult /\ inbox > 0
    BY <1>12, <2>1, <2>3 DEF EndBatch, TakePending
  <2> QED
    BY <2>2, <2>3
<1>13. CASE SkipRepeated
  <2>1. /\ pc = "announced" /\ pc' = "batch" /\ totalToolCalls' = totalToolCalls - 1
        /\ UNCHANGED <<iteration, iterationBudget, requests, rotated, absorbed>>
    BY <1>13 DEF SkipRepeated
  <2> QED
    BY <2>1
<1>14. CASE Execute
  BY <1>14 DEF Execute, Call, Repeats, Answered, TokenStopsAttempt, Fails
<1>15. CASE Succeeds
  BY <1>15 DEF Succeeds, Call, Answered
<1>16. CASE FailsSafely
  BY <1>16 DEF FailsSafely
<1>17. CASE FailsForGood
  BY <1>17 DEF FailsForGood, Call, Answered, Fails
<1>18. CASE Retry
  BY <1>18 DEF Retry, Call, Answered, TokenStopsAttempt, Fails
<1>19. CASE TaskCancelled
  BY <1>19 DEF TaskCancelled, Abort
<1>20. CASE UserStops
  BY <1>20 DEF UserStops
<1>21. CASE UserInterjects
  BY <1>21 DEF UserInterjects
<1>22. CASE OtherTurnStarts
  BY <1>22 DEF OtherTurnStarts
<1>23. CASE OtherTurnRotates
  BY <1>23 DEF OtherTurnRotates, KeysLeft
<1>24. CASE UNCHANGED vars
  BY <1>24 DEF vars, history
<1> QED
  BY <1>1, <1>2, <1>3, <1>4, <1>5, <1>6, <1>7, <1>8, <1>9, <1>10, <1>11, <1>12,
     <1>13, <1>14, <1>15, <1>16, <1>17, <1>18, <1>19, <1>20, <1>21, <1>22, <1>23, <1>24
     DEF Next, LoopStep, Around, Ended

\* Repeated calls are counted, and cut off.
LEMMA FuseStep ==
    ASSUME TypeOK, Fuse, Stops, [Next]_vars
    PROVE  (Fuse /\ Stops)'
<1> USE LoopAssumption
    DEF counters, control, response, batch, fuse, flags, context, env, outcome, tally, history,
        TypeOK, Fuse, Stops
<1>1. CASE BudgetSpent
  BY <1>1 DEF BudgetSpent, Finish
<1>2. CASE NextIteration
  BY <1>2 DEF NextIteration, Abort
<1>3. CASE StreamText
  BY <1>3 DEF StreamText
<1>4. CASE StreamToolCall
  BY <1>4 DEF StreamToolCall, Collect
<1>5. CASE RotateKey
  BY <1>5 DEF RotateKey, KeysLeft
<1>6. CASE StreamError
  BY <1>6 DEF StreamError, Abort
<1>7. CASE Answer
  BY <1>7 DEF Answer, Finish
<1>8. CASE RefuseBatch
  BY <1>8 DEF RefuseBatch, Finish, Slots
<1>9. CASE BeginBatch
  BY <1>9 DEF BeginBatch, Slots
<1>10. CASE CancelledBetweenCalls
  BY <1>10 DEF CancelledBetweenCalls, Abort, BatchIsOver
<1>11. CASE StartCall
  BY <1>11 DEF StartCall, BatchIsOver
<1>12. CASE EndBatch
  BY <1>12 DEF EndBatch, Finish, BatchIsOver, TakePending, WithPlaceholders
<1>13. CASE SkipRepeated
  <2>1. pc = "announced" /\ pc' = "batch" /\ UNCHANGED <<directResult, ending>>
    BY <1>13 DEF SkipRepeated
  <2>2. Repeats >= MaxIdentical /\ repeatCount' = Repeats
    BY <1>13 DEF SkipRepeated
  <2>3. repeatCount' = repeatCount /\ repeatCount >= MaxIdentical
    BY <2>2 DEF Repeats
  <2>4. consecutiveSkips' = consecutiveSkips + 1
    BY <1>13 DEF SkipRepeated
  <2>5. spin'.executed = spin.executed /\ spin'.skipped = spin.skipped + 1
    BY <1>13 DEF SkipRepeated
  <2>6. repeatStop' = (consecutiveSkips + 1 >= MaxSkips)
    BY <1>13, Zenon DEF SkipRepeated
  <2>7. ~repeatStop /\ ~directResult /\ spin.skipped < MaxSkips
    BY <2>1
  <2>8. CASE consecutiveSkips + 1 >= MaxSkips
    <3>1. repeatStop' = TRUE
      BY <2>6, <2>8
    <3> QED
      BY <2>1, <2>3, <2>4, <2>5, <2>7, <3>1
  <2>9. CASE ~(consecutiveSkips + 1 >= MaxSkips)
    <3>1. repeatStop' = FALSE
      BY <2>6, <2>9
    <3> QED
      BY <2>1, <2>3, <2>4, <2>5, <2>7, <2>9, <3>1
  <2> QED
    BY <2>8, <2>9
<1>14. CASE Execute
  <2>1. /\ pc = "announced" /\ Repeats < MaxIdentical /\ consecutiveSkips' = 0
        /\ UNCHANGED <<repeatStop, directResult, ending>>
    BY <1>14 DEF Execute, Fails
  <2>2. CASE cancelled
    <3>1. pc' = "batch" /\ repeatCount' = 0 /\ spin' = [executed |-> 0, skipped |-> 0]
      BY <1>14, <2>2 DEF Execute, TokenStopsAttempt, Fails
    <3> QED
      BY <2>1, <3>1
  <2>3. CASE ~cancelled /\ lastSignature = Call.sig
    <3>1. pc' = "body" /\ repeatCount' = repeatCount /\ repeatCount < MaxIdentical /\ spin' = spin
      BY <1>14, <2>3 DEF Execute, TokenStopsAttempt, Repeats
    <3> QED
      BY <2>1, <3>1
  <2>4. CASE ~cancelled /\ lastSignature # Call.sig
    <3>1. /\ pc' = "body" /\ repeatCount' = 0
          /\ spin' = [executed |-> 0, skipped |-> 0]
      BY <1>14, <2>4 DEF Execute, TokenStopsAttempt, Repeats
    <3> QED
      BY <2>1, <3>1
  <2> QED
    BY <2>2, <2>3, <2>4
<1>15. CASE Succeeds
  <2>1. /\ pc = "body" /\ pc' = "batch" /\ repeatCount' = repeatCount + 1
        /\ UNCHANGED <<consecutiveSkips, repeatStop, ending>>
    BY <1>15 DEF Succeeds
  <2>2. spin'.executed = spin.executed + 1 /\ spin'.skipped = spin.skipped
    BY <1>15 DEF Succeeds
  <2> QED
    BY <2>1, <2>2
<1>16. CASE FailsSafely
  BY <1>16 DEF FailsSafely
<1>17. CASE FailsForGood
  BY <1>17 DEF FailsForGood, Call, Answered, Fails
<1>18. CASE Retry
  <2>1. CASE cancelled
    BY <1>18, <2>1 DEF Retry, TokenStopsAttempt, Fails
  <2>2. CASE ~cancelled
    BY <1>18, <2>2 DEF Retry, TokenStopsAttempt
  <2> QED
    BY <2>1, <2>2
<1>19. CASE TaskCancelled
  BY <1>19 DEF TaskCancelled, Abort
<1>20. CASE UserStops
  BY <1>20 DEF UserStops
<1>21. CASE UserInterjects
  BY <1>21 DEF UserInterjects
<1>22. CASE OtherTurnStarts
  BY <1>22 DEF OtherTurnStarts
<1>23. CASE OtherTurnRotates
  BY <1>23 DEF OtherTurnRotates, KeysLeft
<1>24. CASE UNCHANGED vars
  BY <1>24 DEF vars, history
<1> QED
  BY <1>1, <1>2, <1>3, <1>4, <1>5, <1>6, <1>7, <1>8, <1>9, <1>10, <1>11, <1>12,
     <1>13, <1>14, <1>15, <1>16, <1>17, <1>18, <1>19, <1>20, <1>21, <1>22, <1>23, <1>24
     DEF Next, LoopStep, Around, Ended

\* The call in progress is one of the batch.
LEMMA CallIsThere ==
    ASSUME TypeOK, PairedSoFar, pc \in {"announced", "body", "pausing"}
    PROVE  /\ nextCall \in DOMAIN toolCalls
           /\ Call.id \in Ids /\ Call.sig \in Sigs /\ Call.id = asked[nextCall]
<1>1. nextCall \in DOMAIN toolCalls /\ Len(asked) = Len(toolCalls)
  BY DEF TypeOK, PairedSoFar, Busy
<1>2. toolCalls[nextCall] \in Calls
  BY <1>1 DEF TypeOK
<1>3. asked[nextCall] = toolCalls[nextCall].id
  BY <1>1 DEF TypeOK, PairedSoFar, Busy
<1> QED
  BY <1>1, <1>2, <1>3 DEF Call, Calls

\* The result of a call is added to the context.
LEMMA AnsweredDoes ==
    ASSUME TypeOK, PairedSoFar, pc \in {"announced", "body", "pausing"}, Answered
    PROVE  /\ tail' \in Seq(Ids \union {User}) /\ nextCall' = nextCall + 1
           /\ Len(tail') = Len(tail) + 1 /\ tail'[Len(tail) + 1] = asked[nextCall]
           /\ \A i \in DOMAIN tail : tail'[i] = tail[i]
<1> DEFINE id == Call.id
<1>1. id \in Ids /\ id = asked[nextCall]
  BY CallIsThere
<1>2. tail' = Append(tail, id) /\ nextCall' = nextCall + 1
  BY DEF Answered
<1>3. tail \in Seq(Ids \union {User})
  BY DEF TypeOK
<1> HIDE DEF id
<1> QED
  BY <1>1, <1>2, <1>3

\* The rotations of the turn are paid for by the turns that started.
LEMMA RotationsStep ==
    ASSUME TypeOK, Rotations, [Next]_vars
    PROVE  Rotations'
<1> USE LoopAssumption
    DEF counters, control, response, batch, fuse, flags, context, env, outcome, tally, history,
        TypeOK, Rotations
<1>1. CASE BudgetSpent
  BY <1>1 DEF BudgetSpent, Finish
<1>2. CASE NextIteration
  BY <1>2 DEF NextIteration, Abort
<1>3. CASE StreamText
  BY <1>3 DEF StreamText
<1>4. CASE StreamToolCall
  BY <1>4 DEF StreamToolCall, Collect
<1>5. CASE RotateKey
  BY <1>5 DEF RotateKey, KeysLeft
<1>6. CASE StreamError
  BY <1>6 DEF StreamError, Abort
<1>7. CASE Answer
  BY <1>7 DEF Answer, Finish
<1>8. CASE RefuseBatch
  BY <1>8 DEF RefuseBatch, Finish, Slots
<1>9. CASE BeginBatch
  BY <1>9 DEF BeginBatch, Slots
<1>10. CASE CancelledBetweenCalls
  BY <1>10 DEF CancelledBetweenCalls, Abort, BatchIsOver
<1>11. CASE StartCall
  BY <1>11 DEF StartCall, BatchIsOver
<1>12. CASE EndBatch
  BY <1>12 DEF EndBatch, Finish, BatchIsOver, TakePending, WithPlaceholders
<1>13. CASE SkipRepeated
  BY <1>13 DEF SkipRepeated, Call, Repeats, Answered
<1>14. CASE Execute
  BY <1>14 DEF Execute, Call, Repeats, Answered, TokenStopsAttempt, Fails
<1>15. CASE Succeeds
  BY <1>15 DEF Succeeds, Call, Answered
<1>16. CASE FailsSafely
  BY <1>16 DEF FailsSafely
<1>17. CASE FailsForGood
  BY <1>17 DEF FailsForGood, Call, Answered, Fails
<1>18. CASE Retry
  BY <1>18 DEF Retry, Call, Answered, TokenStopsAttempt, Fails
<1>19. CASE TaskCancelled
  BY <1>19 DEF TaskCancelled, Abort
<1>20. CASE UserStops
  BY <1>20 DEF UserStops
<1>21. CASE UserInterjects
  BY <1>21 DEF UserInterjects
<1>22. CASE OtherTurnStarts
  BY <1>22 DEF OtherTurnStarts
<1>23. CASE OtherTurnRotates
  BY <1>23 DEF OtherTurnRotates, KeysLeft
<1>24. CASE UNCHANGED vars
  BY <1>24 DEF vars, history
<1> QED
  BY <1>1, <1>2, <1>3, <1>4, <1>5, <1>6, <1>7, <1>8, <1>9, <1>10, <1>11, <1>12,
     <1>13, <1>14, <1>15, <1>16, <1>17, <1>18, <1>19, <1>20, <1>21, <1>22, <1>23, <1>24
     DEF Next, LoopStep, Around, Ended

\* The sequences keep their types.
LEMMA SequencesStep ==
    ASSUME TypeOK, CallsCounted, PairedSoFar, [Next]_vars
    PROVE  SequencesOK'
<1> USE LoopAssumption
    DEF counters, control, response, batch, fuse, flags, context, env, outcome, tally, history,
        SequencesOK
<1>0. SequencesOK
  BY DEF TypeOK
<1>1. CASE BudgetSpent
  BY <1>0, <1>1 DEF BudgetSpent, Finish
<1>2. CASE NextIteration
  <2>1. CASE cancelled
    BY <1>0, <1>2, <2>1 DEF NextIteration
  <2>2. CASE ~cancelled
    BY <1>0, <1>2, <2>2 DEF NextIteration
  <2> QED
    BY <2>1, <2>2
<1>3. CASE StreamText
  BY <1>0, <1>3 DEF StreamText
<1>4. CASE StreamToolCall
  BY <1>0, <1>4 DEF StreamToolCall, Collect
<1>5. CASE RotateKey
  BY <1>0, <1>5 DEF RotateKey, KeysLeft
<1>6. CASE StreamError
  BY <1>0, <1>6 DEF StreamError, Abort
<1>7. CASE Answer
  BY <1>0, <1>7 DEF Answer, Finish
<1>8. CASE RefuseBatch
  BY <1>0, <1>8 DEF RefuseBatch, Finish, Slots
<1>9. CASE BeginBatch
  <2>1. /\ toolCalls' = IF Len(toolCalls) > Slots THEN SubSeq(toolCalls, 1, Slots) ELSE toolCalls
        /\ asked' = [i \in 1 .. Len(toolCalls') |-> toolCalls'[i].id] /\ tail' = <<>>
        /\ Slots > 0 /\ Slots \in Nat
    BY <1>9 DEF BeginBatch, Slots, TypeOK
  <2>2. toolCalls' \in Seq(Calls)
    <3>1. CASE Len(toolCalls) > Slots
      BY <1>0, <2>1, <3>1
    <3>2. CASE ~(Len(toolCalls) > Slots)
      BY <1>0, <2>1, <3>2
    <3> QED
      BY <3>1, <3>2
  <2>3. \A i \in 1 .. Len(toolCalls') : toolCalls'[i].id \in Ids
    <3> TAKE i \in 1 .. Len(toolCalls')
    <3>1. toolCalls'[i] \in Calls
      BY <2>2
    <3> QED
      BY <3>1 DEF Calls
  <2>4. asked' \in Seq(Ids)
    BY <2>1, <2>2, <2>3
  <2> QED
    BY <2>1, <2>2, <2>4
<1>10. CASE CancelledBetweenCalls
  BY <1>0, <1>10 DEF CancelledBetweenCalls, Abort, BatchIsOver
<1>11. CASE StartCall
  BY <1>0, <1>11 DEF StartCall, BatchIsOver
<1>12. CASE EndBatch
  <2>1. WithPlaceholders(tail) \in Seq(Ids \union {User})
    BY <1>0, <1>12 DEF EndBatch, WithPlaceholders, TypeOK
  <2>2. UNCHANGED <<toolCalls, asked>>
    BY <1>12 DEF EndBatch
  <2>3. tail' \in {WithPlaceholders(tail), Append(WithPlaceholders(tail), User)}
    BY <1>12 DEF EndBatch, TakePending
  <2> DEFINE w == WithPlaceholders(tail)
  <2>4. Append(w, User) \in Seq(Ids \union {User})
    <3> HIDE DEF w
    <3>1. w \in Seq(Ids \union {User})
      BY <2>1 DEF w
    <3> QED
      BY <3>1
  <2> QED
    BY <1>0, <2>1, <2>2, <2>3, <2>4
<1>13. CASE SkipRepeated
  BY <1>0, <1>13, AnsweredDoes DEF SkipRepeated
<1>14. CASE Execute
  <2>1. CASE cancelled
    BY <1>0, <1>14, <2>1, AnsweredDoes DEF Execute, TokenStopsAttempt, Fails
  <2>2. CASE ~cancelled
    BY <1>0, <1>14, <2>2 DEF Execute, TokenStopsAttempt
  <2> QED
    BY <2>1, <2>2
<1>15. CASE Succeeds
  <2>1. CASE Call.sig \in Direct
    BY <1>0, <1>15, <2>1 DEF Succeeds
  <2>2. CASE Call.sig \notin Direct
    BY <1>0, <1>15, <2>2, AnsweredDoes DEF Succeeds
  <2> QED
    BY <2>1, <2>2
<1>16. CASE FailsSafely
  BY <1>0, <1>16 DEF FailsSafely
<1>17. CASE FailsForGood
  BY <1>0, <1>17, AnsweredDoes DEF FailsForGood, Fails
<1>18. CASE Retry
  <2>1. CASE cancelled
    BY <1>0, <1>18, <2>1, AnsweredDoes DEF Retry, TokenStopsAttempt, Fails
  <2>2. CASE ~cancelled
    BY <1>0, <1>18, <2>2 DEF Retry, TokenStopsAttempt
  <2> QED
    BY <2>1, <2>2
<1>19. CASE TaskCancelled
  BY <1>0, <1>19 DEF TaskCancelled, Abort
<1>20. CASE UserStops
  BY <1>0, <1>20 DEF UserStops
<1>21. CASE UserInterjects
  BY <1>0, <1>21 DEF UserInterjects
<1>22. CASE OtherTurnStarts
  BY <1>0, <1>22 DEF OtherTurnStarts
<1>23. CASE OtherTurnRotates
  BY <1>0, <1>23 DEF OtherTurnRotates, KeysLeft
<1>24. CASE UNCHANGED vars
  BY <1>0, <1>24 DEF vars, history
<1> QED
  BY <1>1, <1>2, <1>3, <1>4, <1>5, <1>6, <1>7, <1>8, <1>9, <1>10, <1>11, <1>12,
     <1>13, <1>14, <1>15, <1>16, <1>17, <1>18, <1>19, <1>20, <1>21, <1>22, <1>23, <1>24
     DEF Next, LoopStep, Around, Ended

\* The other variables keep their types.
LEMMA ScalarsStep ==
    ASSUME TypeOK, Budget, CallsCounted, PairedSoFar, [Next]_vars
    PROVE  ScalarsOK'
<1> USE LoopAssumption
    DEF counters, control, response, batch, fuse, flags, context, env, outcome, tally, history,
        ScalarsOK, PCs, Endings, Warnings
<1>0. ScalarsOK
  BY DEF TypeOK
<1>1. CASE BudgetSpent
  BY <1>0, <1>1 DEF BudgetSpent, Finish, LimitWarning
<1>2. CASE NextIteration
  <2>1. CASE cancelled
    BY <1>0, <1>2, <2>1 DEF NextIteration, Abort
  <2>2. CASE ~cancelled
    <3>1. /\ pc' = "stream" /\ iteration' = iteration + 1 /\ requests' = requests + 1
          /\ text' = FALSE /\ unseen' = FALSE
          /\ UNCHANGED <<iterationBudget, totalToolCalls, batch, fuse, flags, rotations, env,
                         rotated, absorbed, spin, outcome>>
      BY <1>2, <2>2 DEF NextIteration
    <3>2. iteration' \in Nat /\ requests' \in Nat
      BY <1>0, <3>1
    <3>3. UNCHANGED <<iterationBudget, totalToolCalls, nextCall, attempt, lastSignature,
                      repeatCount, consecutiveSkips, repeatStop, limitReached, directResult,
                      rotations, cancelled, inbox, interjected, others, ending, warning,
                      rotated, absorbed, spin>>
      BY <3>1
    <3> QED
      BY <1>0, <3>1, <3>2, <3>3
  <2> QED
    BY <2>1, <2>2
<1>3. CASE StreamText
  BY <1>0, <1>3 DEF StreamText
<1>4. CASE StreamToolCall
  BY <1>0, <1>4 DEF StreamToolCall, Collect
<1>5. CASE RotateKey
  <2>1. iteration' = iteration - 1 /\ iteration >= 1 /\ pc' \in {"drained", "head"}
    BY <1>5 DEF RotateKey, Budget
  <2> QED
    BY <1>0, <1>5, <2>1 DEF RotateKey
<1>6. CASE StreamError
  BY <1>0, <1>6 DEF StreamError, Abort
<1>7. CASE Answer
  BY <1>0, <1>7 DEF Answer, Finish, LimitWarning
<1>8. CASE RefuseBatch
  BY <1>0, <1>8 DEF RefuseBatch, Finish, LimitWarning, Slots
<1>9. CASE BeginBatch
  BY <1>0, <1>9 DEF BeginBatch, Slots
<1>10. CASE CancelledBetweenCalls
  BY <1>0, <1>10 DEF CancelledBetweenCalls, Abort, BatchIsOver
<1>11. CASE StartCall
  BY <1>0, <1>11 DEF StartCall, BatchIsOver
<1>12. CASE EndBatch
  <2>1. pc' \in {"head", "done"} /\ ending' \in Endings /\ warning' \in Warnings
    BY <1>0, <1>12 DEF EndBatch, Finish, LimitWarning
  <2>2. /\ inbox' \in Nat /\ absorbed' \in Nat /\ iterationBudget' \in Nat
        /\ unseen' \in BOOLEAN
    <3>1. CASE directResult
      BY <1>0, <1>12, <3>1 DEF EndBatch
    <3>2. CASE ~directResult /\ inbox > 0
      BY <1>0, <1>12, <3>2 DEF EndBatch, TakePending
    <3>3. CASE ~directResult /\ ~(inbox > 0)
      BY <1>0, <1>12, <3>3 DEF EndBatch, TakePending
    <3> QED
      BY <3>1, <3>2, <3>3
  <2> QED
    BY <1>0, <1>12, <2>1, <2>2 DEF EndBatch
<1>13. CASE SkipRepeated
  <2>1. totalToolCalls' \in Nat
    BY <1>0, <1>13 DEF SkipRepeated, CallsCounted
  <2>2. spin' \in [executed : Nat, skipped : Nat]
    <3> DEFINE n == spin.skipped + 1
    <3>1. n \in Nat
      BY <1>0
    <3> HIDE DEF n
    <3>2. spin' = [spin EXCEPT !.skipped = n]
      BY <1>13 DEF SkipRepeated, n
    <3> QED
      BY <1>0, <3>1, <3>2
  <2>3. Call.sig \in Sigs
    BY <1>13, CallIsThere DEF SkipRepeated
  <2>4. Repeats \in Nat
    BY <1>0 DEF Repeats
  <2>5. repeatStop' \in BOOLEAN
    BY <1>13 DEF SkipRepeated
  <2>6. nextCall' \in Nat \ {0} /\ consecutiveSkips' \in Nat
    <3>1. nextCall' = nextCall + 1 /\ consecutiveSkips' = consecutiveSkips + 1
      BY <1>13 DEF SkipRepeated, Answered
    <3> QED
      BY <1>0, <3>1
  <2>7. lastSignature' \in Sigs /\ repeatCount' \in Nat /\ pc' = "batch"
    BY <1>13, <2>3, <2>4 DEF SkipRepeated
  <2>8. UNCHANGED <<iteration, iterationBudget, text, attempt, limitReached, directResult,
                    rotations, env, outcome, tally>>
    BY <1>13 DEF SkipRepeated
  <2> QED
    BY <1>0, <2>1, <2>2, <2>5, <2>6, <2>7, <2>8
<1>14. CASE Execute
  <2>1. Call.sig \in Sigs /\ Repeats \in Nat
    BY <1>0, <1>14, CallIsThere DEF Execute, Repeats
  <2>2. [executed |-> 0, skipped |-> 0] \in [executed : Nat, skipped : Nat]
    OBVIOUS
  <2>3. CASE cancelled
    BY <1>0, <1>14, <2>1, <2>2, <2>3 DEF Execute, Answered, TokenStopsAttempt, Fails
  <2>4. CASE ~cancelled
    BY <1>0, <1>14, <2>1, <2>2, <2>4 DEF Execute, TokenStopsAttempt
  <2> QED
    BY <2>3, <2>4
<1>15. CASE Succeeds
  <2>1. spin' \in [executed : Nat, skipped : Nat]
    <3> DEFINE n == spin.executed + 1
    <3>1. n \in Nat
      BY <1>0
    <3> HIDE DEF n
    <3>2. spin' = [spin EXCEPT !.executed = n]
      BY <1>15 DEF Succeeds, n
    <3> QED
      BY <1>0, <3>1, <3>2
  <2>2. nextCall' \in Nat \ {0} /\ repeatCount' \in Nat /\ pc' = "batch"
    <3>1. nextCall' = nextCall + 1 /\ repeatCount' = repeatCount + 1 /\ pc' = "batch"
      BY <1>15 DEF Succeeds, Answered
    <3> QED
      BY <1>0, <3>1
  <2>3. directResult' \in BOOLEAN
    BY <1>15 DEF Succeeds
  <2>4. UNCHANGED <<counters, text, attempt, lastSignature, consecutiveSkips, repeatStop,
                    limitReached, rotations, env, outcome, tally>>
    BY <1>15 DEF Succeeds
  <2> QED
    BY <1>0, <2>1, <2>2, <2>3, <2>4
<1>16. CASE FailsSafely
  BY <1>0, <1>16 DEF FailsSafely
<1>17. CASE FailsForGood
  BY <1>0, <1>17, CallIsThere DEF FailsForGood, Answered, Fails
<1>18. CASE Retry
  <2>1. [executed |-> 0, skipped |-> 0] \in [executed : Nat, skipped : Nat]
    OBVIOUS
  <2>2. CASE cancelled
    BY <1>0, <1>18, <2>1, <2>2 DEF Retry, Answered, TokenStopsAttempt, Fails
  <2>3. CASE ~cancelled
    BY <1>0, <1>18, <2>3 DEF Retry, TokenStopsAttempt
  <2> QED
    BY <2>2, <2>3
<1>19. CASE TaskCancelled
  BY <1>0, <1>19 DEF TaskCancelled, Abort
<1>20. CASE UserStops
  BY <1>0, <1>20 DEF UserStops
<1>21. CASE UserInterjects
  BY <1>0, <1>21 DEF UserInterjects
<1>22. CASE OtherTurnStarts
  BY <1>0, <1>22 DEF OtherTurnStarts
<1>23. CASE OtherTurnRotates
  BY <1>0, <1>23 DEF OtherTurnRotates, KeysLeft
<1>24. CASE UNCHANGED vars
  BY <1>0, <1>24 DEF vars, history
<1> QED
  BY <1>1, <1>2, <1>3, <1>4, <1>5, <1>6, <1>7, <1>8, <1>9, <1>10, <1>11, <1>12,
     <1>13, <1>14, <1>15, <1>16, <1>17, <1>18, <1>19, <1>20, <1>21, <1>22, <1>23, <1>24
     DEF Next, LoopStep, Around, Ended

\* Every variable keeps its type.
LEMMA TypeStep ==
    ASSUME TypeOK, Budget, CallsCounted, PairedSoFar, [Next]_vars
    PROVE  TypeOK'
  BY SequencesStep, ScalarsStep DEF TypeOK, SequencesOK, ScalarsOK

\* The result of the call in progress is that of the next call asked for.
LEMMA AnsweredPairs ==
    ASSUME TypeOK, Stops, IdsDiffer, PairedSoFar, pc \in {"announced", "body", "pausing"},
           Answered, pc' = "batch", UNCHANGED <<toolCalls, asked>>
    PROVE  (IdsDiffer /\ PairedSoFar /\ Paired)'
<1>1. ~directResult
  BY DEF Stops
<1>2. /\ Len(asked) = Len(toolCalls) /\ nextCall <= Len(asked)
      /\ Len(tail) = nextCall - 1 /\ \A i \in DOMAIN tail : tail[i] = asked[i]
  BY <1>1 DEF PairedSoFar, Busy
<1>3. /\ tail' \in Seq(Ids \union {User}) /\ nextCall' = nextCall + 1
      /\ Len(tail') = Len(tail) + 1 /\ tail'[Len(tail) + 1] = asked[nextCall]
      /\ \A i \in DOMAIN tail : tail'[i] = tail[i]
  BY AnsweredDoes
<1>4. Len(tail') = nextCall' - 1 /\ nextCall' <= Len(asked) + 1 /\ nextCall \in Nat
  BY <1>2, <1>3 DEF TypeOK
<1>5. \A i \in DOMAIN tail' : tail'[i] = asked[i]
  <2> TAKE i \in DOMAIN tail'
  <2>1. i \in 1 .. Len(tail) \/ i = Len(tail) + 1
    BY <1>3 DEF TypeOK
  <2>2. CASE i \in 1 .. Len(tail)
    BY <1>2, <1>3, <2>2 DEF TypeOK
  <2>3. CASE i = Len(tail) + 1
    BY <1>2, <1>3, <1>4, <2>3
  <2> QED
    BY <2>1, <2>2, <2>3
<1> QED
  BY <1>2, <1>4, <1>5 DEF IdsDiffer, PairedSoFar, Paired, Busy

\* What becomes of the results when the batch ends.
LEMMA PlaceholdersPair ==
    ASSUME TypeOK, PairedSoFar, pc = "batch", ~directResult
    PROVE  /\ WithPlaceholders(tail) \in Seq(Ids \union {User})
           /\ Len(WithPlaceholders(tail)) = Len(asked)
           /\ \A i \in DOMAIN asked : WithPlaceholders(tail)[i] = asked[i]
<1> DEFINE rest == SubSeq(asked, nextCall, Len(asked))
           n == nextCall
<1>1. /\ n <= Len(asked) + 1 /\ Len(tail) = n - 1 /\ n \in Nat \ {0}
      /\ \A i \in DOMAIN tail : tail[i] = asked[i]
      /\ asked \in Seq(Ids) /\ tail \in Seq(Ids \union {User}) /\ Len(asked) \in Nat
  BY DEF PairedSoFar, Busy, TypeOK
<1>2. rest \in Seq(Ids) /\ Len(rest) = Len(asked) + 1 - n
  BY <1>1
<1>3. \A i \in 1 .. Len(rest) : rest[i] = asked[n - 1 + i]
  BY <1>1, <1>2
<1>4. WithPlaceholders(tail) = tail \o rest
  BY DEF WithPlaceholders
<1> HIDE DEF rest, n
<1>5. /\ tail \o rest \in Seq(Ids \union {User})
      /\ Len(tail \o rest) = Len(asked)
  BY <1>1, <1>2
<1>6. ASSUME NEW i \in DOMAIN asked PROVE (tail \o rest)[i] = asked[i]
  <2>0. i \in Nat \ {0} /\ i <= Len(asked) /\ Len(tail) \in Nat
    BY <1>1
  <2>1. CASE i <= Len(tail)
    BY <1>1, <1>2, <2>0, <2>1
  <2>2. CASE i > Len(tail)
    <3>1. i - Len(tail) \in 1 .. Len(rest)
      BY <1>1, <1>2, <2>0, <2>2
    <3>2. (tail \o rest)[i] = rest[i - Len(tail)]
      BY <1>1, <1>2, <2>0, <2>2, <3>1
    <3> QED
      BY <1>1, <1>3, <2>0, <3>1, <3>2
  <2>3. i <= Len(tail) \/ i > Len(tail)
    BY <2>0
  <2> QED
    BY <2>1, <2>2, <2>3
<1> QED
  BY <1>4, <1>5, <1>6

\* Every call gets its result, whichever way its batch ends.
LEMMA PairsStep ==
    ASSUME TypeOK, TypeOK', CallsCounted, Stops, IdsDiffer, PairedSoFar, Paired, [Next]_vars
    PROVE  (IdsDiffer /\ PairedSoFar /\ Paired)'
<1> USE LoopAssumption
    DEF counters, control, response, batch, fuse, flags, context, env, outcome, tally, history,
        SequencesOK, Busy, IdsDiffer, PairedSoFar, Paired
<1>0. SequencesOK /\ SequencesOK' /\ nextCall \in Nat \ {0}
  BY DEF TypeOK, SequencesOK
<1>1. CASE BudgetSpent
  BY <1>0, <1>1 DEF BudgetSpent, Finish
<1>2. CASE NextIteration
  BY <1>0, <1>2 DEF NextIteration, Abort
<1>3. CASE StreamText
  BY <1>0, <1>3 DEF StreamText
<1>4. CASE StreamToolCall
  BY <1>0, <1>4 DEF StreamToolCall, Collect
<1>5. CASE RotateKey
  BY <1>0, <1>5 DEF RotateKey, KeysLeft
<1>6. CASE StreamError
  BY <1>0, <1>6 DEF StreamError, Abort
<1>7. CASE Answer
  BY <1>0, <1>7 DEF Answer, Finish
<1>8. CASE RefuseBatch
  BY <1>0, <1>8 DEF RefuseBatch, Finish, Slots
<1>9. CASE BeginBatch
  BY <1>0, <1>9 DEF BeginBatch, Slots
<1>10. CASE CancelledBetweenCalls
  BY <1>0, <1>10 DEF CancelledBetweenCalls, Abort, BatchIsOver
<1>11. CASE StartCall
  BY <1>0, <1>11 DEF StartCall, BatchIsOver
<1>12. CASE EndBatch
  <2>1. pc = "batch" /\ UNCHANGED <<toolCalls, asked>> /\ pc' \in {"head", "done"}
    BY <1>12 DEF EndBatch, Finish
  <2>2. CASE pc' = "done"
    BY <2>1, <2>2
  <2>3. CASE pc' = "head"
    <3> DEFINE w == WithPlaceholders(tail)
    <3>1. ~directResult /\ tail' \in {w, Append(w, User)}
      BY <1>12, <2>3 DEF EndBatch, TakePending, Finish
    <3>2. /\ w \in Seq(Ids \union {User}) /\ Len(w) = Len(asked)
          /\ \A i \in DOMAIN asked : w[i] = asked[i]
      BY <2>1, <3>1, PlaceholdersPair
    <3> HIDE DEF w
    <3>3. /\ Len(asked) <= Len(tail')
          /\ \A i \in DOMAIN tail' : tail'[i] = IF i <= Len(asked) THEN asked[i] ELSE User
      <4>1. CASE tail' = w
        BY <1>0, <3>2, <4>1
      <4>2. CASE tail' = Append(w, User)
        <5>1. /\ Len(tail') = Len(asked) + 1 /\ tail'[Len(asked) + 1] = User
              /\ \A i \in DOMAIN asked : tail'[i] = asked[i]
          BY <1>0, <3>2, <4>2
        <5>2. \A i \in DOMAIN tail' : i \in DOMAIN asked \/ i = Len(asked) + 1
          BY <1>0, <5>1
        <5> QED
          BY <1>0, <5>1, <5>2
      <4> QED
        BY <3>1, <4>1, <4>2
    <3>4. \A i, j \in DOMAIN asked : asked[i] = asked[j] => i = j \/ asked[i] = NoId
      <4>1. /\ Len(asked) = Len(toolCalls)
            /\ \A i \in DOMAIN asked : asked[i] = toolCalls[i].id
        BY <2>1
      <4>2. DOMAIN asked = DOMAIN toolCalls
        BY <1>0, <4>1
      <4> QED
        BY <4>1, <4>2
    <3> QED
      BY <2>1, <2>3, <3>3, <3>4
  <2> QED
    BY <2>1, <2>2, <2>3
<1>13. CASE SkipRepeated
  BY <1>13, AnsweredPairs DEF SkipRepeated
<1>14. CASE Execute
  <2>1. CASE cancelled
    BY <1>14, <2>1, AnsweredPairs DEF Execute, TokenStopsAttempt, Fails
  <2>2. CASE ~cancelled
    BY <1>0, <1>14, <2>2 DEF Execute, TokenStopsAttempt
  <2> QED
    BY <2>1, <2>2
<1>15. CASE Succeeds
  <2>1. CASE Call.sig \in Direct
    <3>1. /\ directResult' = TRUE /\ nextCall' = nextCall + 1 /\ pc' = "batch" /\ pc = "body"
          /\ UNCHANGED <<toolCalls, asked>>
      BY <1>15, <2>1 DEF Succeeds
    <3> QED
      BY <1>0, <3>1
  <2>2. CASE Call.sig \notin Direct
    BY <1>15, <2>2, AnsweredPairs DEF Succeeds
  <2> QED
    BY <2>1, <2>2
<1>16. CASE FailsSafely
  BY <1>0, <1>16 DEF FailsSafely
<1>17. CASE FailsForGood
  BY <1>17, AnsweredPairs DEF FailsForGood, Fails
<1>18. CASE Retry
  <2>1. CASE cancelled
    BY <1>18, <2>1, AnsweredPairs DEF Retry, TokenStopsAttempt, Fails
  <2>2. CASE ~cancelled
    BY <1>0, <1>18, <2>2 DEF Retry, TokenStopsAttempt
  <2> QED
    BY <2>1, <2>2
<1>19. CASE TaskCancelled
  BY <1>0, <1>19 DEF TaskCancelled, Abort
<1>20. CASE UserStops
  BY <1>0, <1>20 DEF UserStops
<1>21. CASE UserInterjects
  BY <1>0, <1>21 DEF UserInterjects
<1>22. CASE OtherTurnStarts
  BY <1>0, <1>22 DEF OtherTurnStarts
<1>23. CASE OtherTurnRotates
  BY <1>0, <1>23 DEF OtherTurnRotates, KeysLeft
<1>24. CASE UNCHANGED vars
  BY <1>0, <1>24 DEF vars, history
<1> QED
  BY <1>1, <1>2, <1>3, <1>4, <1>5, <1>6, <1>7, <1>8, <1>9, <1>10, <1>11, <1>12,
     <1>13, <1>14, <1>15, <1>16, <1>17, <1>18, <1>19, <1>20, <1>21, <1>22, <1>23, <1>24
     DEF Next, LoopStep, Around, Ended

\* The initial state satisfies the invariant.
LEMMA InitInv == Init => IInv
<1> SUFFICES ASSUME Init PROVE IInv
  OBVIOUS
<1> USE LoopAssumption DEF Init
<1>1. TypeOK
  <2>1. [executed |-> 0, skipped |-> 0] \in [executed : Nat, skipped : Nat]
    OBVIOUS
  <2>2. SequencesOK
    BY DEF SequencesOK
  <2>3. ScalarsOK
    <3>1. spin \in [executed : Nat, skipped : Nat]
      BY <2>1
    <3>2. lastSignature \in Sigs \union {NoSig}
      OBVIOUS
    <3>3. pc \in PCs /\ ending \in Endings /\ warning \in Warnings
      BY DEF PCs, Endings, Warnings
    <3>4. /\ iteration \in Nat /\ iterationBudget \in Nat /\ totalToolCalls \in Nat
          /\ nextCall \in Nat \ {0} /\ attempt \in Nat /\ repeatCount \in Nat
          /\ consecutiveSkips \in Nat /\ rotations \in Nat /\ inbox \in Nat
          /\ interjected \in Nat /\ others \in Nat /\ requests \in Nat /\ rotated \in Nat
          /\ absorbed \in Nat
      OBVIOUS
    <3>5. /\ text \in BOOLEAN /\ repeatStop \in BOOLEAN /\ limitReached \in BOOLEAN
          /\ directResult \in BOOLEAN /\ cancelled \in BOOLEAN /\ unseen \in BOOLEAN
      OBVIOUS
    <3> QED
      BY <3>1, <3>2, <3>3, <3>4, <3>5 DEF ScalarsOK
  <2> QED
    BY <2>2, <2>3 DEF TypeOK, SequencesOK, ScalarsOK
<1>2. Budget /\ Rotations /\ CallsCounted
  <2>1. MaxRotations * 0 = 0
    OBVIOUS
  <2> QED
    BY <2>1 DEF Budget, Rotations, CallsCounted
<1>3. Fuse /\ Stops
  BY DEF Fuse, Stops
<1>4. IdsDiffer /\ PairedSoFar /\ Paired
  BY DEF IdsDiffer, PairedSoFar, Paired, Busy
<1> QED
  BY <1>1, <1>2, <1>3, <1>4 DEF IInv

\* A step keeps the invariant.
LEMMA InvStep ==
    ASSUME IInv, [Next]_vars
    PROVE  IInv'
<1>1. TypeOK'
  BY TypeStep DEF IInv
<1> QED
  BY <1>1, BudgetStep, RotationsStep, FuseStep, PairsStep DEF IInv

-----------------------------------------------------------------------------
(***************************************************************************)
(* Theorems.                                                               *)
(***************************************************************************)

\* The inductive invariant holds in every run.
THEOREM LoopInvariant == Spec => []IInv
  BY InitInv, InvStep, PTL DEF Spec

\* Every variable keeps its type.
THEOREM LoopTypeCorrect == Spec => []TypeOK
<1>1. IInv => TypeOK
  BY DEF IInv
<1> QED
  BY <1>1, LoopInvariant, PTL

\* Whatever the model is sent pairs each call with its result, also after calls that were
\* skipped, failed, cut off by a limit or left to placeholders (_execute_tool_batch).
THEOREM LoopPairsRequests == Spec => []EveryRequestIsPaired
<1>1. IInv => EveryRequestIsPaired
  BY DEF IInv, Paired, EveryRequestIsPaired
<1> QED
  BY <1>1, LoopInvariant, PTL

\* The requests of a turn are bounded by its budget, its interjections and its rotations, and
\* the rotations by the turns that share their count (_try_key_rotation).
THEOREM LoopRequestsArePaidFor == Spec => []RequestsArePaidFor
<1>1. IInv => RequestsArePaidFor
  <2> SUFFICES ASSUME IInv PROVE RequestsArePaidFor
    OBVIOUS
  <2> USE LoopAssumption
  <2>1. TypeOK /\ Budget /\ Rotations /\ CallsCounted
    BY DEF IInv
  <2>2. requests <= MaxIterations + absorbed + rotated
    BY <2>1 DEF TypeOK, Budget
  <2>3. rotated <= MaxRotations * (1 + others)
    <3>1. MaxRotations * (1 + others) = MaxRotations + MaxRotations * others
      BY <2>1 DEF TypeOK
    <3>2. MaxRotations * others \in Nat
      BY <2>1 DEF TypeOK
    <3> QED
      BY <2>1, <3>1, <3>2 DEF TypeOK, Rotations
  <2> QED
    BY <2>1, <2>2, <2>3 DEF CallsCounted, RequestsArePaidFor
<1> QED
  BY <1>1, LoopInvariant, PTL

\* Calls of one fingerprint are cut off, however the model spreads them over batches
\* (_run_single_tool, MAX_CONSECUTIVE_REPEAT_SKIPS).
THEOREM LoopRepeatsAreCutOff == Spec => []RepeatsAreCutOff
<1>1. IInv => RepeatsAreCutOff
  BY DEF IInv, Fuse, Stops, RepeatsAreCutOff
<1> QED
  BY <1>1, LoopInvariant, PTL

\* No body starts after the user has stopped the turn: the token is read in the same stretch
\* as the body begins (ToolRegistry.execute_outcome).
THEOREM LoopNoBodyAfterStop == Spec => NoBodyAfterStop
<1>1. [Next]_vars => [pc' = "body" /\ pc # "body" => ~cancelled]_vars
  <2> SUFFICES ASSUME [Next]_vars, pc' = "body", pc # "body"
               PROVE  ~cancelled
    OBVIOUS
  <2>1. Execute \/ Retry
    BY DEF Next, LoopStep, Around, Ended, vars, control, counters,
           BudgetSpent, NextIteration, StreamText, StreamToolCall, RotateKey, StreamError, Answer,
           RefuseBatch, BeginBatch, CancelledBetweenCalls, StartCall, EndBatch, SkipRepeated,
           Succeeds, FailsSafely, FailsForGood, Fails, TaskCancelled, UserStops, UserInterjects,
           OtherTurnStarts, OtherTurnRotates, Finish, Abort
  <2> QED
    BY <2>1 DEF Execute, Retry, Fails, TokenStopsAttempt
<1> QED
  BY <1>1, PTL DEF Spec, NoBodyAfterStop

=============================================================================
