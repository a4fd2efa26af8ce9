------------------------------ MODULE AgentLoop ------------------------------
(***************************************************************************)
(* backend/modules/agent/loop.py: one call of AgentLoop.process_message.   *)
(* The loop asks the model, executes the tools it calls, gives the results *)
(* back and asks again, within a budget of iterations and of tool calls,   *)
(* until the model answers with text alone.                                *)
(*                                                                         *)
(* The steps are the stretches of the loop between two awaits that can be  *)
(* told apart: a chunk of the model's stream, the start of a tool call,    *)
(* the start and the end of its body, the pause before a retry.  Between   *)
(* them the user may interject or stop the turn, the task may be           *)
(* cancelled, and other turns of the same AgentLoop object, which share    *)
(* its count of key rotations, go on.  Faulty variants stand before the    *)
(* definitions they replace.                                               *)
(***************************************************************************)
EXTENDS Integers, Sequences

CONSTANTS Sigs,           \* call fingerprints: a tool and its normalised arguments
          Direct,         \* those of workflow_run, if its result is the answer
          Ids,            \* tool_call ids the model uses
          NoId,           \* the empty one, of a call that came without an id
          NoSig,          \* last_tool_signature before the first call
          User,           \* a user message in the context
          MaxIterations,  \* max_iterations: budget of iterations and of tool calls
          MaxIdentical,   \* MAX_IDENTICAL_TOOL_CALLS
          MaxSkips,       \* MAX_CONSECUTIVE_REPEAT_SKIPS
          MaxRotations,   \* MAX_KEY_ROTATION_RETRIES
          MaxRetries,     \* max_retries: attempts of one tool call
          MaxCalls,       \* bound on the calls in one response (checking only)
          MaxInterjections, \* bound on the user's interjections (checking only)
          MaxOthers       \* bound on other turns that start meanwhile (checking only)

ASSUME LoopAssumption ==
    /\ Direct \subseteq Sigs
    /\ NoSig \notin Sigs
    /\ User \notin Ids
    /\ MaxIterations \in Nat \ {0}
    /\ MaxIdentical \in Nat \ {0} /\ MaxSkips \in Nat \ {0}
    /\ MaxRotations \in Nat /\ MaxRetries \in Nat \ {0}
    /\ MaxCalls \in Nat /\ MaxInterjections \in Nat /\ MaxOthers \in Nat

VARIABLES
    \* _LoopState
    pc,           \* where the loop is
    iteration, iterationBudget, totalToolCalls,
    text,         \* content_buffer is not empty
    toolCalls,    \* tool_calls_buffer
    nextCall,     \* index of the call in progress or next
    attempt,      \* attempts made of the call in progress
    lastSignature, repeatCount, consecutiveSkips,
    repeatStop, limitReached, directResult,
    \* the context sent to the model, from its last assistant message with tool calls
    asked,        \* the ids in that message
    tail,         \* what follows it: tool results (their ids) and user messages
    \* shared with other turns
    rotations,    \* AgentLoop._key_rotation_count
    \* environment
    cancelled,    \* the cancel token is set
    inbox,        \* interjections waiting in the session's inbox
    interjected, others,
    \* history
    ending,       \* how the turn ended
    warning,      \* the notice appended to the answer
    requests, rotated, absorbed,
    unseen,       \* the model has not been asked since the last interjection was taken
    spin          \* the latest calls of one signature: none of them failed

counters == <<iteration, iterationBudget, totalToolCalls>>
control == <<pc, counters>>
response == <<text, toolCalls>>
batch == <<nextCall, attempt>>
fuse == <<lastSignature, repeatCount, consecutiveSkips>>
flags == <<repeatStop, limitReached, directResult>>
context == <<asked, tail>>
env == <<cancelled, inbox, interjected, others>>
outcome == <<ending, warning>>
tally == <<requests, rotated, absorbed, unseen>>
history == <<outcome, tally, spin>>
vars == <<control, response, batch, fuse, flags, context, rotations, env, history>>

Calls == [id : Ids, sig : Sigs]

(***************************************************************************)
(* "head": the while condition; "stream": reading the model's stream;      *)
(* "drained": past the error with which a provider ended it; "batch":      *)
(* between two calls of a batch; "announced": telling the listeners;       *)
(* "body": in the registry, executing; "pausing": before a retry; "done".  *)
(***************************************************************************)
PCs == {"head", "stream", "drained", "batch", "announced", "body", "pausing",
        "done"}

\* "answered": the model had no more calls; "direct": a workflow's result is the
\* answer; "cut": a limit; "told": the model's error was passed on.
Endings == {"none", "answered", "direct", "cut", "told", "cancelled", "interrupted"}
Warnings == {"none", "repeats", "calls", "iterations"}

TypeOK ==
    /\ pc \in PCs
    /\ iteration \in Nat /\ iterationBudget \in Nat /\ totalToolCalls \in Nat
    /\ text \in BOOLEAN /\ toolCalls \in Seq(Calls)
    /\ nextCall \in Nat \ {0} /\ attempt \in Nat
    /\ lastSignature \in Sigs \union {NoSig}
    /\ repeatCount \in Nat /\ consecutiveSkips \in Nat
    /\ repeatStop \in BOOLEAN /\ limitReached \in BOOLEAN /\ directResult \in BOOLEAN
    /\ asked \in Seq(Ids) /\ tail \in Seq(Ids \union {User})
    /\ rotations \in Nat
    /\ cancelled \in BOOLEAN /\ inbox \in Nat /\ interjected \in Nat /\ others \in Nat
    /\ ending \in Endings /\ warning \in Warnings
    /\ requests \in Nat /\ rotated \in Nat /\ absorbed \in Nat /\ unseen \in BOOLEAN
    /\ spin \in [executed : Nat, skipped : Nat]

\* process_message resets the shared count of rotations.
Init ==
    /\ pc = "head"
    /\ iteration = 0 /\ iterationBudget = MaxIterations /\ totalToolCalls = 0
    /\ text = FALSE /\ toolCalls = <<>>
    /\ nextCall = 1 /\ attempt = 0
    /\ lastSignature = NoSig /\ repeatCount = 0 /\ consecutiveSkips = 0
    /\ repeatStop = FALSE /\ limitReached = FALSE /\ directResult = FALSE
    /\ asked = <<>> /\ tail = <<>>
    /\ rotations = 0
    /\ cancelled = FALSE /\ inbox = 0 /\ interjected = 0 /\ others = 0
    /\ ending = "none" /\ warning = "none"
    /\ requests = 0 /\ rotated = 0 /\ absorbed = 0 /\ unseen = FALSE
    /\ spin = [executed |-> 0, skipped |-> 0]

-----------------------------------------------------------------------------
(***************************************************************************)
(* The end of the turn.                                                    *)
(***************************************************************************)

\* The budget counts as exhausted only when it has been exceeded.
LimitWarningStrict(stopped, limited) ==
    CASE stopped -> "repeats"
      [] ~stopped /\ limited -> "calls"
      [] ~stopped /\ ~limited /\ iteration > iterationBudget -> "iterations"
      [] OTHER -> "none"

\* _finalize_limits, for a limited budget.
LimitWarning(stopped, limited) ==
    CASE stopped -> "repeats"
      [] ~stopped /\ limited -> "calls"
      [] ~stopped /\ ~limited /\ iteration >= iterationBudget -> "iterations"
      [] OTHER -> "none"

\* Out of the while loop: through _finalize_limits to the end.
Finish(how, stopped, limited) ==
    /\ pc' = "done" /\ ending' = how
    /\ warning' = LimitWarning(stopped, limited)

\* abort, or an exception out of the generator: no notice is appended.
Abort(how) == pc' = "done" /\ ending' = how /\ UNCHANGED warning

-----------------------------------------------------------------------------
(***************************************************************************)
(* process_message and _consume_model_stream.                              *)
(***************************************************************************)

BudgetSpent ==
    /\ pc = "head" /\ iteration >= iterationBudget
    /\ Finish("cut", repeatStop, limitReached)
    /\ UNCHANGED <<counters, response, batch, fuse, flags, context, rotations, env, tally,
                   spin>>

NextIteration ==
    /\ pc = "head" /\ iteration < iterationBudget
    /\ iteration' = iteration + 1
    /\ UNCHANGED <<iterationBudget, totalToolCalls, batch, fuse, flags, context, rotations,
                   env, rotated, absorbed, spin>>
    /\ IF cancelled
       THEN Abort("cancelled") /\ UNCHANGED <<response, requests, unseen>>
       ELSE /\ pc' = "stream"
            /\ text' = FALSE /\ toolCalls' = <<>>
            /\ requests' = requests + 1 /\ unseen' = FALSE
            /\ UNCHANGED outcome

StreamText ==
    /\ pc = "stream" /\ ~text
    /\ text' = TRUE
    /\ UNCHANGED <<control, toolCalls, batch, fuse, flags, context, rotations, env,
                   history>>

\* Calls are kept as they come, the repeated ones too.
CollectEvery(call) == toolCalls' = Append(toolCalls, call)

\* _execute_tool_batch drops the calls whose id came before in the buffer, and keeps those
\* without one.  Nothing reads the buffer until then: here they are dropped as they come.
Collect(call) ==
    toolCalls' = IF call.id # NoId /\ \E i \in DOMAIN toolCalls : toolCalls[i].id = call.id
                 THEN toolCalls
                 ELSE Append(toolCalls, call)

StreamToolCall ==
    /\ pc = "stream" /\ Len(toolCalls) < MaxCalls
    /\ \E call \in Calls : Collect(call)
    /\ UNCHANGED <<control, text, batch, fuse, flags, context, rotations, env, history>>

\* The keys are changed for as long as there is another one.
RotateForEver ==
    /\ pc = "stream"
    /\ rotations' = rotations + 1 /\ rotated' = rotated + 1
    /\ iteration' = iteration - 1
    /\ pc' = IF text THEN "drained" ELSE "head"
    /\ UNCHANGED <<iterationBudget, totalToolCalls, response, batch, fuse, flags, context,
                   env, outcome, requests, absorbed, unseen, spin>>

\* _try_key_rotation, for an error that concerns the key while another key is left.
KeysLeft == rotations < MaxRotations

\* Such an error: the iteration is given back; the request is repeated, unless part of
\* the answer is out already: then the rest of the stream is read, which the providers
\* end with the error.
RotateKey ==
    /\ pc = "stream" /\ KeysLeft
    /\ rotations' = rotations + 1 /\ rotated' = rotated + 1
    /\ iteration' = iteration - 1
    /\ pc' = IF text THEN "drained" ELSE "head"
    /\ UNCHANGED <<iterationBudget, totalToolCalls, response, batch, fuse, flags, context,
                   env, outcome, requests, absorbed, unseen, spin>>

\* Any other error, or no key left: its text is the answer.
StreamError ==
    /\ pc = "stream"
    /\ Abort("told")
    /\ UNCHANGED <<counters, response, batch, fuse, flags, context, rotations, env, tally,
                   spin>>

\* The stream ends without a tool call.
Answer ==
    /\ pc \in {"stream", "drained"} /\ toolCalls = <<>>
    /\ Finish("answered", repeatStop, limitReached)
    /\ UNCHANGED <<counters, response, batch, fuse, flags, context, rotations, env, tally,
                   spin>>

-----------------------------------------------------------------------------
(***************************************************************************)
(* _execute_tool_batch.                                                    *)
(***************************************************************************)
Slots == MaxIterations - totalToolCalls

\* The stream ends with tool calls and none is allowed any more.
RefuseBatch ==
    /\ pc \in {"stream", "drained"} /\ toolCalls # <<>> /\ Slots <= 0
    /\ limitReached' = TRUE
    /\ Finish("cut", repeatStop, TRUE)
    /\ UNCHANGED <<counters, response, batch, fuse, repeatStop, directResult, context,
                   rotations, env, tally, spin>>

\* The stream ends with tool calls: as many as are allowed become the batch and are
\* written into the context as the assistant's message.
BeginBatch ==
    /\ pc \in {"stream", "drained"} /\ toolCalls # <<>> /\ Slots > 0
    /\ toolCalls' = IF Len(toolCalls) > Slots THEN SubSeq(toolCalls, 1, Slots) ELSE toolCalls
    /\ asked' = [i \in 1 .. Len(toolCalls') |-> toolCalls'[i].id]
    /\ tail' = <<>>
    /\ nextCall' = 1 /\ pc' = "batch"
    /\ UNCHANGED <<counters, text, attempt, fuse, flags, rotations, env, history>>

\* No call of the batch will be executed any more.
BatchIsOver ==
    \/ nextCall > Len(toolCalls)
    \/ totalToolCalls >= MaxIterations
    \/ repeatStop
    \/ directResult

CancelledBetweenCalls ==
    /\ pc = "batch" /\ ~BatchIsOver /\ cancelled
    /\ Abort("cancelled")
    /\ UNCHANGED <<counters, response, batch, fuse, flags, context, rotations, env, tally,
                   spin>>

\* Up to the awaits of the event handler and the notification.
StartCall ==
    /\ pc = "batch" /\ ~BatchIsOver /\ ~cancelled
    /\ totalToolCalls' = totalToolCalls + 1
    /\ pc' = "announced"
    /\ UNCHANGED <<iteration, iterationBudget, response, batch, fuse, flags, context,
                   rotations, env, history>>

\* Every call that was not executed gets a result that says so.
WithPlaceholders(msgs) == msgs \o SubSeq(asked, nextCall, Len(asked))

\* _take_pending_message: the inbox is emptied into the context, after the results,
\* and the loop gets an iteration more.
TakePending ==
    /\ inbox' = 0
    /\ tail' = IF inbox > 0 THEN Append(WithPlaceholders(tail), User)
                            ELSE WithPlaceholders(tail)
    /\ absorbed' = absorbed + IF inbox > 0 THEN 1 ELSE 0
    /\ unseen' = (inbox > 0)
    /\ iterationBudget' = iterationBudget + IF inbox > 0 THEN 1 ELSE 0

\* The rest of the batch gets placeholders.  A workflow's result ends the loop;
\* otherwise the inbox is read, and the loop goes on -- or ends all the same, after
\* repeated calls.
EndBatch ==
    /\ pc = "batch" /\ BatchIsOver
    /\ UNCHANGED <<iteration, totalToolCalls, response, batch, fuse, flags, asked,
                   rotations, cancelled, interjected, others, requests, rotated, spin>>
    /\ IF directResult
       THEN /\ Finish("direct", repeatStop, limitReached)
            /\ tail' = WithPlaceholders(tail)
            /\ UNCHANGED <<iterationBudget, inbox, absorbed, unseen>>
       ELSE /\ TakePending
            /\ IF repeatStop
               THEN Finish("cut", repeatStop, limitReached)
               ELSE pc' = "head" /\ UNCHANGED outcome

-----------------------------------------------------------------------------
(***************************************************************************)
(* _run_single_tool.                                                       *)
(***************************************************************************)
Call == toolCalls[nextCall]
Repeats == IF lastSignature = Call.sig THEN repeatCount ELSE 0

\* The call in progress has its result in the context; on to the next one.
Answered == tail' = Append(tail, Call.id) /\ nextCall' = nextCall + 1

\* A skipped call makes room for the same call again.
SkipAndForget ==
    /\ pc = "announced" /\ Repeats >= MaxIdentical
    /\ lastSignature' = Call.sig /\ repeatCount' = 0
    /\ consecutiveSkips' = consecutiveSkips + 1
    /\ repeatStop' = (consecutiveSkips + 1 >= MaxSkips)
    /\ totalToolCalls' = totalToolCalls - 1
    /\ Answered /\ pc' = "batch"
    /\ spin' = [spin EXCEPT !.skipped = @ + 1]
    /\ UNCHANGED <<iteration, iterationBudget, response, attempt, limitReached,
                   directResult, asked, rotations, env, outcome, tally>>

\* The same call has succeeded often enough: its last result is given again, which
\* does not count as a call.  After a few of these the turn is stopped.
SkipRepeated ==
    /\ pc = "announced" /\ Repeats >= MaxIdentical
    /\ lastSignature' = Call.sig /\ repeatCount' = Repeats
    /\ consecutiveSkips' = consecutiveSkips + 1
    /\ repeatStop' = (consecutiveSkips + 1 >= MaxSkips)
    /\ totalToolCalls' = totalToolCalls - 1
    /\ Answered /\ pc' = "batch"
    /\ spin' = [spin EXCEPT !.skipped = @ + 1]
    /\ UNCHANGED <<iteration, iterationBudget, response, attempt, limitReached,
                   directResult, asked, rotations, env, outcome, tally>>

\* The registry looks at the token only when the first attempt is made.
TokenIgnoredOnRetry == cancelled /\ pc = "announced"

\* ToolRegistry.execute_outcome looks at the token before the body of each attempt.
TokenStopsAttempt == cancelled

\* Anything but a success, and not to be retried: the model gets the error.
Fails ==
    /\ repeatCount' = 0
    /\ Answered /\ pc' = "batch"
    /\ spin' = [executed |-> 0, skipped |-> 0]
    /\ UNCHANGED <<counters, response, flags, asked, rotations, env, outcome, tally>>

\* The first attempt; a cancelled one ends before the body.
Execute ==
    /\ pc = "announced" /\ Repeats < MaxIdentical
    /\ lastSignature' = Call.sig /\ consecutiveSkips' = 0 /\ attempt' = 1
    /\ IF TokenStopsAttempt
       THEN Fails
       ELSE /\ pc' = "body" /\ repeatCount' = Repeats
            /\ spin' = IF lastSignature = Call.sig THEN spin
                       ELSE [executed |-> 0, skipped |-> 0]
            /\ UNCHANGED <<counters, response, nextCall, flags, context, rotations, env,
                           outcome, tally>>

\* A workflow's result that is the answer is not written into the context.
Succeeds ==
    /\ pc = "body"
    /\ repeatCount' = repeatCount + 1
    /\ directResult' = (Call.sig \in Direct)
    /\ IF Call.sig \in Direct
       THEN nextCall' = nextCall + 1 /\ UNCHANGED tail
       ELSE Answered
    /\ pc' = "batch"
    /\ spin' = [spin EXCEPT !.executed = @ + 1]
    /\ UNCHANGED <<counters, response, attempt, lastSignature, consecutiveSkips, repeatStop,
                   limitReached, asked, rotations, env, outcome, tally>>

\* A failure known to be retryable and without effect, with attempts left.
FailsSafely ==
    /\ pc = "body" /\ attempt < MaxRetries
    /\ pc' = "pausing"
    /\ UNCHANGED <<counters, response, batch, fuse, flags, context, rotations, env,
                   history>>

\* Any other failure, the time limit (the registry turns the cancellation into an
\* unknown outcome), an exception -- and a cancellation of the loop's own task, which
\* the registry takes for that of the body.
FailsForGood ==
    /\ pc = "body"
    /\ Fails
    /\ UNCHANGED <<attempt, lastSignature, consecutiveSkips>>

\* A stopped turn makes no retry, and nothing instead.
RetryUnlessStopped ==
    /\ pc = "pausing" /\ ~cancelled
    /\ attempt' = attempt + 1
    /\ pc' = "body"
    /\ UNCHANGED <<counters, response, nextCall, fuse, flags, context, rotations, env,
                   history>>

Retry ==
    /\ pc = "pausing"
    /\ attempt' = attempt + 1
    /\ UNCHANGED <<lastSignature, consecutiveSkips>>
    /\ IF TokenStopsAttempt
       THEN Fails
       ELSE /\ pc' = "body"
            /\ UNCHANGED <<counters, response, nextCall, repeatCount, flags, context,
                           rotations, env, history>>

-----------------------------------------------------------------------------
(***************************************************************************)
(* What happens around the loop.                                           *)
(***************************************************************************)

\* task.cancel() at an await outside the body: the generator ends.
TaskCancelled ==
    /\ pc \in {"stream", "drained", "announced", "pausing"}
    /\ Abort("interrupted")
    /\ UNCHANGED <<counters, response, batch, fuse, flags, context, rotations, env, tally,
                   spin>>

UserStops ==
    /\ pc # "done" /\ ~cancelled
    /\ cancelled' = TRUE
    /\ UNCHANGED <<control, response, batch, fuse, flags, context, rotations, inbox,
                   interjected, others, history>>

UserInterjects ==
    /\ pc # "done" /\ interjected < MaxInterjections
    /\ inbox' = inbox + 1 /\ interjected' = interjected + 1
    /\ UNCHANGED <<control, response, batch, fuse, flags, context, rotations, cancelled,
                   others, history>>

\* Another session's turn starts on the same AgentLoop: process_message resets the count.
OtherTurnStarts ==
    /\ pc # "done" /\ others < MaxOthers
    /\ others' = others + 1 /\ rotations' = 0
    /\ UNCHANGED <<control, response, batch, fuse, flags, context, cancelled, inbox,
                   interjected, history>>

OtherTurnRotates ==
    /\ pc # "done" /\ others > 0 /\ KeysLeft
    /\ rotations' = rotations + 1
    /\ UNCHANGED <<control, response, batch, fuse, flags, context, env, history>>

-----------------------------------------------------------------------------
LoopStep ==
    \/ BudgetSpent \/ NextIteration
    \/ StreamText \/ StreamToolCall \/ RotateKey \/ StreamError \/ Answer
    \/ RefuseBatch \/ BeginBatch \/ CancelledBetweenCalls \/ StartCall \/ EndBatch
    \/ SkipRepeated \/ Execute \/ Succeeds \/ FailsSafely \/ FailsForGood \/ Retry

Around ==
    TaskCancelled \/ UserStops \/ UserInterjects \/ OtherTurnStarts \/ OtherTurnRotates

Ended == pc = "done" /\ UNCHANGED vars

Next == LoopStep \/ Around \/ Ended

Spec == Init /\ [][Next]_vars

\* The model's stream ends (the providers have time limits), and so does a body.
FairSpec == Spec /\ WF_vars(LoopStep)

-----------------------------------------------------------------------------
(***************************************************************************)
(* Properties.                                                             *)
(***************************************************************************)
\* Providers refuse a context in which a tool call has no result, two, or results of
\* others between them: whatever the model is sent, every call of the assistant's last
\* message is followed, in order, by its only result, and user messages come after.  Only
\* calls without an id may share it (loop.py:687).
EveryRequestIsPaired ==
    pc \in {"head", "stream"} =>
        /\ Len(asked) <= Len(tail)
        /\ \A i \in DOMAIN tail : tail[i] = IF i <= Len(asked) THEN asked[i] ELSE User
        /\ \A i, j \in DOMAIN asked : asked[i] = asked[j] => i = j \/ asked[i] = NoId

\* Iterations are given back for rotated keys and added for interjections, and the
\* counter of rotations is shared: the turn still makes no more requests than its
\* budget, the interjections it took and its rotations pay for, and the rotations are
\* limited by the number of turns that started meanwhile.
RequestsArePaidFor ==
    /\ requests <= MaxIterations + absorbed + rotated
    /\ rotated <= MaxRotations * (1 + others)
    /\ totalToolCalls <= MaxIterations

\* However the model spreads them over batches, calls of one fingerprint that follow
\* each other are executed successfully MaxIdentical times at most, and are cut off
\* after MaxSkips more.
RepeatsAreCutOff ==
    /\ spin.executed <= MaxIdentical
    /\ spin.skipped <= MaxSkips
    /\ spin.skipped = MaxSkips => pc \in {"batch", "done"} /\ ending \in {"none", "cut"}

\* No body is started after the user has stopped the turn, not by a call that was
\* already announced nor by a retry that was already due.
NoBodyAfterStop == [][pc' = "body" /\ pc # "body" => ~cancelled]_vars

\* A turn that a limit ended, not the model, says so.
CutOffIsTold == ending = "cut" => warning # "none"

\* Whatever the model calls or repeats, and however keys, interjections and other
\* turns extend it, the turn ends.
TurnEnds == <>(pc = "done")

\* The comment on the extra iteration: an interjection that was taken is answered
\* within the turn, not dropped.
InterjectionIsAnswered == ending \in {"answered", "direct", "cut"} => ~unseen
=============================================================================
