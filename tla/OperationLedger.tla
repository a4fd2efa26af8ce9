--------------------------- MODULE OperationLedger ---------------------------
(***************************************************************************)
(* backend/modules/tools/execution.py and ToolRegistry.execute_outcome:    *)
(* every call of a tool is an operation with an identity, executed in one  *)
(* or more attempts.  The ledger decides whether a call becomes an attempt *)
(* or is answered from what is known of the operation, and forgets the     *)
(* operations that finished longest ago.                                   *)
(*                                                                         *)
(* execute_outcome awaits nothing but the body of the tool, so a call is   *)
(* two steps: up to the body, and from its end.  An attempt is PENDING     *)
(* only within the first.                                                  *)
(***************************************************************************)
EXTENDS Naturals, FiniteSets, Queues

CONSTANTS Ops,            \* operation ids
          Invocations,    \* a tool with its arguments (its fingerprint)
          Callers,        \* tasks that call execute_outcome
          NoOp,
          MaxCompleted,   \* max_completed_operations
          MaxAttempts     \* bound on the attempts of an operation (checking only)

ASSUME LedgerAssumption ==
    /\ MaxCompleted \in Nat
    /\ MaxAttempts \in Nat
    /\ NoOp \notin Ops

VARIABLES attempts,    \* operation -> its attempts, oldest first
          completed,   \* _completed_operation_ids, oldest first
          body         \* caller -> the operation whose body it awaits, or NoOp

vars == <<attempts, completed, body>>

Terminal == {"SUCCEEDED", "FAILED", "CANCELLED", "UNKNOWN_OUTCOME"}

Attempts == [inv : Invocations, state : Terminal \union {"RUNNING"},
             proven : BOOLEAN]    \* proven_safe_idempotency of its request

TypeOK ==
    /\ attempts \in [Ops -> Seq(Attempts)]
    /\ completed \in Seq(Ops)
    /\ body \in [Callers -> Ops \union {NoOp}]

Init ==
    /\ attempts = [op \in Ops |-> <<>>]
    /\ completed = <<>>
    /\ body = [c \in Callers |-> NoOp]

Latest(op) == attempts[op][Len(attempts[op])]
Known(op) == attempts[op] # <<>>
InFlight(op) == Known(op) /\ Latest(op).state \notin Terminal
Finished(op) == Known(op) /\ Latest(op).state \in Terminal

-----------------------------------------------------------------------------
\* A mismatched operation id is noticed only while the operation is in flight.
MatchesWhileInFlight(op, inv) == InFlight(op) => attempts[op][1].inv = inv

\* matches_logical_invocation
Matches(op, inv) == Known(op) => attempts[op][1].inv = inv

\* An uncertain outcome is retried like a failure.
NotReplayedIfAuthorized(op, authorized, proven) ==
    Finished(op) => Latest(op).state # "SUCCEEDED" /\ authorized

\* The authorization of the caller is enough.
NotReplayedOnRequest(op, authorized, proven) == Finished(op) => authorized

\* A finished operation is answered with its outcome, unless the caller may retry it.
NotReplayed(op, authorized, proven) ==
    Finished(op) => /\ Latest(op).state # "SUCCEEDED"
                    /\ authorized
                    /\ Latest(op).state = "UNKNOWN_OUTCOME" => proven

\* A call made while the operation is in progress becomes a second attempt.
AdmittedWhileInFlight(op, inv, authorized, proven) ==
    /\ Matches(op, inv)
    /\ NotReplayed(op, authorized, proven)

\* The call becomes an attempt.
Admitted(op, inv, authorized, proven) ==
    /\ Matches(op, inv)
    /\ NotReplayed(op, authorized, proven)
    /\ ~InFlight(op)

\* _remember_completed_operation: op becomes the most recent; the oldest one goes
\* if there are too many (there is never more than one too many).
Touch(op) ==
    Append(IF Occurs(op, completed) THEN Without(completed, op) ELSE completed, op)

Remember(op) == IF Len(Touch(op)) > MaxCompleted THEN Tail(Touch(op)) ELSE Touch(op)

Forgotten(op) == IF Len(Touch(op)) > MaxCompleted THEN {Head(Touch(op))} ELSE {}

\* finalize: the attempts of op are now as, the last of them with its outcome.
Finalize(op, as) ==
    /\ completed' = Remember(op)
    /\ attempts' = [o \in Ops |-> IF o \in Forgotten(op) THEN <<>>
                                  ELSE IF o = op THEN as ELSE attempts[o]]

\* The body is entered without start().
NotStarted(inv, state, proven) ==
    [inv |-> inv, state |-> IF state = "RUNNING" THEN "PENDING" ELSE state, proven |-> proven]

NewAttempt(inv, state, proven) == [inv |-> inv, state |-> state, proven |-> proven]

\* An attempt that ends before the body: cancelled, or arguments that are not valid.
RejectBeforeBody(c, op, inv, authorized, proven, r) ==
    /\ body[c] = NoOp
    /\ Admitted(op, inv, authorized, proven)
    /\ Finalize(op, Append(attempts[op], NewAttempt(inv, r, proven)))
    /\ UNCHANGED body

\* The retried operation stays among the completed ones.
KeepCompleted(op) == completed' = completed

\* create_attempt takes the operation out of the completed ones.
TakeFromCompleted(op) ==
    completed' = IF Occurs(op, completed) THEN Without(completed, op) ELSE completed

\* A retry starts the finished attempt again.
Restart(c, op, inv, authorized, proven) ==
    /\ body[c] = NoOp
    /\ Admitted(op, inv, authorized, proven)
    /\ attempts' = [attempts EXCEPT ![op] =
          IF Finished(op) THEN [@ EXCEPT ![Len(@)].state = "RUNNING"]
          ELSE Append(@, NewAttempt(inv, "RUNNING", proven))]
    /\ TakeFromCompleted(op)
    /\ body' = [body EXCEPT ![c] = op]

Start(c, op, inv, authorized, proven) ==
    /\ body[c] = NoOp
    /\ Admitted(op, inv, authorized, proven)
    /\ attempts' = [attempts EXCEPT ![op] = Append(@, NewAttempt(inv, "RUNNING", proven))]
    /\ TakeFromCompleted(op)
    /\ body' = [body EXCEPT ![c] = op]

\* A cancelled call leaves without finalizing its attempt.
ReturnUnlessCancelled(c, r) ==
    /\ body[c] # NoOp
    /\ \/ /\ r # "UNKNOWN_OUTCOME"
          /\ Finalize(body[c], [attempts[body[c]] EXCEPT ![Len(attempts[body[c]])].state = r])
       \/ r = "UNKNOWN_OUTCOME" /\ UNCHANGED <<attempts, completed>>
    /\ body' = [body EXCEPT ![c] = NoOp]

\* The body returns, raises, or is cancelled (an outcome that is not known).
Return(c, r) ==
    /\ body[c] # NoOp
    /\ Finalize(body[c], [attempts[body[c]] EXCEPT ![Len(attempts[body[c]])].state = r])
    /\ body' = [body EXCEPT ![c] = NoOp]

-----------------------------------------------------------------------------
\* An identity conflict, the outcome again, or "in progress": nothing is recorded.
Answered(c, op, inv, authorized, proven) ==
    /\ body[c] = NoOp
    /\ ~Admitted(op, inv, authorized, proven)
    /\ UNCHANGED vars

Call(c) ==
    \E op \in Ops, inv \in Invocations, authorized, proven \in BOOLEAN :
        \/ /\ Len(attempts[op]) < MaxAttempts
           /\ \/ Start(c, op, inv, authorized, proven)
              \/ \E r \in {"FAILED", "CANCELLED"} : RejectBeforeBody(c, op, inv, authorized, proven, r)
        \/ Answered(c, op, inv, authorized, proven)

Next == \E c \in Callers : Call(c) \/ \E r \in Terminal : Return(c, r)

Spec == Init /\ [][Next]_vars

\* The body of a tool ends: the agent loop puts a time limit on it (loop.py:955), or
\* the tool has one of its own.
FairSpec == Spec /\ \A c \in Callers : WF_vars(\E r \in Terminal : Return(c, r))

-----------------------------------------------------------------------------
(***************************************************************************)
(* Properties                                                              *)
(***************************************************************************)

\* An operation is executed by at most one body at a time, and every attempt in
\* flight has a caller that will finalize it: otherwise each later call would be told
\* for ever that the operation is in progress.  It is the latest of its operation and
\* has not been forgotten, so finalize finds it.
OneBodyPerOperation ==
    \A op \in Ops :
        /\ \A i \in 1 .. Len(attempts[op]) - 1 : attempts[op][i].state \in Terminal
        /\ InFlight(op) <=> \E c \in Callers : body[c] = op
        /\ \A c, d \in Callers : body[c] = op /\ body[d] = op => c = d

\* The operations that may be forgotten are exactly those that have finished, each
\* listed once, and there are never more than the retention limit.
OnlyFinishedAreForgotten ==
    /\ \A op \in Ops : Occurs(op, completed) <=> Finished(op)
    /\ Distinct(completed)
    /\ Len(completed) <= MaxCompleted

\* What was done is not done again: nothing follows a success, nor an outcome that is
\* not known unless the caller vouched that repeating it is safe.
NoUnsafeRepeat ==
    \A op \in Ops : \A i \in 1 .. Len(attempts[op]) - 1 :
        /\ attempts[op][i].state # "SUCCEEDED"
        /\ attempts[op][i].state = "UNKNOWN_OUTCOME" => attempts[op][i + 1].proven

\* An operation id stands for one invocation as long as it is remembered.
OneInvocation ==
    \A op \in Ops : \A i \in 1 .. Len(attempts[op]) : attempts[op][i].inv = attempts[op][1].inv

\* An outcome is never revised; it can only be forgotten, with its operation.
OutcomesAreFinal ==
    [][\A op \in Ops :
          \/ attempts'[op] = <<>>
          \/ \A i \in 1 .. Len(attempts[op]) :
                attempts[op][i].state \in Terminal => attempts'[op][i] = attempts[op][i]]_vars

\* The ledger implements AtMostOnce: the status of an operation is its latest state.
Once == INSTANCE AtMostOnce WITH
            status <- [op \in Ops |-> IF Known(op) THEN Latest(op).state ELSE "new"]

ExecutedAtMostOnce == Once!Spec

\* An operation in progress comes to an outcome: a later call is not told "in progress"
\* for ever.
ExecutionsEnd == \A op \in Ops : InFlight(op) ~> ~InFlight(op)
=============================================================================
