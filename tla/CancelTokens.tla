---------------------------- MODULE CancelTokens ----------------------------
(***************************************************************************)
(* The cancel token of one session (backend/ws/connection.py) and the      *)
(* turns that use it: messages and tool calls of WebSocket connections     *)
(* (backend/ws/events.py) and HTTP streams (backend/api/chat/stream.py).   *)
(*                                                                         *)
(* A turn takes the session's token, or makes one; a stop cancels the one  *)
(* that is registered.  When the last connection of the session goes, a    *)
(* delayed cancellation is started, which a connection made in time        *)
(* cancels.  A token and its SessionTask are made and removed together,    *)
(* so that the token stands for the task_id.                               *)
(*                                                                         *)
(* The turn gate is abstract here (one message at a time), see             *)
(* SessionTurnGate.  Every action is one stretch between two awaits.       *)
(* Faulty variants stand before the definitions they replace.              *)
(***************************************************************************)
EXTENDS Integers, FiniteSets

CONSTANTS Conns,
          Messages, Streams, ToolCalls,  \* the turns, by the way they come in
          NoConn, Nil,
          MaxTokens,                     \* bound on the tokens made (checking only)
          MaxDelays                      \* bound on delayed cancellations (checking only)

Turns == Messages \union Streams \union ToolCalls
Tokens == 1 .. MaxTokens
Delays == 1 .. MaxDelays

ASSUME TokensAssumption ==
    /\ Messages \intersect Streams = {} /\ Messages \intersect ToolCalls = {}
    /\ Streams \intersect ToolCalls = {}
    /\ IsFiniteSet(Conns) /\ NoConn \notin Conns /\ Nil \notin Nat
    /\ MaxTokens \in Nat /\ MaxDelays \in Nat

VARIABLES
    open,        \* connections whose event loop runs
    known,       \* _connections
    bound,       \* _session_connections[session]
    registered,  \* _session_cancel_tokens[session]
    count,       \* connection_count of the session's task
    tokens,      \* tokens made so far
    cancelled,   \* cancelled tokens
    at,          \* turn -> where it is
    conn,        \* turn -> the connection it came over
    token,       \* turn -> its cancel_token
    made,        \* turns that made their token (token_created)
    delays,      \* delayed cancellations started so far
    delayAt,     \* delay -> where it is
    delayFor,    \* delay -> the token it was started for
    pending      \* token -> _pending_cancellations

connVars == <<open, known, bound>>
tokenVars == <<registered, count, tokens, cancelled>>
turnVars == <<at, conn, token, made>>
delayVars == <<delays, delayAt, delayFor, pending>>
vars == <<connVars, tokenVars, turnVars, delayVars>>

TurnAt == {"idle", "preparing", "waiting", "running", "over"}

TypeOK ==
    /\ open \subseteq Conns /\ known \subseteq Conns /\ bound \subseteq Conns
    /\ registered \in Tokens \union {Nil}
    /\ count \in Nat
    /\ tokens \in 0 .. MaxTokens /\ cancelled \subseteq Tokens
    /\ at \in [Turns -> TurnAt]
    /\ conn \in [Turns -> Conns \union {NoConn}]
    /\ token \in [Turns -> Tokens \union {Nil}]
    /\ made \subseteq Turns
    /\ delays \in 0 .. MaxDelays
    /\ delayAt \in [Delays -> {"none", "new", "sleeping", "interrupted", "done"}]
    /\ delayFor \in [Delays -> Tokens \union {Nil}]
    /\ pending \in [Tokens -> Delays \union {Nil}]

Init ==
    /\ open = Conns /\ known = Conns /\ bound = {}
    /\ registered = Nil /\ count = 0 /\ tokens = 0 /\ cancelled = {}
    /\ at = [t \in Turns |-> "idle"]
    /\ conn = [t \in Turns |-> NoConn]
    /\ token = [t \in Turns |-> Nil]
    /\ made = {}
    /\ delays = 0
    /\ delayAt = [d \in Delays |-> "none"]
    /\ delayFor = [d \in Delays |-> Nil]
    /\ pending = [k \in Tokens |-> Nil]

Live(t) == at[t] \notin {"idle", "over"}

\* A connection's event loop handles one event after another.
Free(c) == c \in open /\ \A t \in Turns : conn[t] = c => ~Live(t)

-----------------------------------------------------------------------------
(***************************************************************************)
(* Delayed cancellations.                                                  *)
(***************************************************************************)

\* Task.cancel: a task that has not begun never runs.
Cancelling(d) == IF delayAt[d] = "new" THEN "done" ELSE "interrupted"

\* bind_session, with cancel_delayed_cancellation: the count is the task's, if there is one.
CountAfterBind(c) == IF c \in bound \/ registered = Nil THEN count ELSE count + 1

Interrupts(c) ==
    LET d == IF registered = Nil THEN Nil ELSE pending[registered]
    IN  IF c \in bound \/ d = Nil
        THEN UNCHANGED delayVars
        ELSE /\ delayAt' = [delayAt EXCEPT ![d] = Cancelling(d)]
             /\ pending' = [pending EXCEPT ![registered] = Nil]
             /\ UNCHANGED <<delays, delayFor>>

\* schedule_delayed_cancellation.
Schedules ==
    LET d == delays + 1
        earlier == pending[registered]
        stopped == IF earlier = Nil THEN delayAt
                   ELSE [delayAt EXCEPT ![earlier] = Cancelling(earlier)]
    IN  /\ delays < MaxDelays
        /\ delays' = d
        /\ delayAt' = [stopped EXCEPT ![d] = "new"]
        /\ delayFor' = [delayFor EXCEPT ![d] = registered]
        /\ pending' = [pending EXCEPT ![registered] = d]

DelayBegins(d) ==
    /\ delayAt[d] = "new"
    /\ delayAt' = [delayAt EXCEPT ![d] = "sleeping"]
    /\ UNCHANGED <<connVars, tokenVars, turnVars, delays, delayFor, pending>>

\* The finally clause removes the entry of the key, whosever it is.
DelayEnds(d) ==
    /\ delayAt' = [delayAt EXCEPT ![d] = "done"]
    /\ pending' = [pending EXCEPT ![delayFor[d]] = Nil]
    /\ UNCHANGED <<delays, delayFor>>

\* The cancellation when it fires does not look at the count.
FiresUncounted(d) ==
    /\ delayAt[d] = "sleeping"
    /\ cancelled' = IF registered = delayFor[d] THEN cancelled \union {registered}
                    ELSE cancelled
    /\ DelayEnds(d)
    /\ UNCHANGED <<connVars, registered, count, tokens, turnVars>>

\* It does not look whether the task is still the one it was started for.
FiresAtTheNext(d) ==
    /\ delayAt[d] = "sleeping"
    /\ cancelled' = IF registered # Nil /\ count = 0 THEN cancelled \union {registered}
                    ELSE cancelled
    /\ DelayEnds(d)
    /\ UNCHANGED <<connVars, registered, count, tokens, turnVars>>

Fires(d) ==
    /\ delayAt[d] = "sleeping"
    /\ cancelled' = IF registered = delayFor[d] /\ count = 0
                    THEN cancelled \union {registered} ELSE cancelled
    /\ DelayEnds(d)
    /\ UNCHANGED <<connVars, registered, count, tokens, turnVars>>

Interrupted(d) ==
    /\ delayAt[d] = "interrupted"
    /\ DelayEnds(d)
    /\ UNCHANGED <<connVars, tokenVars, turnVars>>

-----------------------------------------------------------------------------
(***************************************************************************)
(* Connections.                                                            *)
(***************************************************************************)
Subscribe(c) ==
    /\ Free(c) /\ c \notin bound
    /\ bound' = bound \union {c}
    /\ count' = CountAfterBind(c)
    /\ Interrupts(c)
    /\ UNCHANGED <<open, known, registered, tokens, cancelled, turnVars>>

\* Connections that were bound before there was a task are not in its count.
DecrementedBelow == count - 1

Decremented == IF count = 0 THEN 0 ELSE count - 1

\* ConnectionManager.disconnect.
Disconnect(c) ==
    /\ known' = known \ {c}
    /\ bound' = bound \ {c}
    /\ IF c \in bound /\ registered # Nil
       THEN /\ count' = Decremented
            /\ IF bound = {c} /\ Decremented = 0 THEN Schedules ELSE UNCHANGED delayVars
       ELSE UNCHANGED <<count, delayVars>>
    /\ UNCHANGED <<registered, tokens, cancelled, turnVars>>

\* A send fails; the event loop may be busy with a turn and goes on.
SendFails(c) ==
    /\ c \in known /\ c \in bound
    /\ Disconnect(c)
    /\ UNCHANGED open

Closes(c) ==
    /\ Free(c)
    /\ open' = open \ {c}
    /\ Disconnect(c)

-----------------------------------------------------------------------------
(***************************************************************************)
(* Turns.                                                                  *)
(***************************************************************************)

\* acquire_cancel_token: a cancelled token is replaced, with its task.
Reusable == registered # Nil /\ registered \notin cancelled

TakesToken(t, counted) ==
    \/ /\ Reusable
       /\ token' = [token EXCEPT ![t] = registered]
       /\ count' = counted
       /\ UNCHANGED <<registered, tokens, cancelled, made>>
    \/ /\ ~Reusable /\ tokens < MaxTokens
       /\ tokens' = tokens + 1
       /\ registered' = tokens + 1
       /\ count' = 0
       /\ token' = [token EXCEPT ![t] = tokens + 1]
       /\ made' = made \union {t}
       /\ UNCHANGED cancelled

Move(t, l) == at' = [at EXCEPT ![t] = l]

\* cleanup_cancel_token(session_id, token).
CleansUp(t) ==
    IF registered = token[t]
    THEN registered' = Nil /\ count' = 0
    ELSE UNCHANGED <<registered, count>>

\* handle_message_event binds the connection and takes a token.
Message(t, c) ==
    /\ t \in Messages /\ at[t] = "idle" /\ Free(c)
    /\ bound' = bound \union {c}
    /\ Interrupts(c)
    /\ TakesToken(t, CountAfterBind(c))
    /\ Move(t, "preparing")
    /\ conn' = [conn EXCEPT ![t] = c]
    /\ UNCHANGED <<open, known>>

\* event_stream; handle_tool_execution, which binds nothing and needs no turn.
Stream(t) ==
    /\ t \in Streams /\ at[t] = "idle"
    /\ TakesToken(t, count)
    /\ Move(t, "waiting")
    /\ UNCHANGED <<connVars, conn, delayVars>>

ToolCall(t, c) ==
    /\ t \in ToolCalls /\ at[t] = "idle" /\ Free(c)
    /\ TakesToken(t, count)
    /\ Move(t, "running")
    /\ conn' = [conn EXCEPT ![t] = c]
    /\ UNCHANGED <<connVars, delayVars>>

\* Only the path that got a turn cleans up.
RefusedSilently(t) ==
    /\ at[t] = "preparing"
    /\ Move(t, "over")
    /\ UNCHANGED <<connVars, tokenVars, conn, token, made, delayVars>>

\* No such session, bad attachments, no provider.
Refused(t) ==
    /\ at[t] = "preparing"
    /\ Move(t, "over")
    /\ CleansUp(t)
    /\ UNCHANGED <<connVars, tokens, cancelled, conn, token, made, delayVars>>

Prepared(t) ==
    /\ at[t] = "preparing"
    /\ Move(t, "waiting")
    /\ UNCHANGED <<connVars, tokenVars, conn, token, made, delayVars>>

\* The gate lets one turn of the session in.
Runs(t) ==
    /\ at[t] = "waiting"
    /\ \A u \in Messages \union Streams : at[u] # "running"
    /\ Move(t, "running")
    /\ UNCHANGED <<connVars, tokenVars, conn, token, made, delayVars>>

\* A message cleans up its token whoever made it, the others the one they made.
Ends(t) ==
    /\ at[t] = "running"
    /\ Move(t, "over")
    /\ IF t \in Messages \/ t \in made THEN CleansUp(t) ELSE UNCHANGED <<registered, count>>
    /\ UNCHANGED <<connVars, tokens, cancelled, conn, token, made, delayVars>>

\* The client of a stream goes away: the generator is cancelled, and cancels the token.
StreamAborts(t) ==
    /\ t \in Streams /\ at[t] \in {"waiting", "running"}
    /\ Move(t, "over")
    /\ cancelled' = cancelled \union {token[t]}
    /\ IF t \in made THEN CleansUp(t) ELSE UNCHANGED <<registered, count>>
    /\ UNCHANGED <<connVars, tokens, conn, token, made, delayVars>>

\* The stop button: POST /api/queue/cancel.
CancelSession ==
    /\ Reusable
    /\ cancelled' = cancelled \union {registered}
    /\ UNCHANGED <<connVars, registered, count, tokens, turnVars, delayVars>>

-----------------------------------------------------------------------------
DelayMoves(d) == DelayBegins(d) \/ Fires(d) \/ Interrupted(d)

Next ==
    \/ \E d \in Delays : DelayMoves(d)
    \/ \E c \in Conns : Subscribe(c) \/ SendFails(c) \/ Closes(c)
    \/ \E t \in Turns, c \in Conns : Message(t, c) \/ ToolCall(t, c)
    \/ \E t \in Turns :
         Stream(t) \/ Refused(t) \/ Prepared(t) \/ Runs(t) \/ Ends(t) \/ StreamAborts(t)
    \/ CancelSession

Spec == Init /\ [][Next]_vars

\* Timers fire and cancelled tasks resume; nothing makes a turn end.
FairSpec == Spec /\ \A d \in Delays : WF_vars(DelayMoves(d))

-----------------------------------------------------------------------------
(***************************************************************************)
(* Properties.                                                             *)
(***************************************************************************)

FiresNow(d) == delayAt[d] = "sleeping" /\ delayAt'[d] = "done"

\* A delayed cancellation that a new connection failed to cancel, because an earlier one
\* removed its entry when it ended (connection.py:182-184), cancels nothing while a connection
\* of the session is there.
NoCancelWhileConnected ==
    [][\A d \in Delays : FiresNow(d) /\ bound # {} => cancelled' = cancelled]_vars

\* A delayed cancellation that outlives the turn it was started for leaves the token of
\* the turns after it alone (connection.py:165-169).
StaleDelaysAreHarmless ==
    [][\A d \in Delays : FiresNow(d) => cancelled' \ cancelled \subseteq {delayFor[d]}]_vars

\* A token is registered only as long as the turn that made it is there, whichever way
\* that turn ends (events.py:570-572, stream.py:386-388): otherwise a later turn would
\* take over a token, and a task, from a turn that is over.
NoStaleToken ==
    registered # Nil => \E t \in made : Live(t) /\ token[t] = registered

\* A message whose user has gone is called off, unless another turn that shared its token
\* has removed it (connection.py:334-350, 160-176).
AbandonedIsCancelled ==
    \A t \in Messages :
        (Live(t) /\ token[t] = registered /\ bound = {})
            ~> (token[t] \in cancelled \/ token[t] # registered \/ bound # {})

\* What the code does not do: the token of a turn that is being processed is the one a
\* stop cancels (connection.py:66, 116-119).  A turn that shares it, or the one that made it,
\* removes it when it ends.
RunningTurnCanBeStopped ==
    \A t \in Turns :
        at[t] = "running" /\ token[t] \notin cancelled => registered = token[t]
=============================================================================
