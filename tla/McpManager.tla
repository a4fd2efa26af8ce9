------------------------------ MODULE McpManager ------------------------------
(***************************************************************************)
(* backend/modules/mcp/manager.py: the connection to one MCP server.       *)
(*                                                                         *)
(* Every connection is opened, held and closed by a task of its own, the   *)
(* owner; _conn_tasks and _stop_events name the current owner and its stop *)
(* signal.  Callers (the API, the lazy connection of a status poll, the    *)
(* health check) start, stop and reconnect the server; an operation lock   *)
(* covers their decisions and the whole of a stop, not the wait for a      *)
(* connection.  An owner that does not end within five seconds of its      *)
(* signal is cancelled, wherever it is.                                    *)
(*                                                                         *)
(* Each action is one stretch of a task between two awaits.  The transport *)
(* (connecting, listing, closing) is external: it may fail or take long.   *)
(* Faulty variants stand before the definitions they replace.              *)
(***************************************************************************)
EXTENDS Naturals, FiniteSets

CONSTANTS Callers,
          NoOwner, NoCaller,
          MaxAttempts,  \* _max_reconnect_attempts
          MaxOwners,    \* bound on the connections made (checking only)
          MaxOps        \* bound on the operations begun (checking only)

ASSUME McpAssumption ==
    /\ NoOwner \notin Nat /\ NoCaller \notin Callers
    /\ MaxAttempts \in Nat \ {0} /\ MaxOwners \in Nat /\ MaxOps \in Nat

Owners == 1 .. MaxOwners

VARIABLES
    \* owner tasks
    made,        \* owners created so far
    at,          \* owner -> where it is
    cancelling,  \* owners with a cancellation on its way
    ready,       \* owner -> what its future `ready` reports
    \* the manager
    connTask,    \* _conn_tasks[server]
    stopEvent,   \* _stop_events[server]: whose event it is
    stopSet,     \* owners whose event is set
    tool,        \* the manager's registry: through whose session the server's tools go
    wrapped,     \* _tool_wrappers has them: what the sessions' registries are given
    manual,      \* the server is in _manually_stopped
    configured,  \* it is in _server_configs
    connected, connecting,
    lock,        \* holder of _operation_lock
    \* callers
    op, pc, target, tries, ops,
    overlapped   \* history: a caller started or stopped the server inside another one's stop

ownerVars == <<made, at, cancelling, ready>>
registry == <<tool, wrapped>>
tables == <<connTask, stopEvent, stopSet, registry>>
flags == <<manual, configured, connected, connecting>>
callerVars == <<op, pc, target, tries, ops>>
vars == <<ownerVars, tables, flags, lock, callerVars, overlapped>>

(***************************************************************************)
(* Owners: "opening" and "listing" are in connect_mcp_server, before and   *)
(* after the tools are registered; "closing" is in _safe_aclose.           *)
(***************************************************************************)
OwnerAt == {"none", "new", "opening", "listing", "holding", "closing", "ended"}

\* "entering": waits for the operation lock; "calling": about to call _start_connection;
\* "stopping", "killing": in _stop_connection, before and after the cancellation;
\* "awaiting": awaits ready, or resumes from it; "unwinding", "clearing": disconnect_server after
\* its stop, disconnect before it, await the health check that they cancelled.
PCs == {"idle", "entering", "calling", "stopping", "killing", "awaiting", "unwinding", "clearing"}
Operations == {"none", "start", "stop", "reconnect", "all", "lazy", "connect", "reset"}

TypeOK ==
    /\ made \in 0 .. MaxOwners
    /\ at \in [Owners -> OwnerAt]
    /\ cancelling \subseteq Owners
    /\ ready \in [Owners -> {"pending", "yes", "no"}]
    /\ stopSet \subseteq Owners
    /\ connTask \in Owners \union {NoOwner} /\ stopEvent \in Owners \union {NoOwner}
    /\ tool \in Owners \union {NoOwner}
    /\ wrapped \in BOOLEAN /\ manual \in BOOLEAN /\ configured \in BOOLEAN
    /\ connected \in BOOLEAN /\ connecting \in BOOLEAN /\ overlapped \in BOOLEAN
    /\ lock \in Callers \union {NoCaller}
    /\ op \in [Callers -> Operations] /\ pc \in [Callers -> PCs]
    /\ target \in [Callers -> Owners \union {NoOwner}]
    /\ tries \in [Callers -> Nat] /\ ops \in 0 .. MaxOps

Init ==
    /\ made = 0
    /\ at = [o \in Owners |-> "none"]
    /\ cancelling = {}
    /\ ready = [o \in Owners |-> "pending"]
    /\ stopSet = {}
    /\ connTask = NoOwner /\ stopEvent = NoOwner /\ tool = NoOwner /\ wrapped = FALSE
    /\ manual = FALSE /\ configured = FALSE /\ connected = FALSE /\ connecting = FALSE
    /\ lock = NoCaller
    /\ op = [c \in Callers |-> "none"] /\ pc = [c \in Callers |-> "idle"]
    /\ target = [c \in Callers |-> NoOwner]
    /\ tries = [c \in Callers |-> 0] /\ ops = 0
    /\ overlapped = FALSE

Goto(c, l) == pc' = [pc EXCEPT ![c] = l]
Move(o, l) == at' = [at EXCEPT ![o] = l]

-----------------------------------------------------------------------------
(***************************************************************************)
(* The owner task: _run_server_connection.                                 *)
(***************************************************************************)

\* Its stop event replaces whatever event the server has.
OwnerBegins(o) ==
    /\ at[o] = "new"
    /\ Move(o, "opening")
    /\ stopEvent' = o
    /\ UNCHANGED <<made, cancelling, ready, connTask, stopSet, registry, flags, lock,
                   callerVars, overlapped>>

\* The finally clause, once the stack is closed: the stop event is removed whosever it is,
\* the task only if it is this one.  No tool is unregistered: the owner looks for names with
\* the prefix mcp_<id>_, those that are registered begin with mcp__<id>__ (_qualify_name).
Leave(o) ==
    /\ Move(o, "ended")
    /\ stopEvent' = NoOwner
    /\ connTask' = IF connTask = o THEN NoOwner ELSE connTask
    /\ UNCHANGED <<stopSet, made, registry>>

\* connect_mcp_server registers the tools; names that are taken are skipped, and no wrapper
\* is kept for them.
Discovers(o) ==
    /\ at[o] = "opening" /\ o \notin cancelling
    /\ Move(o, "listing")
    /\ IF tool = NoOwner THEN tool' = o /\ wrapped' = TRUE ELSE UNCHANGED registry
    /\ UNCHANGED <<made, cancelling, ready, connTask, stopEvent, stopSet, flags, lock,
                   callerVars, overlapped>>

\* It returns the stack: the owner reports, and holds the connection.
Opens(o) ==
    /\ at[o] = "listing" /\ o \notin cancelling
    /\ Move(o, "holding")
    /\ ready' = [ready EXCEPT ![o] = "yes"]
    /\ UNCHANGED <<made, cancelling, connTask, stopEvent, stopSet, registry, flags,
                   lock, callerVars, overlapped>>

\* It returns None or raises, also when it has registered tools.
OpenFails(o) ==
    /\ at[o] \in {"opening", "listing"} /\ o \notin cancelling
    /\ ready' = [ready EXCEPT ![o] = "no"]
    /\ Leave(o)
    /\ UNCHANGED <<cancelling, flags, lock, callerVars, overlapped>>

StopArrives(o) ==
    /\ at[o] = "holding" /\ o \in stopSet
    /\ Move(o, "closing")
    /\ UNCHANGED <<made, cancelling, ready, tables, flags, lock, callerVars,
                   overlapped>>

\* The stack is closed, or closing it failed or took too long.
Closes(o) ==
    /\ at[o] = "closing" /\ o \notin cancelling
    /\ Leave(o)
    /\ UNCHANGED <<cancelling, ready, flags, lock, callerVars, overlapped>>

\* Cancelled before it has a stack: nothing is closed, and nothing is reported.
CancelledOpening(o) ==
    /\ at[o] \in {"opening", "listing"} /\ o \in cancelling
    /\ cancelling' = cancelling \ {o}
    /\ Leave(o)
    /\ UNCHANGED <<ready, flags, lock, callerVars, overlapped>>

CancelledHolding(o) ==
    /\ at[o] = "holding" /\ o \in cancelling
    /\ cancelling' = cancelling \ {o}
    /\ Move(o, "closing")
    /\ UNCHANGED <<made, ready, tables, flags, lock, callerVars, overlapped>>

\* The cancellation leaves the finally clause at its await: the rest of it is skipped.
CancelledClosing(o) ==
    /\ at[o] = "closing" /\ o \in cancelling
    /\ cancelling' = cancelling \ {o}
    /\ Move(o, "ended")
    /\ UNCHANGED <<made, ready, tables, flags, lock, callerVars, overlapped>>

-----------------------------------------------------------------------------
(***************************************************************************)
(* _stop_connection and _start_connection, within an operation.            *)
(***************************************************************************)
\* Callers that stop a connection; a disconnect_server until it returns.
Stopping == {c \in Callers : pc[c] \in {"stopping", "killing", "unwinding"}}

Signalled == IF stopEvent = NoOwner THEN stopSet ELSE stopSet \union {stopEvent}

\* Without a signal to set there is nothing to wait for.
WaitsIfSignalled == connTask # NoOwner /\ stopEvent # NoOwner /\ at[connTask] # "ended"

\* There is an owner that has to be waited for.
Waits == connTask # NoOwner /\ at[connTask] # "ended"

Crosses(c) == overlapped' = (overlapped \/ Stopping \ {c} # {})

\* The current signal is set, and the end of the current task waited for.
AwaitEnd(c) ==
    /\ Waits
    /\ stopSet' = Signalled
    /\ target' = [target EXCEPT ![c] = connTask]
    /\ Goto(c, "stopping")
    /\ Crosses(c)
    /\ UNCHANGED <<made, at, connTask, stopEvent>>

\* A new owner, whose report the caller awaits.
NewOwner(c) ==
    /\ made < MaxOwners
    /\ made' = made + 1
    /\ Move(made + 1, "new")
    /\ connTask' = made + 1
    /\ target' = [target EXCEPT ![c] = made + 1]
    /\ Goto(c, "awaiting")
    /\ Crosses(c)

\* The mark of a manual stop is kept.
StartsMarked(c) ==
    /\ UNCHANGED manual
    /\ \/ AwaitEnd(c)
       \/ ~Waits /\ connTask # NoOwner /\ NewOwner(c) /\ stopSet' = Signalled
          /\ stopEvent' = NoOwner
       \/ connTask = NoOwner /\ NewOwner(c) /\ UNCHANGED <<stopSet, stopEvent>>

\* _start_connection takes a manual stop back, and ends the connection there is.
StartConnection(c) ==
    /\ manual' = FALSE
    /\ \/ AwaitEnd(c)
       \/ ~Waits /\ connTask # NoOwner /\ NewOwner(c) /\ stopSet' = Signalled
          /\ stopEvent' = NoOwner
       \/ connTask = NoOwner /\ NewOwner(c) /\ UNCHANGED <<stopSet, stopEvent>>

StopNeverTimesOut(c) == FALSE /\ UNCHANGED vars

\* The owner has not reacted within five seconds, which are enough for a task to begin
\* or to resume from its event: it is cancelled.
StopTimesOut(c) ==
    /\ pc[c] = "stopping" /\ at[target[c]] \in {"opening", "listing", "holding", "closing"}
    /\ ~(at[target[c]] = "holding" /\ target[c] \in stopSet)
    /\ Goto(c, "killing")
    /\ cancelling' = cancelling \union {target[c]}
    /\ UNCHANGED <<made, at, ready, tables, flags, lock, op, target, tries, ops,
                   overlapped>>

\* The cancellation is not waited for.
StopIsImpatient(c) ==
    pc[c] = "killing" \/ (pc[c] = "stopping" /\ at[target[c]] = "ended")

\* The task waited for has ended.
StopIsOver(c) == pc[c] \in {"stopping", "killing"} /\ at[target[c]] = "ended"

\* In _start_connection: the connection there was is gone, the new one made at once.
Replaces(c) ==
    /\ StopIsOver(c) /\ op[c] \notin {"stop", "reset"}
    /\ stopEvent' = NoOwner
    /\ NewOwner(c)
    /\ UNCHANGED <<cancelling, ready, stopSet, registry, flags, lock, op, tries, ops>>

-----------------------------------------------------------------------------
(***************************************************************************)
(* The operations.  One that finds the lock free goes on in the same       *)
(* stretch; the lock is held across awaits by "stop" and "reset" only.     *)
(***************************************************************************)

\* What an operation asks before it takes the lock.
Allowed(o) ==
    /\ o = "lazy" => ~connected /\ ~connecting /\ configured /\ ~manual
    /\ o = "all" => connTask = NoOwner /\ ~manual

\* The API stores the server's configuration before it calls these.
Configures(o) == o \in {"start", "reconnect", "all"}

\* The operation begins, and has to wait for the lock.
Queues(c, o) ==
    /\ pc[c] = "idle" /\ ops < MaxOps /\ lock # NoCaller /\ Allowed(o)
    /\ ops' = ops + 1
    /\ op' = [op EXCEPT ![c] = o]
    /\ Goto(c, "entering")
    /\ configured' = (configured \/ Configures(o))
    /\ UNCHANGED <<ownerVars, tables, manual, connected, connecting, lock, target,
                   tries, overlapped>>

Enters(c, o) ==
    /\ lock = NoCaller
    /\ \/ pc[c] = "idle" /\ ops < MaxOps /\ Allowed(o) /\ ops' = ops + 1
       \/ pc[c] = "entering" /\ op[c] = o /\ UNCHANGED ops

Doing(c, o) == op' = [op EXCEPT ![c] = o]

Return(c) ==
    /\ op' = [op EXCEPT ![c] = "none"]
    /\ Goto(c, "idle")
    /\ target' = [target EXCEPT ![c] = NoOwner]
    /\ tries' = [tries EXCEPT ![c] = 0]

\* disconnect_server has stopped the connection.  It returns, or awaits the health check that it
\* cancels, with the lock.  Whether one runs is left open: connect starts one, start_server
\* does not, and it ends by itself.
Unlists(c) ==
    /\ connTask' = NoOwner /\ stopEvent' = NoOwner /\ connected' = FALSE
    /\ \/ Return(c) /\ lock' = NoCaller
       \/ connected /\ Goto(c, "unwinding") /\ Doing(c, "stop") /\ lock' = c
          /\ UNCHANGED <<target, tries>>
    /\ UNCHANGED <<registry, configured, connecting>>

\* disconnect clears everything; it unregisters the names that the owners noted, which are none.
Clears(c) ==
    /\ connTask' = NoOwner /\ stopEvent' = NoOwner /\ wrapped' = FALSE
    /\ manual' = FALSE /\ configured' = FALSE /\ connected' = FALSE /\ connecting' = FALSE
    /\ Return(c) /\ lock' = NoCaller
    /\ UNCHANGED tool

\* disconnect_server.
Stop(c) ==
    /\ Enters(c, "stop")
    /\ manual' = TRUE
    /\ \/ AwaitEnd(c) /\ Doing(c, "stop") /\ lock' = c
          /\ UNCHANGED <<registry, configured, connected, connecting, tries>>
       \/ ~Waits /\ Unlists(c) /\ stopSet' = Signalled /\ Crosses(c)
          /\ UNCHANGED <<at, made>>
    /\ UNCHANGED <<cancelling, ready>>

Stopped(c) ==
    /\ op[c] = "stop" /\ StopIsOver(c)
    /\ Unlists(c)
    /\ UNCHANGED <<ownerVars, stopSet, manual, ops, overlapped>>

\* The health check has ended: disconnect_server returns.
Unwinds(c) ==
    /\ pc[c] = "unwinding"
    /\ Return(c) /\ lock' = NoCaller
    /\ UNCHANGED <<ownerVars, tables, flags, ops, overlapped>>

\* _stop_connection of disconnect, if there is a connection.
StopsAll(c) ==
    \/ AwaitEnd(c) /\ Doing(c, "reset") /\ lock' = c /\ UNCHANGED <<registry, flags,
                                                                    tries>>
    \/ ~Waits /\ Clears(c) /\ stopSet' = (IF connTask = NoOwner THEN stopSet ELSE Signalled)
       /\ Crosses(c)
       /\ UNCHANGED <<at, made>>

\* disconnect, which awaits the end of the health check first, if there is one.
Reset(c) ==
    /\ Enters(c, "reset")
    /\ \/ StopsAll(c)
       \/ Goto(c, "clearing") /\ Doing(c, "reset") /\ lock' = c
          /\ UNCHANGED <<made, at, tables, flags, target, tries, overlapped>>
    /\ UNCHANGED <<cancelling, ready>>

ResetGoesOn(c) ==
    /\ pc[c] = "clearing"
    /\ StopsAll(c)
    /\ UNCHANGED <<cancelling, ready, ops>>

ResetDone(c) ==
    /\ op[c] = "reset" /\ StopIsOver(c)
    /\ Clears(c)
    /\ UNCHANGED <<ownerVars, stopSet, ops, overlapped>>

\* start_server and reconnect_server, until they call _start_connection or return: a
\* reset that had the lock may have removed the configuration.
Start(c, o) ==
    LET known == pc[c] = "idle" \/ configured
        goes == known /\ (o = "start" => connTask = NoOwner)
    IN  /\ o \in {"start", "reconnect", "all"}
        /\ Enters(c, o)
        /\ configured' = known
        /\ \/ goes /\ Doing(c, o) /\ StartConnection(c)
              /\ tries' = [tries EXCEPT ![c] = 1]
           \/ ~goes /\ Return(c)
              /\ UNCHANGED <<at, made, connTask, stopEvent, stopSet, manual,
                             overlapped>>
        /\ UNCHANGED <<cancelling, ready, registry, connected, connecting, lock>>

\* connect: its _start_connection runs in a task of gather's.
Connect(c, o) ==
    /\ o \in {"connect", "lazy"}
    /\ Enters(c, o)
    /\ \/ ~connected /\ ~connecting /\ Doing(c, o) /\ Goto(c, "calling")
          /\ connecting' = TRUE /\ configured' = TRUE /\ UNCHANGED <<target, tries>>
       \/ (connected \/ connecting) /\ Return(c) /\ UNCHANGED <<connecting,
                                                                configured>>
    /\ UNCHANGED <<ownerVars, tables, manual, connected, lock, overlapped>>

Calls(c) ==
    /\ pc[c] = "calling"
    /\ StartConnection(c)
    /\ UNCHANGED <<cancelling, ready, registry, configured, connected, connecting,
                   lock, op, tries, ops>>

Reported(c) == pc[c] = "awaiting" /\ ready[target[c]] # "pending"

\* start_server takes the lock again to note a success.
StartEnds(c) ==
    /\ op[c] = "start" /\ Reported(c)
    /\ ready[target[c]] = "yes" => lock = NoCaller
    /\ connected' = (connected \/ ready[target[c]] = "yes")
    /\ Return(c)
    /\ UNCHANGED <<ownerVars, tables, manual, configured, connecting, lock, ops,
                   overlapped>>

ReconnectEnds(c) ==
    /\ op[c] \in {"reconnect", "all"} /\ Reported(c)
    /\ ready[target[c]] = "yes" \/ tries[c] = MaxAttempts
    /\ Return(c)
    /\ UNCHANGED <<ownerVars, tables, flags, lock, ops, overlapped>>

BacksOff(c) ==
    /\ op[c] \in {"reconnect", "all"} /\ Reported(c)
    /\ ready[target[c]] = "no" /\ tries[c] < MaxAttempts
    /\ tries' = [tries EXCEPT ![c] = @ + 1]
    /\ Goto(c, "calling")
    /\ UNCHANGED <<ownerVars, tables, flags, lock, op, target, ops, overlapped>>

ConnectEnds(c) ==
    /\ op[c] \in {"connect", "lazy"} /\ Reported(c)
    /\ connected' = (connected \/ connTask # NoOwner)
    /\ connecting' = FALSE
    /\ Return(c)
    /\ UNCHANGED <<ownerVars, tables, manual, configured, lock, ops, overlapped>>

\* A health check sees that no connection is left.
HealthCheck ==
    /\ connected /\ connTask = NoOwner
    /\ connected' = FALSE
    /\ UNCHANGED <<ownerVars, tables, manual, configured, connecting, lock,
                   callerVars, overlapped>>

-----------------------------------------------------------------------------
\* What an owner does without the server's help: closing is bounded by _close_timeout.
OwnerMoves(o) ==
    \/ OwnerBegins(o) \/ StopArrives(o) \/ Closes(o)
    \/ CancelledOpening(o) \/ CancelledHolding(o) \/ CancelledClosing(o)

ServerMoves(o) == Discovers(o) \/ Opens(o) \/ OpenFails(o)

StopMoves(c) ==
    \/ StopTimesOut(c) \/ Replaces(c) \/ Stopped(c) \/ Unwinds(c) \/ ResetGoesOn(c) \/ ResetDone(c)

Begins(c) ==
    \/ \E o \in Operations \ {"none"} : Queues(c, o)
    \/ Stop(c) \/ Reset(c)
    \/ \E o \in {"start", "reconnect", "all"} : Start(c, o)
    \/ \E o \in {"connect", "lazy"} : Connect(c, o)

StartMoves(c) == Calls(c) \/ StartEnds(c) \/ ReconnectEnds(c) \/ BacksOff(c) \/ ConnectEnds(c)

Next ==
    \/ \E o \in Owners : OwnerMoves(o) \/ ServerMoves(o)
    \/ \E c \in Callers : Begins(c) \/ StopMoves(c) \/ StartMoves(c)
    \/ HealthCheck

Spec == Init /\ [][Next]_vars

\* asyncio runs what is ready, timers fire, and its lock is fair; a server need not
\* answer.
FairSpec ==
    /\ Spec
    /\ \A o \in Owners : WF_vars(OwnerMoves(o))
    /\ \A c \in Callers :
         /\ WF_vars(StopMoves(c)) /\ WF_vars(StartMoves(c))
         /\ SF_vars(pc[c] = "entering" /\ Begins(c))

-----------------------------------------------------------------------------
(***************************************************************************)
(* Properties.                                                             *)
(***************************************************************************)
Live(o) == at[o] \notin {"none", "ended"}

\* A server that is marked as stopped by the user has no connection, unless the stop is still
\* under way or callers overlapped: whoever starts it takes the mark back before there is a
\* connection, and none is left that the mark does not speak of (manager.py:307, 431).
MarkedIsDown ==
    manual /\ ~overlapped =>
        \/ \A o \in Owners : ~Live(o)
        \/ \E c \in Callers : op[c] = "stop" /\ pc[c] \in {"stopping", "killing"}

\* As long as no caller starts or stops the server inside another one's stop, a
\* connection that is there is the one _conn_tasks names, and the signal of one that has
\* begun is the one _stop_events names: every later stop reaches it, late endings of
\* earlier owners included (manager.py:287-290).
OwnersAreReachable ==
    ~overlapped =>
        \A o \in Owners : Live(o) =>
            connTask = o /\ (at[o] # "new" => stopEvent = o)

\* When disconnect_server returns there is no connection left, unless another caller was
\* starting the server inside the stop, which lasts until the health check has ended
\* (manager.py:340-353, 434-442).
StopTakesEffect ==
    [][\A c \in Callers :
        op[c] = "stop" /\ op'[c] = "none" /\ ~overlapped =>
            \A o \in Owners : at'[o] \in {"none", "ended"}]_vars

\* A stop ends whatever the server does (manager.py:341-351).
StopsEnd == \A c \in Callers : op[c] = "stop" ~> op[c] = "none"

(***************************************************************************)
(* What the code does not do.                                              *)
(***************************************************************************)

\* docs/mcp-remote.md:72: to stop a server is to remove its tools.  They stay, and go through the
\* session of the first connection for ever.
ToolsAreLive == tool # NoOwner => at[tool] # "ended"

\* docs/mcp-remote.md:72: and servers may be connected again.  After a disconnect the names are
\* still taken in the registry, and the sessions are given no tool.
ConnectedIsOffered == connected /\ Stopping = {} /\ (\E o \in Owners : at[o] = "holding") => wrapped

\* manager.py:245: whoever awaits the result of a connection is told it.  An owner that is
\* cancelled while it connects reports nothing.
AwaitedIsReported ==
    \A c \in Callers :
        pc[c] = "awaiting" /\ at[target[c]] = "ended" => ready[target[c]] # "pending"
=============================================================================
