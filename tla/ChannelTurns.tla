---------------------------- MODULE ChannelTurns ----------------------------
(***************************************************************************)
(* backend/modules/channels/handler.py: the messages of one chat, from the *)
(* message bus to the agent.  A message that finds its session idle takes  *)
(* the session's turn; one that finds it busy is saved and left in the     *)
(* session's inbox, from which the running turn takes it between two tool  *)
(* batches, or puts it back on the bus when it ends.  /stop cancels the    *)
(* running turn and empties the inbox.                                     *)
(*                                                                         *)
(* The turns are those of FifoTurns, which SessionTurnGate implements.     *)
(* Each action is one stretch of a handler between two awaits.  Faulty      *)
(* variants stand before the definitions they replace.                     *)
(***************************************************************************)
EXTENDS Naturals, FiniteSets, SequencesExt

CONSTANTS NMsgs,       \* number of messages the user sends
          Direct,      \* those that name a coding agent, and go straight to it
          Handlers,    \* tasks running handle_message
          Others,      \* turns of the same session from the web interface
          Session, NoTask,
          MaxIterations,   \* the loop's iteration budget
          MaxStops,    \* bound on the number of /stop (checking only)
          MaxSwitches  \* bound on the number of /route (checking only)

Msgs == 1 .. NMsgs

ASSUME ChannelAssumption ==
    /\ NMsgs \in Nat /\ MaxIterations \in Nat \ {0}
    /\ MaxStops \in Nat /\ MaxSwitches \in Nat
    /\ Direct \subseteq Msgs
    /\ Handlers \cap Others = {}
    /\ NoTask \notin Handlers \union Others

VARIABLES
    \* environment
    sent,       \* the user has sent messages 1 .. sent
    stops,      \* number of /stop so far
    switches,   \* number of /route so far
    route,      \* _route_mode_overrides: the way of the chat's messages
    \* the bus
    bus,        \* inbound queue of carriers: a body (message ids), already saved?
    hashes,     \* bodies enqueued within the deduplication window, oldest first
    \* the gate and its inbox
    line, holder,
    pending,    \* _pending[session]: the bodies of queued messages
    \* the handler
    active,     \* _active_tasks[session]: whose cancel token
    pc,         \* where each handler task is
    carrier,    \* handler -> what it took from the bus
    direct,     \* handlers that take the direct route to the coding agent
    cancelled,  \* handlers whose cancel token is set
    fresh,      \* handler -> messages in the context since the last model call
    left,       \* handler -> iterations left
    \* history
    saved,      \* message -> times written to the database as a user message
    rerouted,   \* messages saved for the inbox that took the direct route after all
    fate        \* message -> what became of it

gate == <<line, holder>>
busVars == <<bus, hashes>>
routing == <<switches, route>>
way == <<direct, rerouted>>
vars == <<sent, stops, switches, route, bus, hashes, line, holder, pending, active, pc,
          carrier, direct, cancelled, fresh, left, saved, rerouted, fate>>

Gate == INSTANCE FifoTurns WITH Tasks <- Handlers \union Others,
                                Sessions <- {Session}

Busy == holder[Session] # NoTask

(***************************************************************************)
(* "received": before the route is chosen; "routing": looking up the       *)
(* session; "saving": writing a message for the inbox; "waiting": in       *)
(* acquire; "starting": has the turn, preparing it; "loop": about to call  *)
(* the model; "called": in the model call or its tool batch; "leaving": on *)
(* the way to the finally clause.                                          *)
(***************************************************************************)
PCs == {"idle", "received", "routing", "saving", "waiting", "starting", "loop",
        "called", "leaving"}

Routes == {"ai", "direct"}

\* "seen": given to the model.  "refused", "failed": the sender was told.
\* "stopped": /stop.  "duplicate", "dropped", "absorbed", "exhausted": gone
\* without a trace, in the deduplication of a re-queued message, with the inbox
\* of a cancelled turn, after a hard stop, at the end of the iteration budget.
Fates == {"none", "seen", "refused", "failed", "stopped",
          "duplicate", "dropped", "absorbed", "exhausted"}

Carriers == [body : Seq(Msgs), persisted : BOOLEAN]
NoCarrier == [body |-> <<>>, persisted |-> FALSE]

TypeOK ==
    /\ sent \in 0 .. NMsgs /\ stops \in 0 .. MaxStops
    /\ switches \in 0 .. MaxSwitches /\ route \in Routes
    /\ bus \in Seq(Carriers)
    /\ hashes \in Seq(Seq(Msgs))
    /\ line \in [{Session} -> Seq(Handlers \union Others)]
    /\ holder \in [{Session} -> Handlers \union Others \union {NoTask}]
    /\ pending \in Seq(Seq(Msgs))
    /\ active \in Handlers \union {NoTask}
    /\ pc \in [Handlers -> PCs]
    /\ carrier \in [Handlers -> Carriers]
    /\ direct \subseteq Handlers
    /\ cancelled \subseteq Handlers
    /\ fresh \in [Handlers -> SUBSET Msgs]
    /\ left \in [Handlers -> Nat]
    /\ saved \in [Msgs -> Nat]
    /\ rerouted \subseteq Msgs
    /\ fate \in [Msgs -> Fates]

Init ==
    /\ sent = 0 /\ stops = 0
    /\ switches = 0 /\ route = "ai"
    /\ bus = <<>> /\ hashes = <<>>
    /\ Gate!Init
    /\ pending = <<>>
    /\ active = NoTask
    /\ pc = [h \in Handlers |-> "idle"]
    /\ carrier = [h \in Handlers |-> NoCarrier]
    /\ direct = {}
    /\ cancelled = {}
    /\ fresh = [h \in Handlers |-> {}]
    /\ left = [h \in Handlers |-> 0]
    /\ saved = [m \in Msgs |-> 0]
    /\ rerouted = {}
    /\ fate = [m \in Msgs |-> "none"]

Body(h) == ToSet(carrier[h].body)
IsDirect(h) == h \in direct
InInbox == UNION {ToSet(pending[i]) : i \in DOMAIN pending}

\* The messages in ms come to the end f.
Becomes(ms, f) == fate' = [m \in Msgs |-> IF m \in ms THEN f ELSE fate[m]]

Goto(h, l) == pc' = [pc EXCEPT ![h] = l]

\* _save_message
Save(ms) == saved' = [m \in Msgs |-> IF m \in ms THEN saved[m] + 1 ELSE saved[m]]

-----------------------------------------------------------------------------
(***************************************************************************)
(* The bus: enterprise_queue.py, with the settings app.py gives it.        *)
(***************************************************************************)

Known(b) == b \in ToSet(hashes)

\* The deduplication is off.
EnqueueAll(c) == bus' = Append(bus, c) /\ hashes' = Append(hashes, c.body)

Enqueue(c) ==
    IF Known(c.body)
    THEN UNCHANGED busVars
    ELSE bus' = Append(bus, c) /\ hashes' = Append(hashes, c.body)

Publish ==
    /\ sent < NMsgs
    /\ sent' = sent + 1
    /\ Enqueue([body |-> <<sent + 1>>, persisted |-> FALSE])
    /\ UNCHANGED <<stops, routing, way, gate, pending, active, pc, carrier, cancelled,
                   fresh, left, saved, fate>>

\* The platform delivers a message again, within the window.
Redeliver(m) ==
    /\ Known(<<m>>)
    /\ Enqueue([body |-> <<m>>, persisted |-> FALSE])
    /\ UNCHANGED <<sent, stops, routing, way, gate, pending, active, pc, carrier,
                   cancelled, fresh, left, saved, fate>>

\* The window of a body has passed; all windows are equally long.
Expire ==
    /\ hashes # <<>>
    /\ hashes' = Tail(hashes)
    /\ UNCHANGED <<sent, stops, routing, way, bus, gate, pending, active, pc, carrier,
                   cancelled, fresh, left, saved, fate>>

\* start_processing: a task for the next message.
Consume(h) ==
    /\ bus # <<>>
    /\ pc[h] = "idle"
    /\ bus' = Tail(bus)
    /\ carrier' = [carrier EXCEPT ![h] = Head(bus)]
    /\ Goto(h, "received")
    /\ UNCHANGED <<sent, stops, routing, way, hashes, gate, pending, active,
                   cancelled, fresh, left, saved, fate>>

\* /route, or a change of the channel's settings.
SwitchRoute ==
    /\ switches < MaxSwitches
    /\ switches' = switches + 1
    /\ route' \in Routes \ {route}
    /\ UNCHANGED <<sent, stops, way, busVars, gate, pending, active, pc, carrier,
                   cancelled, fresh, left, saved, fate>>

-----------------------------------------------------------------------------
(***************************************************************************)
(* Getting the turn, or leaving the message in the inbox.                  *)
(***************************************************************************)

\* The ways a body may take.  Two messages merged may read as a request that names an
\* agent, though neither does by itself.
WaysOf(b) ==
    CASE route = "direct" \/ (\E m \in Direct : b = <<m>>) -> {TRUE}
      [] route = "ai" /\ Len(b) > 1 -> BOOLEAN
      [] OTHER -> {FALSE}

\* The text first, then the chat's route, which may have changed since the message
\* was queued.
ChooseRoute(h) ==
    /\ pc[h] = "received"
    /\ \E straight \in WaysOf(carrier[h].body) :
          /\ direct' = IF straight THEN direct \union {h} ELSE direct
          /\ rerouted' = IF straight /\ carrier[h].persisted
                         THEN rerouted \union Body(h) ELSE rerouted
    /\ Goto(h, "routing")
    /\ UNCHANGED <<sent, stops, routing, busVars, gate, pending, active, carrier,
                   cancelled, fresh, left, saved, fate>>

\* The busy branch skips the save for a message that was saved before; the
\* body moves to the inbox, and the handler is left without one.
EnqueuePending(h) ==
    /\ pending' = Append(pending, carrier[h].body)
    /\ carrier' = [carrier EXCEPT ![h] = NoCarrier]
    /\ Goto(h, "leaving")

QueueSaved(h) ==
    /\ pc[h] = "routing" /\ Busy /\ ~IsDirect(h)
    /\ carrier[h].persisted
    /\ EnqueuePending(h)
    /\ UNCHANGED <<sent, stops, routing, way, busVars, gate, active, cancelled, fresh,
                   left, saved, fate>>

StartSaving(h) ==
    /\ pc[h] = "routing" /\ Busy /\ ~IsDirect(h)
    /\ ~carrier[h].persisted
    /\ Goto(h, "saving")
    /\ UNCHANGED <<sent, stops, routing, way, busVars, gate, pending, active, carrier,
                   cancelled, fresh, left, saved, fate>>

\* The write is done; whether a turn is still running is not looked at again.
QueueAfterSave(h) ==
    /\ pc[h] = "saving"
    /\ Save(Body(h))
    /\ EnqueuePending(h)
    /\ UNCHANGED <<sent, stops, routing, way, busVars, gate, active, cancelled, fresh,
                   left, fate>>

\* A coding task does not wait: the sender is told to try again.
RefuseDirect(h) ==
    /\ pc[h] = "routing" /\ Busy /\ IsDirect(h)
    /\ Becomes(Body(h), "refused")
    /\ carrier' = [carrier EXCEPT ![h] = NoCarrier]
    /\ Goto(h, "idle")
    /\ direct' = direct \ {h}
    /\ UNCHANGED <<sent, stops, routing, rerouted, busVars, gate, pending, active,
                   cancelled, fresh, left, saved>>

RequestTurn(h) ==
    /\ pc[h] = "routing" /\ ~Busy
    /\ \/ Gate!Start(h, Session) /\ Goto(h, "starting") /\ active' = h
       \/ /\ line[Session] # <<>>
          /\ Gate!Join(h, Session)
          /\ Goto(h, "waiting")
          /\ UNCHANGED active
    /\ UNCHANGED <<sent, stops, routing, way, busVars, pending, carrier, cancelled,
                   fresh, left, saved, fate>>

\* acquire returns in the first of the line, which registers its token.
GrantTurn ==
    /\ Gate!Grant(Session)
    /\ LET t == Head(line[Session]) IN
       IF t \in Handlers
       THEN Goto(t, "starting") /\ active' = t
       ELSE UNCHANGED <<pc, active>>
    /\ UNCHANGED <<sent, stops, routing, way, busVars, pending, carrier, cancelled,
                   fresh, left, saved, fate>>

\* A turn of the web interface: it neither looks at the inbox nor registers here.
OtherRequest(o) ==
    /\ \/ Gate!Start(o, Session)
       \/ (Busy \/ line[Session] # <<>>) /\ Gate!Join(o, Session)
    /\ UNCHANGED <<sent, stops, routing, way, busVars, pending, active, pc, carrier,
                   cancelled, fresh, left, saved, fate>>

OtherFinish ==
    /\ holder[Session] \in Others
    /\ Gate!Finish(Session)
    /\ UNCHANGED <<sent, stops, routing, way, busVars, pending, active, pc, carrier,
                   cancelled, fresh, left, saved, fate>>

-----------------------------------------------------------------------------
(***************************************************************************)
(* The turn: the agent loop, and the points where it looks at its inbox.   *)
(***************************************************************************)

\* The message becomes the input of the model, or of the coding agent.  It is saved
\* before; the direct route does not ask whether it was saved already.
StartLoop(h) ==
    /\ pc[h] = "starting"
    /\ IF carrier[h].persisted /\ ~IsDirect(h) THEN UNCHANGED saved ELSE Save(Body(h))
    /\ fresh' = [fresh EXCEPT ![h] = Body(h)]
    /\ left' = [left EXCEPT ![h] = MaxIterations]
    /\ Goto(h, "loop")
    /\ UNCHANGED <<sent, stops, routing, way, busVars, gate, pending, active, carrier,
                   cancelled, fate>>

\* The loop's bound is not tested.
CallModelAnyway(h) ==
    /\ pc[h] = "loop"
    /\ h \notin cancelled \/ IsDirect(h)
    /\ Becomes(fresh[h], "seen")
    /\ fresh' = [fresh EXCEPT ![h] = {}]
    /\ left' = [left EXCEPT ![h] = @ - 1]
    /\ Goto(h, "called")
    /\ UNCHANGED <<sent, stops, routing, way, busVars, gate, pending, active, carrier,
                   cancelled, saved>>

\* One iteration: the model is called with all that is in the context.  A coding
\* task looks at its token only when it is done.
CallModel(h) ==
    /\ pc[h] = "loop" /\ left[h] > 0
    /\ h \notin cancelled \/ IsDirect(h)
    /\ Becomes(fresh[h], "seen")
    /\ fresh' = [fresh EXCEPT ![h] = {}]
    /\ left' = [left EXCEPT ![h] = @ - 1]
    /\ Goto(h, "called")
    /\ UNCHANGED <<sent, stops, routing, way, busVars, gate, pending, active, carrier,
                   cancelled, saved>>

\* take_pending without removing what was taken.
PeekPending == UNCHANGED pending

TakePending == pending' = <<>>

\* The inbox is not worth an iteration of its own.
InjectWithinBudget(h) ==
    /\ TakePending
    /\ fresh' = [fresh EXCEPT ![h] = @ \union InInbox]
    /\ UNCHANGED left

\* After a tool batch: the whole inbox joins the context, and buys an iteration.
Inject(h) ==
    /\ TakePending
    /\ fresh' = [fresh EXCEPT ![h] = @ \union InInbox]
    /\ left' = [left EXCEPT ![h] = IF pending = <<>> THEN @ ELSE @ + 1]

ToolBatch(h) ==
    /\ pc[h] = "called" /\ ~IsDirect(h)
    /\ Inject(h)
    /\ Goto(h, "loop")
    /\ UNCHANGED <<sent, stops, routing, way, busVars, gate, active, carrier,
                   cancelled, saved, fate>>

\* The same call repeated too often: the loop ends, after the injection.
RepeatHardStop(h) ==
    /\ pc[h] = "called" /\ ~IsDirect(h)
    /\ TakePending
    /\ Becomes(InInbox, "absorbed")
    /\ Goto(h, "leaving")
    /\ UNCHANGED <<sent, stops, routing, way, busVars, gate, active, carrier,
                   cancelled, fresh, left, saved>>

\* The loop is over; what is still fresh in the context comes to the end f.
EndLoop(h, f) ==
    /\ Becomes(fresh[h], f)
    /\ fresh' = [fresh EXCEPT ![h] = {}]
    /\ Goto(h, "leaving")
    /\ UNCHANGED <<sent, stops, routing, way, busVars, gate, pending, active, carrier,
                   cancelled, left, saved>>

\* A final answer, or a result that is sent as it is.
Answer(h) == pc[h] = "called" /\ EndLoop(h, "seen")

BudgetSpent(h) == pc[h] = "loop" /\ left[h] = 0 /\ EndLoop(h, "exhausted")

Interrupted(h) ==
    /\ pc[h] \in {"loop", "called"} /\ h \in cancelled /\ ~IsDirect(h)
    /\ EndLoop(h, "stopped")

\* An exception, or the rate limiter: the sender gets an error message.
Fail(h) ==
    /\ pc[h] \in {"received", "routing", "saving", "starting", "loop", "called"}
    /\ Becomes(IF pc[h] \in {"loop", "called"} THEN fresh[h] ELSE Body(h), "failed")
    /\ fresh' = [fresh EXCEPT ![h] = {}]
    /\ Goto(h, "leaving")
    /\ UNCHANGED <<sent, stops, routing, way, busVars, gate, pending, active, carrier,
                   cancelled, left, saved>>

-----------------------------------------------------------------------------
(***************************************************************************)
(* The end of a handler, and /stop.                                        *)
(***************************************************************************)

\* The token is removed whoever registered it.
ForgetAnyToken(h) == active' = NoTask

ForgetToken(h) == active' = IF active = h THEN NoTask ELSE active

Reset(h) ==
    /\ Goto(h, "idle")
    /\ carrier' = [carrier EXCEPT ![h] = NoCarrier]
    /\ direct' = direct \ {h}
    /\ cancelled' = cancelled \ {h}
    /\ left' = [left EXCEPT ![h] = 0]
    /\ UNCHANGED <<fresh, rerouted>>

\* What is left in the inbox is put back without the mark that it was saved.
RequeueUnmarked(h, b) ==
    /\ Enqueue([body |-> b, persisted |-> FALSE])
    /\ IF Known(b) THEN Becomes(ToSet(b), "duplicate") ELSE UNCHANGED fate

Requeue(h, b) ==
    /\ Enqueue([body |-> b, persisted |-> TRUE])
    /\ IF Known(b) THEN Becomes(ToSet(b), "duplicate") ELSE UNCHANGED fate

\* The finally clause of a handler that has the turn: no await that suspends.
LeaveTurn(h) ==
    /\ pc[h] = "leaving" /\ holder[Session] = h /\ ~IsDirect(h)
    /\ ForgetToken(h)
    /\ pending' = <<>>
    /\ IF h \in cancelled
       THEN Becomes(InInbox, "dropped") /\ UNCHANGED busVars
       ELSE IF pending = <<>>
            THEN UNCHANGED <<fate, busVars>>
            ELSE Requeue(h, FlattenSeq(pending))
    /\ Gate!Finish(Session)
    /\ Reset(h)
    /\ UNCHANGED <<sent, stops, routing, saved>>

\* The finally clause of the direct route fails before it releases the turn.
LeaveDirectHolding(h) ==
    /\ pc[h] = "leaving" /\ holder[Session] = h /\ IsDirect(h)
    /\ active' = NoTask
    /\ Reset(h)
    /\ UNCHANGED <<sent, stops, routing, busVars, gate, pending, saved, fate>>

\* The finally clause of the direct route: the inbox is not looked at.
LeaveDirect(h) ==
    /\ pc[h] = "leaving" /\ holder[Session] = h /\ IsDirect(h)
    /\ active' = NoTask
    /\ Gate!Finish(Session)
    /\ Reset(h)
    /\ UNCHANGED <<sent, stops, routing, busVars, pending, saved, fate>>

\* The finally clause without the turn: the message was queued, or routing failed.
LeaveQueued(h) ==
    /\ pc[h] = "leaving" /\ holder[Session] # h
    /\ ForgetToken(h)
    /\ Reset(h)
    /\ UNCHANGED <<sent, stops, routing, busVars, gate, pending, saved, fate>>

DiscardPending == pending' = <<>>

\* cancel_task
Stop ==
    /\ stops < MaxStops
    /\ stops' = stops + 1
    /\ DiscardPending
    /\ Becomes(InInbox, "stopped")
    /\ cancelled' = cancelled \union ({active} \ {NoTask})
    /\ UNCHANGED <<sent, routing, way, busVars, gate, active, pc, carrier, fresh,
                   left, saved>>

-----------------------------------------------------------------------------
HandlerStep(h) ==
    \/ ChooseRoute(h) \/ QueueSaved(h) \/ StartSaving(h) \/ QueueAfterSave(h)
    \/ RefuseDirect(h) \/ RequestTurn(h) \/ StartLoop(h) \/ CallModel(h) \/ ToolBatch(h)
    \/ RepeatHardStop(h) \/ Answer(h) \/ BudgetSpent(h) \/ Interrupted(h) \/ Fail(h)
    \/ LeaveTurn(h) \/ LeaveDirect(h) \/ LeaveQueued(h)

Next ==
    \/ Publish
    \/ \E m \in Msgs : Redeliver(m)
    \/ Expire
    \/ SwitchRoute
    \/ \E h \in Handlers : Consume(h) \/ HandlerStep(h)
    \/ GrantTurn
    \/ \E o \in Others : OtherRequest(o)
    \/ OtherFinish
    \/ Stop

Spec == Init /\ [][Next]_vars

\* The event loop runs every task that can run, and a model call ends.
FairSpec ==
    /\ Spec
    /\ \A h \in Handlers : WF_vars(HandlerStep(h))
    /\ WF_vars(\E h \in Handlers : Consume(h))
    /\ WF_vars(GrantTurn)
    /\ WF_vars(OtherFinish)

-----------------------------------------------------------------------------
(***************************************************************************)
(* Properties                                                              *)
(***************************************************************************)

\* The handler has its message in its hands.
Hand == {"received", "routing", "saving", "waiting", "starting"}

\* The places where a message that has not come to its end can be.
Places(m) ==
    {<<"bus", i>> : i \in {j \in DOMAIN bus : m \in ToSet(bus[j].body)}}
    \union {<<"inbox", i>> : i \in {j \in DOMAIN pending : m \in ToSet(pending[j])}}
    \union {<<"context", h>> : h \in {g \in Handlers : m \in fresh[g]}}
    \union {<<"handler", h>> :
              h \in {g \in Handlers : pc[g] \in Hand /\ m \in Body(g)}}

\* A message is never lost track of and never in two places, from which it would
\* be answered twice: one that was sent is either in exactly one place, or has come
\* to its end and is in none.  (PendingMessage: "consumed" against double handling.)
OnePlace ==
    \A m \in 1 .. sent :
        Cardinality(Places(m)) = IF fate[m] = "none" THEN 1 ELSE 0

\* What became of a message is final.  In particular a message that /stop called off
\* is not given to the model by a later turn (cancel_task discards the inbox first).
FateIsFinal ==
    [][\A m \in Msgs : fate[m] # "none" => fate'[m] = fate[m]]_vars

\* A message is written to the history once, however often it goes through the inbox
\* and the bus (the "_persisted" mark) and however often the platform delivers it
\* within the window, and before the model sees it, so that the next turn finds it.
\* Only one that was put back from the inbox and then took the direct route, which
\* does not look at the mark, is written twice, and no more.
SavedOnce ==
    \A m \in Msgs :
        /\ saved[m] <= IF m \in rerouted THEN 2 ELSE 1
        /\ fate[m] = "seen" => saved[m] >= 1

\* /stop reaches the turn that runs, and only that: a handler has the turn exactly
\* when its token is the registered one, and a token that was set is a turn's.
StopReachesTheTurn ==
    /\ \A h \in Handlers : holder[Session] = h <=> active = h
    /\ cancelled \subseteq {active}

\* The budget never runs out with an injected message that the model has not seen:
\* every injection buys one more iteration.
InjectionIsPaidFor == \A m \in Msgs : fate[m] # "exhausted"

\* Every turn ends and the next one comes: no message, /stop or error leaves the
\* session's turn with a task that is gone, or a task waiting for it for ever.  (A task
\* leaves the line only when it gets the turn.)
TurnsComeAndGo ==
    /\ \A h \in Handlers : []<>(pc[h] = "idle")
    /\ \A o \in Others : []<>(o \notin ToSet(line[Session]))

-----------------------------------------------------------------------------
(***************************************************************************)
(* Claims of the documentation that do not hold.                           *)
(***************************************************************************)

\* session_gate.py:207: what waits in the inbox is processed in the end.
InboxIsServed == pending # <<>> ~> pending = <<>>

\* handler.py:654: put back on the bus so that the next turn handles it; a single
\* message has the content it had before, and is a duplicate within the window.
RequeueIsAccepted == \A m \in Msgs : fate[m] # "duplicate"

\* handler.py:659: what waited in the inbox is in the database, and must not be written
\* again when it is put back; the direct route writes it again.
RequeuedIsNotSavedAgain == \A m \in Msgs : saved[m] <= 1
=============================================================================
