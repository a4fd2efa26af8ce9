-------------------------- MODULE McpManagerProofs --------------------------
(***************************************************************************)
(* Proofs about McpManager: every connection can be stopped, a stop takes  *)
(* effect, and the mark it leaves is true, for every number of callers,    *)
(* connections and attempts.                                               *)
(***************************************************************************)
EXTENDS McpManager, TLAPS

\* Owners are made one after another.
NotYetMade == \A o \in Owners : o > made => at[o] = "none"

\* A caller that waits for an owner has one; what it does goes with where it is.
CallersWaitForOwners ==
    \A c \in Callers : /\ pc[c] \in {"stopping", "killing", "awaiting"} => target[c] \in Owners
                       /\ pc[c] = "idle" => op[c] = "none"
                       /\ pc[c] = "clearing" => op[c] = "reset"

\* A caller in a stop waits for the connection there is; there is none when it has waited.
StopsWaitForTheOwner ==
    ~overlapped =>
        \A c \in Stopping, o \in Owners : Live(o) => pc[c] # "unwinding" /\ target[c] = o

\* A caller that ends the connection to make another has taken the mark back.
StartsAreUnmarked ==
    ~overlapped => \A c \in Stopping : op[c] \notin {"stop", "reset"} => ~manual

\* The inductive invariant.
IInv ==
    /\ TypeOK
    /\ NotYetMade
    /\ CallersWaitForOwners
    /\ OwnersAreReachable
    /\ StopsWaitForTheOwner
    /\ StartsAreUnmarked
    /\ MarkedIsDown

-----------------------------------------------------------------------------
(***************************************************************************)
(* What the helpers do.                                                    *)
(***************************************************************************)

\* A caller that has to wait for an owner waits for the current one.
LEMMA AwaitEndDoes ==
    ASSUME TypeOK, NEW c \in Callers, AwaitEnd(c)
    PROVE  /\ connTask \in Owners /\ at[connTask] # "ended"
           /\ target' = [target EXCEPT ![c] = connTask]
           /\ pc' = [pc EXCEPT ![c] = "stopping"]
           /\ stopSet' \subseteq Owners /\ overlapped' \in BOOLEAN
           /\ ~overlapped' => ~overlapped /\ Stopping \subseteq {c}
           /\ target' \in [Callers -> Owners \union {NoOwner}] /\ pc' \in [Callers -> PCs]
           /\ UNCHANGED <<made, at, connTask, stopEvent>>
  BY DEF AwaitEnd, Waits, Signalled, Crosses, Goto, TypeOK, PCs

\* A new owner is the next one, and its caller awaits what it reports.
LEMMA NewOwnerDoes ==
    ASSUME TypeOK, NEW c \in Callers, NewOwner(c)
    PROVE  /\ made + 1 \in Owners /\ made' = made + 1 /\ made' \in 0 .. MaxOwners
           /\ at' = [at EXCEPT ![made + 1] = "new"]
           /\ connTask' = made + 1
           /\ target' = [target EXCEPT ![c] = made + 1]
           /\ pc' = [pc EXCEPT ![c] = "awaiting"]
           /\ overlapped' \in BOOLEAN
           /\ ~overlapped' => ~overlapped /\ Stopping \subseteq {c}
<1>1. made + 1 \in Owners /\ made + 1 \in 0 .. MaxOwners
  BY McpAssumption DEF NewOwner, TypeOK, Owners
<1>2. overlapped' \in BOOLEAN /\ (~overlapped' => ~overlapped /\ Stopping \subseteq {c})
  BY DEF NewOwner, Crosses
<1> QED
  BY <1>1, <1>2 DEF NewOwner, Goto, Move

\* What is left of an operation that returns.
LEMMA ReturnDoes ==
    ASSUME TypeOK, NEW c \in Callers, Return(c)
    PROVE  /\ op' \in [Callers -> Operations] /\ pc' \in [Callers -> PCs]
           /\ target' \in [Callers -> Owners \union {NoOwner}] /\ tries' \in [Callers -> Nat]
  BY DEF Return, Goto, TypeOK, Operations, PCs

\* An operation has a name.
LEMMA DoingDoes ==
    ASSUME TypeOK, NEW c \in Callers, NEW o \in Operations, Doing(c, o)
    PROVE  op' \in [Callers -> Operations]
  BY DEF Doing, TypeOK

\* The tables are empty when disconnect_server has stopped the connection.
LEMMA UnlistsDoes ==
    ASSUME TypeOK, NEW c \in Callers, Unlists(c)
    PROVE  /\ op' \in [Callers -> Operations] /\ pc' \in [Callers -> PCs]
           /\ target' \in [Callers -> Owners \union {NoOwner}] /\ tries' \in [Callers -> Nat]
           /\ lock' \in Callers \union {NoCaller}
           /\ connTask' = NoOwner /\ stopEvent' = NoOwner /\ connected' \in BOOLEAN
           /\ UNCHANGED <<registry, configured, connecting>>
  BY ReturnDoes, DoingDoes DEF Unlists, Goto, TypeOK, PCs, Operations

\* disconnect waits for the connection there is, or clears everything.
LEMMA StopsAllDoes ==
    ASSUME TypeOK, NEW c \in Callers, StopsAll(c)
    PROVE  /\ made' \in 0 .. MaxOwners /\ at' \in [Owners -> OwnerAt]
           /\ connTask' \in Owners \union {NoOwner} /\ stopEvent' \in Owners \union {NoOwner}
           /\ stopSet' \subseteq Owners /\ tool' \in Owners \union {NoOwner}
           /\ wrapped' \in BOOLEAN /\ manual' \in BOOLEAN /\ configured' \in BOOLEAN
           /\ connected' \in BOOLEAN /\ connecting' \in BOOLEAN /\ overlapped' \in BOOLEAN
           /\ lock' \in Callers \union {NoCaller}
           /\ op' \in [Callers -> Operations] /\ pc' \in [Callers -> PCs]
           /\ target' \in [Callers -> Owners \union {NoOwner}] /\ tries' \in [Callers -> Nat]
<1>1. CASE AwaitEnd(c) /\ Doing(c, "reset") /\ lock' = c /\ UNCHANGED <<registry, flags, tries>>
  BY <1>1, AwaitEndDoes, DoingDoes DEF TypeOK, registry, flags, Operations
<1>2. CASE ~Waits /\ Clears(c) /\ stopSet' = (IF connTask = NoOwner THEN stopSet ELSE Signalled)
           /\ Crosses(c) /\ UNCHANGED <<at, made>>
  BY <1>2, ReturnDoes DEF Clears, Signalled, Crosses, TypeOK
<1> QED
  BY <1>1, <1>2 DEF StopsAll

\* _start_connection waits for the owner there is, or makes one.
LEMMA StartConnectionDoes ==
    ASSUME TypeOK, NEW c \in Callers, StartConnection(c)
    PROVE  /\ made' \in 0 .. MaxOwners /\ at' \in [Owners -> OwnerAt]
           /\ connTask' \in Owners \union {NoOwner} /\ stopEvent' \in Owners \union {NoOwner}
           /\ stopSet' \subseteq Owners /\ overlapped' \in BOOLEAN /\ manual' = FALSE
           /\ target' \in [Callers -> Owners \union {NoOwner}] /\ pc' \in [Callers -> PCs]
           /\ \E o \in Owners, l \in {"stopping", "awaiting"} :
                target' = [target EXCEPT ![c] = o] /\ pc' = [pc EXCEPT ![c] = l]
<1>1. CASE AwaitEnd(c)
  BY <1>1, AwaitEndDoes DEF StartConnection, TypeOK
<1>2. CASE NewOwner(c)
  <2>1. stopSet' \subseteq Owners /\ stopEvent' \in Owners \union {NoOwner}
    BY <1>2, AwaitEndDoes DEF StartConnection, Signalled, TypeOK
  <2> QED
    BY <1>2, <2>1, NewOwnerDoes DEF StartConnection, TypeOK, OwnerAt, PCs
<1> QED
  BY <1>1, <1>2 DEF StartConnection

-----------------------------------------------------------------------------
(***************************************************************************)
(* Each part of the invariant is kept by every step.                       *)
(***************************************************************************)

\* Every variable keeps its type.
LEMMA TypeStep ==
    ASSUME IInv, Next
    PROVE  TypeOK'
<1> USE McpAssumption DEF ownerVars, registry, tables, flags, callerVars, Goto, Move, TypeOK
<1>0. TypeOK /\ CallersWaitForOwners
  BY DEF IInv
<1>1. ASSUME NEW o \in Owners, OwnerBegins(o) PROVE TypeOK'
  BY <1>0, <1>1 DEF OwnerBegins, CallersWaitForOwners, Owners, OwnerAt, PCs, Operations
<1>2. ASSUME NEW o \in Owners, StopArrives(o) PROVE TypeOK'
  BY <1>0, <1>2 DEF StopArrives, CallersWaitForOwners, Owners, OwnerAt, PCs, Operations
<1>3. ASSUME NEW o \in Owners, Closes(o) PROVE TypeOK'
  BY <1>0, <1>3 DEF Closes, Leave, CallersWaitForOwners, Owners, OwnerAt, PCs, Operations
<1>4. ASSUME NEW o \in Owners, CancelledOpening(o) PROVE TypeOK'
  BY <1>0, <1>4 DEF CancelledOpening, Leave, CallersWaitForOwners, Owners, OwnerAt, PCs, Operations
<1>5. ASSUME NEW o \in Owners, CancelledHolding(o) PROVE TypeOK'
  BY <1>0, <1>5 DEF CancelledHolding, CallersWaitForOwners, Owners, OwnerAt, PCs, Operations
<1>6. ASSUME NEW o \in Owners, CancelledClosing(o) PROVE TypeOK'
  BY <1>0, <1>6 DEF CancelledClosing, CallersWaitForOwners, Owners, OwnerAt, PCs, Operations
<1>7. ASSUME NEW o \in Owners, Discovers(o) PROVE TypeOK'
  BY <1>0, <1>7 DEF Discovers, CallersWaitForOwners, Owners, OwnerAt, PCs, Operations
<1>8. ASSUME NEW o \in Owners, Opens(o) PROVE TypeOK'
  BY <1>0, <1>8 DEF Opens, CallersWaitForOwners, Owners, OwnerAt, PCs, Operations
<1>9. ASSUME NEW o \in Owners, OpenFails(o) PROVE TypeOK'
  BY <1>0, <1>9 DEF OpenFails, Leave, CallersWaitForOwners, Owners, OwnerAt, PCs, Operations
<1>10. ASSUME NEW c \in Callers, StopTimesOut(c) PROVE TypeOK'
  BY <1>0, <1>10 DEF StopTimesOut, CallersWaitForOwners, Owners, OwnerAt, PCs, Operations
<1>11. ASSUME NEW c \in Callers, Replaces(c) PROVE TypeOK'
  BY <1>0, <1>11 DEF Replaces, NewOwner, StopIsOver, Crosses, CallersWaitForOwners, Owners,
       OwnerAt, PCs, Operations
<1>12. ASSUME NEW c \in Callers, Stopped(c) PROVE TypeOK'
  BY <1>0, <1>12, UnlistsDoes DEF Stopped
<1>13. ASSUME NEW c \in Callers, ResetDone(c) PROVE TypeOK'
  BY <1>0, <1>13 DEF ResetDone, StopIsOver, Clears, Return, CallersWaitForOwners, Owners,
       OwnerAt, PCs, Operations
<1>14. ASSUME NEW c \in Callers, Stop(c) PROVE TypeOK'
  <2>1. "stop" \in Operations /\ ops' \in 0 .. MaxOps /\ manual' = TRUE
    BY <1>0, <1>14 DEF Stop, Enters, Operations
  <2>2. CASE AwaitEnd(c) /\ Doing(c, "stop") /\ lock' = c
             /\ UNCHANGED <<registry, configured, connected, connecting, tries>>
    BY <1>0, <1>14, <2>1, <2>2, AwaitEndDoes, DoingDoes DEF Stop
  <2>3. CASE Unlists(c) /\ stopSet' = Signalled /\ Crosses(c) /\ UNCHANGED <<at, made>>
    BY <1>0, <1>14, <2>1, <2>3, UnlistsDoes DEF Stop, Signalled, Crosses
  <2> QED
    BY <1>14, <2>2, <2>3 DEF Stop
<1>15. ASSUME NEW c \in Callers, Reset(c) PROVE TypeOK'
  <2>1. "reset" \in Operations /\ ops' \in 0 .. MaxOps
    BY <1>0, <1>15 DEF Reset, Enters, Operations
  <2>2. CASE StopsAll(c)
    BY <1>0, <1>15, <2>1, <2>2, StopsAllDoes DEF Reset
  <2>3. CASE Goto(c, "clearing") /\ Doing(c, "reset") /\ lock' = c
             /\ UNCHANGED <<made, at, tables, flags, target, tries, overlapped>>
    BY <1>0, <1>15, <2>1, <2>3, DoingDoes DEF Reset, PCs
  <2> QED
    BY <1>15, <2>2, <2>3 DEF Reset
<1>25. ASSUME NEW c \in Callers, Unwinds(c) PROVE TypeOK'
  BY <1>0, <1>25, ReturnDoes DEF Unwinds
<1>26. ASSUME NEW c \in Callers, ResetGoesOn(c) PROVE TypeOK'
  BY <1>0, <1>26, StopsAllDoes DEF ResetGoesOn
<1>16. ASSUME NEW c \in Callers, Calls(c) PROVE TypeOK'
  BY <1>0, <1>16, StartConnectionDoes DEF Calls
<1>17. ASSUME NEW c \in Callers, StartEnds(c) PROVE TypeOK'
  BY <1>0, <1>17 DEF StartEnds, Reported, Return, CallersWaitForOwners, Owners, OwnerAt, PCs,
       Operations
<1>18. ASSUME NEW c \in Callers, ReconnectEnds(c) PROVE TypeOK'
  BY <1>0, <1>18 DEF ReconnectEnds, Reported, Return, CallersWaitForOwners, Owners, OwnerAt, PCs,
       Operations
<1>19. ASSUME NEW c \in Callers, BacksOff(c) PROVE TypeOK'
  BY <1>0, <1>19 DEF BacksOff, Reported, CallersWaitForOwners, Owners, OwnerAt, PCs, Operations
<1>20. ASSUME NEW c \in Callers, ConnectEnds(c) PROVE TypeOK'
  BY <1>0, <1>20 DEF ConnectEnds, Reported, Return, CallersWaitForOwners, Owners, OwnerAt, PCs,
       Operations
<1>21. ASSUME NEW c \in Callers, NEW o \in Operations \ {"none"}, Queues(c, o) PROVE TypeOK'
  BY <1>0, <1>21 DEF Queues, Allowed, Configures, CallersWaitForOwners, Owners, OwnerAt, PCs,
       Operations
<1>22. ASSUME NEW c \in Callers, NEW o \in {"start", "reconnect", "all"}, Start(c, o) PROVE TypeOK'
  <2>1. o \in Operations /\ ops' \in 0 .. MaxOps /\ configured' \in BOOLEAN
    BY <1>0, <1>22 DEF Start, Enters, Operations
  <2>2. CASE Doing(c, o) /\ StartConnection(c) /\ tries' = [tries EXCEPT ![c] = 1]
    BY <1>0, <1>22, <2>1, <2>2, StartConnectionDoes, DoingDoes DEF Start
  <2>3. CASE Return(c) /\ UNCHANGED <<at, made, connTask, stopEvent, stopSet, manual, overlapped>>
    BY <1>0, <1>22, <2>1, <2>3, ReturnDoes DEF Start
  <2> QED
    BY <1>22, <2>2, <2>3 DEF Start
<1>23. ASSUME NEW c \in Callers, NEW o \in {"connect", "lazy"}, Connect(c, o) PROVE TypeOK'
  <2>1. o \in Operations /\ ops' \in 0 .. MaxOps
    BY <1>0, <1>23 DEF Connect, Enters, Operations
  <2>2. CASE Doing(c, o) /\ Goto(c, "calling") /\ connecting' = TRUE /\ configured' = TRUE
             /\ UNCHANGED <<target, tries>>
    BY <1>0, <1>23, <2>1, <2>2, DoingDoes DEF Connect, PCs
  <2>3. CASE Return(c) /\ UNCHANGED <<connecting, configured>>
    BY <1>0, <1>23, <2>1, <2>3, ReturnDoes DEF Connect
  <2> QED
    BY <1>23, <2>2, <2>3 DEF Connect
<1>24. ASSUME HealthCheck PROVE TypeOK'
  BY <1>0, <1>24 DEF HealthCheck, CallersWaitForOwners, Owners, OwnerAt, PCs, Operations
<1> QED
  BY <1>1, <1>2, <1>3, <1>4, <1>5, <1>6, <1>7, <1>8, <1>9, <1>10, <1>11, <1>12, <1>13,
     <1>14, <1>15, <1>16, <1>17, <1>18, <1>19, <1>20, <1>21, <1>22, <1>23, <1>24,
     <1>25, <1>26
  DEF Next, OwnerMoves, ServerMoves, Begins, StopMoves, StartMoves

\* An owner that is made is the next.
LEMMA MadeStep ==
    ASSUME IInv, Next
    PROVE  NotYetMade'
<1> USE McpAssumption DEF ownerVars, registry, tables, flags, callerVars, Goto, Move, Owners,
     TypeOK,
     NotYetMade
<1>0. TypeOK /\ NotYetMade
  BY DEF IInv
<1>1. ASSUME NEW o \in Owners, OwnerBegins(o) PROVE NotYetMade'
  BY <1>0, <1>1 DEF OwnerBegins
<1>2. ASSUME NEW o \in Owners, StopArrives(o) PROVE NotYetMade'
  BY <1>0, <1>2 DEF StopArrives
<1>3. ASSUME NEW o \in Owners, Closes(o) PROVE NotYetMade'
  BY <1>0, <1>3 DEF Closes, Leave
<1>4. ASSUME NEW o \in Owners, CancelledOpening(o) PROVE NotYetMade'
  BY <1>0, <1>4 DEF CancelledOpening, Leave
<1>5. ASSUME NEW o \in Owners, CancelledHolding(o) PROVE NotYetMade'
  BY <1>0, <1>5 DEF CancelledHolding
<1>6. ASSUME NEW o \in Owners, CancelledClosing(o) PROVE NotYetMade'
  BY <1>0, <1>6 DEF CancelledClosing
<1>7. ASSUME NEW o \in Owners, Discovers(o) PROVE NotYetMade'
  BY <1>0, <1>7 DEF Discovers
<1>8. ASSUME NEW o \in Owners, Opens(o) PROVE NotYetMade'
  BY <1>0, <1>8 DEF Opens
<1>9. ASSUME NEW o \in Owners, OpenFails(o) PROVE NotYetMade'
  BY <1>0, <1>9 DEF OpenFails, Leave
<1>10. ASSUME NEW c \in Callers, StopTimesOut(c) PROVE NotYetMade'
  BY <1>0, <1>10 DEF StopTimesOut
<1>11. ASSUME NEW c \in Callers, Replaces(c) PROVE NotYetMade'
  BY <1>0, <1>11 DEF Replaces, NewOwner, StopIsOver, Crosses
<1>12. ASSUME NEW c \in Callers, Stopped(c) PROVE NotYetMade'
  BY <1>0, <1>12 DEF Stopped, StopIsOver, Unlists, Return, Doing
<1>13. ASSUME NEW c \in Callers, ResetDone(c) PROVE NotYetMade'
  BY <1>0, <1>13 DEF ResetDone, StopIsOver, Clears, Return
<1>14. ASSUME NEW c \in Callers, Stop(c) PROVE NotYetMade'
  BY <1>0, <1>14 DEF Stop, Enters, AwaitEnd, Waits, Unlists, Return, Doing
<1>15. ASSUME NEW c \in Callers, Reset(c) PROVE NotYetMade'
  BY <1>0, <1>15 DEF Reset, StopsAll, Enters, AwaitEnd, Waits, Doing, Clears, Return
<1>25. ASSUME NEW c \in Callers, Unwinds(c) PROVE NotYetMade'
  BY <1>0, <1>25 DEF Unwinds, Return
<1>26. ASSUME NEW c \in Callers, ResetGoesOn(c) PROVE NotYetMade'
  BY <1>0, <1>26 DEF ResetGoesOn, StopsAll, AwaitEnd, Waits, Doing, Clears, Return
<1>16. ASSUME NEW c \in Callers, Calls(c) PROVE NotYetMade'
  BY <1>0, <1>16 DEF Calls, StartConnection, AwaitEnd, Waits, Signalled, NewOwner, Crosses
<1>17. ASSUME NEW c \in Callers, StartEnds(c) PROVE NotYetMade'
  BY <1>0, <1>17 DEF StartEnds, Reported, Return
<1>18. ASSUME NEW c \in Callers, ReconnectEnds(c) PROVE NotYetMade'
  BY <1>0, <1>18 DEF ReconnectEnds, Reported, Return
<1>19. ASSUME NEW c \in Callers, BacksOff(c) PROVE NotYetMade'
  BY <1>0, <1>19 DEF BacksOff, Reported
<1>20. ASSUME NEW c \in Callers, ConnectEnds(c) PROVE NotYetMade'
  BY <1>0, <1>20 DEF ConnectEnds, Reported, Return
<1>21. ASSUME NEW c \in Callers, NEW o \in Operations \ {"none"}, Queues(c, o) PROVE NotYetMade'
  BY <1>0, <1>21 DEF Queues, Allowed, Configures
<1>22. ASSUME NEW c \in Callers, NEW o \in {"start", "reconnect", "all"}, Start(c, o)
     PROVE NotYetMade'
  BY <1>0, <1>22 DEF Start, Enters, Doing, StartConnection, AwaitEnd, Waits, Signalled, NewOwner,
       Crosses, Return
<1>23. ASSUME NEW c \in Callers, NEW o \in {"connect", "lazy"}, Connect(c, o) PROVE NotYetMade'
  BY <1>0, <1>23 DEF Connect, Enters, Doing, Return
<1>24. ASSUME HealthCheck PROVE NotYetMade'
  BY <1>0, <1>24 DEF HealthCheck
<1> QED
  BY <1>1, <1>2, <1>3, <1>4, <1>5, <1>6, <1>7, <1>8, <1>9, <1>10, <1>11, <1>12, <1>13,
     <1>14, <1>15, <1>16, <1>17, <1>18, <1>19, <1>20, <1>21, <1>22, <1>23, <1>24,
     <1>25, <1>26
  DEF Next, OwnerMoves, ServerMoves, Begins, StopMoves, StartMoves

\* A caller that returns waits for nobody; nor does one whose stop is over.
LEMMA CallersReturn ==
    ASSUME TypeOK, CallersWaitForOwners, NEW c \in Callers, Return(c) \/ Unlists(c)
    PROVE  CallersWaitForOwners'
<1>1. CASE Return(c)
  BY <1>1 DEF Return, Goto, TypeOK, CallersWaitForOwners
<1>2. CASE Goto(c, "unwinding") /\ Doing(c, "stop") /\ UNCHANGED target
  BY <1>2 DEF Doing, Goto, TypeOK, CallersWaitForOwners
<1> QED
  BY <1>1, <1>2 DEF Unlists

\* A caller that begins to wait for an owner has it.
LEMMA CallersAwait ==
    ASSUME TypeOK, CallersWaitForOwners, NEW c \in Callers, AwaitEnd(c)
    PROVE  \A o \in {"stop", "reset"} : Doing(c, o) => CallersWaitForOwners'
<1>1. /\ connTask \in Owners /\ target' = [target EXCEPT ![c] = connTask]
      /\ pc' = [pc EXCEPT ![c] = "stopping"]
  BY AwaitEndDoes
<1> QED
  BY <1>1 DEF Doing, TypeOK, CallersWaitForOwners

\* Callers keep the owner they wait for.
LEMMA CallersStep ==
    ASSUME IInv, Next
    PROVE  CallersWaitForOwners'
<1> USE McpAssumption DEF ownerVars, registry, tables, flags, callerVars, Goto, Move, Owners,
     TypeOK,
     CallersWaitForOwners
<1>0. TypeOK /\ CallersWaitForOwners
  BY DEF IInv
<1>1. ASSUME NEW o \in Owners, OwnerBegins(o) PROVE CallersWaitForOwners'
  BY <1>0, <1>1 DEF OwnerBegins
<1>2. ASSUME NEW o \in Owners, StopArrives(o) PROVE CallersWaitForOwners'
  BY <1>0, <1>2 DEF StopArrives
<1>3. ASSUME NEW o \in Owners, Closes(o) PROVE CallersWaitForOwners'
  BY <1>0, <1>3 DEF Closes, Leave
<1>4. ASSUME NEW o \in Owners, CancelledOpening(o) PROVE CallersWaitForOwners'
  BY <1>0, <1>4 DEF CancelledOpening, Leave
<1>5. ASSUME NEW o \in Owners, CancelledHolding(o) PROVE CallersWaitForOwners'
  BY <1>0, <1>5 DEF CancelledHolding
<1>6. ASSUME NEW o \in Owners, CancelledClosing(o) PROVE CallersWaitForOwners'
  BY <1>0, <1>6 DEF CancelledClosing
<1>7. ASSUME NEW o \in Owners, Discovers(o) PROVE CallersWaitForOwners'
  BY <1>0, <1>7 DEF Discovers
<1>8. ASSUME NEW o \in Owners, Opens(o) PROVE CallersWaitForOwners'
  BY <1>0, <1>8 DEF Opens
<1>9. ASSUME NEW o \in Owners, OpenFails(o) PROVE CallersWaitForOwners'
  BY <1>0, <1>9 DEF OpenFails, Leave
<1>10. ASSUME NEW c \in Callers, StopTimesOut(c) PROVE CallersWaitForOwners'
  BY <1>0, <1>10 DEF StopTimesOut
<1>11. ASSUME NEW c \in Callers, Replaces(c) PROVE CallersWaitForOwners'
  BY <1>0, <1>11 DEF Replaces, NewOwner, StopIsOver, Crosses
<1>12. ASSUME NEW c \in Callers, Stopped(c) PROVE CallersWaitForOwners'
  BY <1>0, <1>12, CallersReturn DEF Stopped
<1>13. ASSUME NEW c \in Callers, ResetDone(c) PROVE CallersWaitForOwners'
  BY <1>0, <1>13 DEF ResetDone, StopIsOver, Clears, Return
<1>14. ASSUME NEW c \in Callers, Stop(c) PROVE CallersWaitForOwners'
  BY <1>0, <1>14, CallersReturn, CallersAwait DEF Stop
<1>15. ASSUME NEW c \in Callers, Reset(c) PROVE CallersWaitForOwners'
  BY <1>0, <1>15 DEF Reset, StopsAll, Enters, AwaitEnd, Waits, Doing, Clears, Return
<1>25. ASSUME NEW c \in Callers, Unwinds(c) PROVE CallersWaitForOwners'
  BY <1>0, <1>25 DEF Unwinds, Return
<1>26. ASSUME NEW c \in Callers, ResetGoesOn(c) PROVE CallersWaitForOwners'
  BY <1>0, <1>26, CallersReturn, CallersAwait DEF ResetGoesOn, StopsAll, Clears
<1>16. ASSUME NEW c \in Callers, Calls(c) PROVE CallersWaitForOwners'
  BY <1>0, <1>16, StartConnectionDoes DEF Calls
<1>17. ASSUME NEW c \in Callers, StartEnds(c) PROVE CallersWaitForOwners'
  BY <1>0, <1>17 DEF StartEnds, Reported, Return
<1>18. ASSUME NEW c \in Callers, ReconnectEnds(c) PROVE CallersWaitForOwners'
  BY <1>0, <1>18 DEF ReconnectEnds, Reported, Return
<1>19. ASSUME NEW c \in Callers, BacksOff(c) PROVE CallersWaitForOwners'
  BY <1>0, <1>19 DEF BacksOff, Reported
<1>20. ASSUME NEW c \in Callers, ConnectEnds(c) PROVE CallersWaitForOwners'
  BY <1>0, <1>20 DEF ConnectEnds, Reported, Return
<1>21. ASSUME NEW c \in Callers, NEW o \in Operations \ {"none"}, Queues(c, o)
     PROVE CallersWaitForOwners'
  BY <1>0, <1>21 DEF Queues, Allowed, Configures
<1>22. ASSUME NEW c \in Callers, NEW o \in {"start", "reconnect", "all"}, Start(c, o)
     PROVE CallersWaitForOwners'
  BY <1>0, <1>22 DEF Start, Enters, Doing, StartConnection, AwaitEnd, Waits, Signalled, NewOwner,
       Crosses, Return
<1>23. ASSUME NEW c \in Callers, NEW o \in {"connect", "lazy"}, Connect(c, o)
     PROVE CallersWaitForOwners'
  BY <1>0, <1>23 DEF Connect, Enters, Doing, Return
<1>24. ASSUME HealthCheck PROVE CallersWaitForOwners'
  BY <1>0, <1>24 DEF HealthCheck
<1> QED
  BY <1>1, <1>2, <1>3, <1>4, <1>5, <1>6, <1>7, <1>8, <1>9, <1>10, <1>11, <1>12, <1>13,
     <1>14, <1>15, <1>16, <1>17, <1>18, <1>19, <1>20, <1>21, <1>22, <1>23, <1>24,
     <1>25, <1>26
  DEF Next, OwnerMoves, ServerMoves, Begins, StopMoves, StartMoves

\* A connection waited for is the current one.
LEMMA ReachAwait ==
    ASSUME TypeOK, OwnersAreReachable, NEW c \in Callers, AwaitEnd(c)
    PROVE  (OwnersAreReachable /\ StopsWaitForTheOwner)'
<1>1. OwnersAreReachable'
  BY AwaitEndDoes DEF OwnersAreReachable, Live
<1>2. ASSUME ~overlapped', NEW d \in Stopping', NEW o \in Owners, Live(o)'
      PROVE  pc'[d] # "unwinding" /\ target'[d] = o
  <2>1. d = c /\ pc'[d] # "unwinding"
    BY <1>2, AwaitEndDoes DEF Stopping, TypeOK
  <2>2. target'[c] = connTask
    BY AwaitEndDoes DEF TypeOK
  <2>3. Live(o) /\ ~overlapped
    BY <1>2, AwaitEndDoes DEF Live
  <2> QED
    BY <2>1, <2>2, <2>3 DEF OwnersAreReachable
<1> QED
  BY <1>1, <1>2 DEF StopsWaitForTheOwner

\* A connection made when there is none is the current one.
LEMMA ReachNew ==
    ASSUME TypeOK, NEW c \in Callers, NewOwner(c), ~overlapped => \A o \in Owners : ~Live(o)
    PROVE  (OwnersAreReachable /\ StopsWaitForTheOwner)'
<1> SUFFICES ASSUME ~overlapped' PROVE (OwnersAreReachable /\ StopsWaitForTheOwner)'
  BY DEF OwnersAreReachable, StopsWaitForTheOwner
<1>1. ASSUME NEW o \in Owners, Live(o)' PROVE o = made + 1
  BY <1>1, NewOwnerDoes DEF Live, TypeOK
<1>2. at'[made + 1] = "new" /\ connTask' = made + 1
  BY NewOwnerDoes DEF TypeOK
<1>3. Stopping' = {}
  BY NewOwnerDoes DEF Stopping, TypeOK
<1> QED
  BY <1>1, <1>2, <1>3 DEF OwnersAreReachable, StopsWaitForTheOwner

\* Tables that are cleared when there is no connection lose none.
LEMMA ReachNone ==
    ASSUME ~overlapped => \A o \in Owners : ~Live(o), UNCHANGED at,
           ~overlapped' => ~overlapped
    PROVE  (OwnersAreReachable /\ StopsWaitForTheOwner)'
  BY DEF OwnersAreReachable, StopsWaitForTheOwner, Live

\* Nor does a caller that neither begins to stop nor touches the tables.
LEMMA ReachQuiet ==
    ASSUME OwnersAreReachable, StopsWaitForTheOwner,
           UNCHANGED <<at, connTask, stopEvent, overlapped>>,
           \A c \in Stopping' :
               /\ c \in Stopping /\ target'[c] = target[c]
               /\ pc'[c] = "unwinding" => pc[c] = "unwinding"
    PROVE  (OwnersAreReachable /\ StopsWaitForTheOwner)'
  BY DEF OwnersAreReachable, StopsWaitForTheOwner, Live

\* Nobody to wait for means that there is no connection.
LEMMA NoneToWaitFor ==
    ASSUME OwnersAreReachable, ~Waits \/ connTask = NoOwner, ~overlapped
    PROVE  \A o \in Owners : ~Live(o)
  BY McpAssumption DEF OwnersAreReachable, Waits, Live, Owners

\* The end of a stop means that there is no connection.
LEMMA NoneAfterStop ==
    ASSUME StopsWaitForTheOwner, NEW c \in Callers, StopIsOver(c), ~overlapped
    PROVE  \A o \in Owners : ~Live(o)
  BY DEF StopsWaitForTheOwner, StopIsOver, Stopping, Live

\* _start_connection keeps the tables right in each of its ways.
LEMMA ReachStart ==
    ASSUME TypeOK, OwnersAreReachable, NEW c \in Callers, StartConnection(c)
    PROVE  (OwnersAreReachable /\ StopsWaitForTheOwner)'
<1>1. CASE AwaitEnd(c)
  BY <1>1, ReachAwait
<1>2. CASE NewOwner(c) /\ (~Waits \/ connTask = NoOwner)
  BY <1>2, NoneToWaitFor, ReachNew
<1> QED
  BY <1>1, <1>2 DEF StartConnection

\* So does _stop_connection of disconnect.
LEMMA ReachAll ==
    ASSUME TypeOK, OwnersAreReachable, NEW c \in Callers, StopsAll(c)
    PROVE  (OwnersAreReachable /\ StopsWaitForTheOwner)'
<1>1. CASE AwaitEnd(c)
  BY <1>1, ReachAwait
<1>2. CASE ~Waits /\ Crosses(c) /\ UNCHANGED at
  BY <1>2, NoneToWaitFor, ReachNone DEF Crosses
<1> QED
  BY <1>1, <1>2 DEF StopsAll

\* Without overlaps the connection there is is the one in the tables.
LEMMA ReachStep ==
    ASSUME IInv, Next
    PROVE  (OwnersAreReachable /\ StopsWaitForTheOwner)'
<1> USE McpAssumption DEF ownerVars, registry, tables, flags, callerVars, Goto, Move, Owners,
     TypeOK,
     NotYetMade, CallersWaitForOwners,
           OwnersAreReachable, StopsWaitForTheOwner, Live, Stopping
<1>0. TypeOK /\ NotYetMade /\ CallersWaitForOwners
      /\ OwnersAreReachable /\ StopsWaitForTheOwner
  BY DEF IInv
<1>1. ASSUME NEW o \in Owners, OwnerBegins(o) PROVE (OwnersAreReachable /\ StopsWaitForTheOwner)'
  BY <1>0, <1>1 DEF OwnerBegins
<1>2. ASSUME NEW o \in Owners, StopArrives(o) PROVE (OwnersAreReachable /\ StopsWaitForTheOwner)'
  BY <1>0, <1>2 DEF StopArrives
<1>3. ASSUME NEW o \in Owners, Closes(o) PROVE (OwnersAreReachable /\ StopsWaitForTheOwner)'
  BY <1>0, <1>3 DEF Closes, Leave
<1>4. ASSUME NEW o \in Owners, CancelledOpening(o)
     PROVE (OwnersAreReachable /\ StopsWaitForTheOwner)'
  BY <1>0, <1>4 DEF CancelledOpening, Leave
<1>5. ASSUME NEW o \in Owners, CancelledHolding(o)
     PROVE (OwnersAreReachable /\ StopsWaitForTheOwner)'
  BY <1>0, <1>5 DEF CancelledHolding
<1>6. ASSUME NEW o \in Owners, CancelledClosing(o)
     PROVE (OwnersAreReachable /\ StopsWaitForTheOwner)'
  BY <1>0, <1>6 DEF CancelledClosing
<1>7. ASSUME NEW o \in Owners, Discovers(o) PROVE (OwnersAreReachable /\ StopsWaitForTheOwner)'
  BY <1>0, <1>7 DEF Discovers
<1>8. ASSUME NEW o \in Owners, Opens(o) PROVE (OwnersAreReachable /\ StopsWaitForTheOwner)'
  BY <1>0, <1>8 DEF Opens
<1>9. ASSUME NEW o \in Owners, OpenFails(o) PROVE (OwnersAreReachable /\ StopsWaitForTheOwner)'
  BY <1>0, <1>9 DEF OpenFails, Leave
<1>10. ASSUME NEW c \in Callers, StopTimesOut(c) PROVE (OwnersAreReachable /\ StopsWaitForTheOwner)'
  BY <1>0, <1>10 DEF StopTimesOut
<1>11. ASSUME NEW c \in Callers, Replaces(c) PROVE (OwnersAreReachable /\ StopsWaitForTheOwner)'
  BY <1>0, <1>11, NoneAfterStop, ReachNew DEF Replaces
<1>12. ASSUME NEW c \in Callers, Stopped(c) PROVE (OwnersAreReachable /\ StopsWaitForTheOwner)'
  BY <1>0, <1>12, NoneAfterStop, ReachNone DEF Stopped
<1>13. ASSUME NEW c \in Callers, ResetDone(c) PROVE (OwnersAreReachable /\ StopsWaitForTheOwner)'
  BY <1>0, <1>13, NoneAfterStop, ReachNone DEF ResetDone
<1>14. ASSUME NEW c \in Callers, Stop(c) PROVE (OwnersAreReachable /\ StopsWaitForTheOwner)'
  <2>1. CASE AwaitEnd(c)
    BY <1>0, <2>1, ReachAwait
  <2>2. CASE ~Waits /\ Crosses(c) /\ UNCHANGED at
    BY <1>0, <2>2, NoneToWaitFor, ReachNone DEF Crosses
  <2> QED
    BY <1>14, <2>1, <2>2 DEF Stop
<1>15. ASSUME NEW c \in Callers, Reset(c) PROVE (OwnersAreReachable /\ StopsWaitForTheOwner)'
  <2>1. CASE StopsAll(c)
    BY <1>0, <2>1, ReachAll
  <2>2. CASE Goto(c, "clearing") /\ UNCHANGED <<at, tables, target, overlapped>>
    <3>1. \A d \in Stopping' : /\ d \in Stopping /\ target'[d] = target[d]
                               /\ pc'[d] = "unwinding" => pc[d] = "unwinding"
      BY <1>0, <2>2
    <3> QED
      BY <1>0, <2>2, <3>1, ReachQuiet
  <2> QED
    BY <1>15, <2>1, <2>2 DEF Reset
<1>25. ASSUME NEW c \in Callers, Unwinds(c) PROVE (OwnersAreReachable /\ StopsWaitForTheOwner)'
  <2>1. \A d \in Stopping' : /\ d \in Stopping /\ target'[d] = target[d]
                             /\ pc'[d] = "unwinding" => pc[d] = "unwinding"
    BY <1>0, <1>25 DEF Unwinds, Return
  <2> QED
    BY <1>0, <1>25, <2>1, ReachQuiet DEF Unwinds
<1>26. ASSUME NEW c \in Callers, ResetGoesOn(c)
     PROVE (OwnersAreReachable /\ StopsWaitForTheOwner)'
  BY <1>0, <1>26, ReachAll DEF ResetGoesOn
<1>16. ASSUME NEW c \in Callers, Calls(c) PROVE (OwnersAreReachable /\ StopsWaitForTheOwner)'
  BY <1>0, <1>16, ReachStart DEF Calls
<1>17. ASSUME NEW c \in Callers, StartEnds(c) PROVE (OwnersAreReachable /\ StopsWaitForTheOwner)'
  BY <1>0, <1>17 DEF StartEnds, Reported, Return
<1>18. ASSUME NEW c \in Callers, ReconnectEnds(c)
     PROVE (OwnersAreReachable /\ StopsWaitForTheOwner)'
  BY <1>0, <1>18 DEF ReconnectEnds, Reported, Return
<1>19. ASSUME NEW c \in Callers, BacksOff(c) PROVE (OwnersAreReachable /\ StopsWaitForTheOwner)'
  BY <1>0, <1>19 DEF BacksOff, Reported
<1>20. ASSUME NEW c \in Callers, ConnectEnds(c) PROVE (OwnersAreReachable /\ StopsWaitForTheOwner)'
  BY <1>0, <1>20 DEF ConnectEnds, Reported, Return
<1>21. ASSUME NEW c \in Callers, NEW o \in Operations \ {"none"}, Queues(c, o)
     PROVE (OwnersAreReachable /\ StopsWaitForTheOwner)'
  BY <1>0, <1>21 DEF Queues, Allowed, Configures
<1>22. ASSUME NEW c \in Callers, NEW o \in {"start", "reconnect", "all"}, Start(c, o)
     PROVE (OwnersAreReachable /\ StopsWaitForTheOwner)'
  <2>1. CASE StartConnection(c)
    BY <1>0, <2>1, ReachStart
  <2>2. CASE Return(c) /\ UNCHANGED <<at, connTask, stopEvent, overlapped>>
    BY <1>0, <2>2, ReachQuiet DEF Return
  <2> QED
    BY <1>22, <2>1, <2>2 DEF Start
<1>23. ASSUME NEW c \in Callers, NEW o \in {"connect", "lazy"}, Connect(c, o)
     PROVE (OwnersAreReachable /\ StopsWaitForTheOwner)'
  <2>1. \A d \in Stopping' : /\ d \in Stopping /\ target'[d] = target[d]
                             /\ pc'[d] = "unwinding" => pc[d] = "unwinding"
    BY <1>0, <1>23 DEF Connect, Return
  <2>2. UNCHANGED <<at, connTask, stopEvent, overlapped>>
    BY <1>23 DEF Connect
  <2> QED
    BY <1>0, <2>1, <2>2, ReachQuiet
<1>24. ASSUME HealthCheck PROVE (OwnersAreReachable /\ StopsWaitForTheOwner)'
  BY <1>0, <1>24 DEF HealthCheck
<1> QED
  BY <1>1, <1>2, <1>3, <1>4, <1>5, <1>6, <1>7, <1>8, <1>9, <1>10, <1>11, <1>12, <1>13,
     <1>14, <1>15, <1>16, <1>17, <1>18, <1>19, <1>20, <1>21, <1>22, <1>23, <1>24,
     <1>25, <1>26
  DEF Next, OwnerMoves, ServerMoves, Begins, StopMoves, StartMoves

\* A step that neither begins nor ends a stop, nor makes an owner, leaves the mark true.
LEMMA MarkQuiet ==
    ASSUME StartsAreUnmarked, MarkedIsDown, UNCHANGED <<manual, overlapped>>,
           \A o \in Owners : Live(o)' => Live(o),
           \A c \in Callers : pc[c] \in {"stopping", "killing"} =>
               pc'[c] \in {"stopping", "killing"} /\ op'[c] = op[c],
           \A c \in Stopping' : c \in Stopping /\ op'[c] = op[c]
    PROVE  (StartsAreUnmarked /\ MarkedIsDown)'
  BY DEF StartsAreUnmarked, MarkedIsDown, Stopping

\* What is not marked is not marked wrongly.
LEMMA MarkGone ==
    ASSUME ~manual'
    PROVE  (StartsAreUnmarked /\ MarkedIsDown)'
  BY DEF StartsAreUnmarked, MarkedIsDown

\* Nor is what is stopped, once nobody is left in a stop or it is the user's.
LEMMA MarkDown ==
    ASSUME ~overlapped' => \A o \in Owners : ~Live(o)',
           ~overlapped' => \A d \in Stopping' : op'[d] \in {"stop", "reset"}
    PROVE  (StartsAreUnmarked /\ MarkedIsDown)'
  BY DEF StartsAreUnmarked, MarkedIsDown

\* disconnect's stop is nobody's start.
LEMMA MarkAll ==
    ASSUME TypeOK, MarkedIsDown, NEW c \in Callers \ Stopping, StopsAll(c)
    PROVE  (StartsAreUnmarked /\ MarkedIsDown)'
<1>1. CASE Clears(c)
  BY <1>1, MarkGone DEF Clears
<1>2. CASE AwaitEnd(c) /\ Doing(c, "reset") /\ UNCHANGED flags
  <2> SUFFICES ASSUME ~overlapped', manual' PROVE (StartsAreUnmarked /\ MarkedIsDown)'
    BY DEF StartsAreUnmarked, MarkedIsDown
  <2>1. ~overlapped /\ manual /\ Stopping \subseteq {c}
    BY <1>2, AwaitEndDoes DEF flags
  <2>2. \A d \in Stopping' : op'[d] = "reset"
    BY <1>2, <2>1, AwaitEndDoes DEF Stopping, Doing, TypeOK
  <2>3. (\A o \in Owners : ~Live(o)) \/ \E d \in Callers : op[d] = "stop" /\ d \in Stopping
    BY <2>1 DEF MarkedIsDown, Stopping
  <2> QED
    BY <1>2, <2>1, <2>2, <2>3, AwaitEndDoes, MarkDown DEF Live
<1> QED
  BY <1>1, <1>2 DEF StopsAll

\* The mark of a manual stop stays true.
LEMMA MarkStep ==
    ASSUME IInv, Next
    PROVE  (StartsAreUnmarked /\ MarkedIsDown)'
<1> USE McpAssumption DEF ownerVars, registry, tables, flags, callerVars, Goto, Move, TypeOK
<1>0. TypeOK /\ CallersWaitForOwners /\ OwnersAreReachable /\ StopsWaitForTheOwner
      /\ StartsAreUnmarked /\ MarkedIsDown
  BY DEF IInv
<1>1. ASSUME NEW o \in Owners, OwnerBegins(o) PROVE (StartsAreUnmarked /\ MarkedIsDown)'
  BY <1>0, <1>1, MarkQuiet DEF OwnerBegins, Live, Stopping
<1>2. ASSUME NEW o \in Owners, StopArrives(o) PROVE (StartsAreUnmarked /\ MarkedIsDown)'
  BY <1>0, <1>2, MarkQuiet DEF StopArrives, Live, Stopping
<1>3. ASSUME NEW o \in Owners, Closes(o) PROVE (StartsAreUnmarked /\ MarkedIsDown)'
  BY <1>0, <1>3, MarkQuiet DEF Closes, Leave, Live, Stopping
<1>4. ASSUME NEW o \in Owners, CancelledOpening(o) PROVE (StartsAreUnmarked /\ MarkedIsDown)'
  BY <1>0, <1>4, MarkQuiet DEF CancelledOpening, Leave, Live, Stopping
<1>5. ASSUME NEW o \in Owners, CancelledHolding(o) PROVE (StartsAreUnmarked /\ MarkedIsDown)'
  BY <1>0, <1>5, MarkQuiet DEF CancelledHolding, Live, Stopping
<1>6. ASSUME NEW o \in Owners, CancelledClosing(o) PROVE (StartsAreUnmarked /\ MarkedIsDown)'
  BY <1>0, <1>6, MarkQuiet DEF CancelledClosing, Live, Stopping
<1>7. ASSUME NEW o \in Owners, Discovers(o) PROVE (StartsAreUnmarked /\ MarkedIsDown)'
  BY <1>0, <1>7, MarkQuiet DEF Discovers, Live, Stopping
<1>8. ASSUME NEW o \in Owners, Opens(o) PROVE (StartsAreUnmarked /\ MarkedIsDown)'
  BY <1>0, <1>8, MarkQuiet DEF Opens, Live, Stopping
<1>9. ASSUME NEW o \in Owners, OpenFails(o) PROVE (StartsAreUnmarked /\ MarkedIsDown)'
  BY <1>0, <1>9, MarkQuiet DEF OpenFails, Leave, Live, Stopping
<1>10. ASSUME NEW c \in Callers, StopTimesOut(c) PROVE (StartsAreUnmarked /\ MarkedIsDown)'
  BY <1>0, <1>10, MarkQuiet DEF StopTimesOut, Live, Stopping
<1>17. ASSUME NEW c \in Callers, StartEnds(c) PROVE (StartsAreUnmarked /\ MarkedIsDown)'
  BY <1>0, <1>17, MarkQuiet DEF StartEnds, Reported, Return, Live, Stopping
<1>18. ASSUME NEW c \in Callers, ReconnectEnds(c) PROVE (StartsAreUnmarked /\ MarkedIsDown)'
  BY <1>0, <1>18, MarkQuiet DEF ReconnectEnds, Reported, Return, Live, Stopping
<1>19. ASSUME NEW c \in Callers, BacksOff(c) PROVE (StartsAreUnmarked /\ MarkedIsDown)'
  BY <1>0, <1>19, MarkQuiet DEF BacksOff, Reported, Live, Stopping
<1>20. ASSUME NEW c \in Callers, ConnectEnds(c) PROVE (StartsAreUnmarked /\ MarkedIsDown)'
  BY <1>0, <1>20, MarkQuiet DEF ConnectEnds, Reported, Return, Live, Stopping
<1>25. ASSUME NEW c \in Callers, Unwinds(c) PROVE (StartsAreUnmarked /\ MarkedIsDown)'
  BY <1>0, <1>25, MarkQuiet DEF Unwinds, Return, Live, Stopping
<1>11. ASSUME NEW c \in Callers, Replaces(c) PROVE (StartsAreUnmarked /\ MarkedIsDown)'
  <2> SUFFICES ASSUME ~overlapped' PROVE ~manual'
    BY MarkGone DEF StartsAreUnmarked, MarkedIsDown
  <2> QED
    BY <1>0, <1>11, NewOwnerDoes DEF Replaces, StopIsOver, StartsAreUnmarked, Stopping
<1>12. ASSUME NEW c \in Callers, Stopped(c) PROVE (StartsAreUnmarked /\ MarkedIsDown)'
  <2>1. ~overlapped' => \A o \in Owners : ~Live(o)'
    BY <1>0, <1>12, NoneAfterStop DEF Stopped, Live
  <2>2. \A d \in Callers \ {c} : op'[d] = op[d] /\ pc'[d] = pc[d]
    BY <1>0, <1>12 DEF Stopped, Unlists, Return, Doing
  <2>3. c \in Stopping' => op'[c] = "stop"
    BY <1>0, <1>12 DEF Stopped, Unlists, Return, Doing, Stopping
  <2>4. UNCHANGED <<manual, overlapped>>
    BY <1>12 DEF Stopped
  <2> QED
    BY <1>0, <2>1, <2>2, <2>3, <2>4 DEF StartsAreUnmarked, MarkedIsDown, Stopping
<1>13. ASSUME NEW c \in Callers, ResetDone(c) PROVE (StartsAreUnmarked /\ MarkedIsDown)'
  BY <1>13, MarkGone DEF ResetDone, Clears
<1>14. ASSUME NEW c \in Callers, Stop(c) PROVE (StartsAreUnmarked /\ MarkedIsDown)'
  <2> SUFFICES ASSUME ~overlapped' PROVE (StartsAreUnmarked /\ MarkedIsDown)'
    BY DEF StartsAreUnmarked, MarkedIsDown
  <2>1. CASE AwaitEnd(c) /\ Doing(c, "stop")
    <3>1. op'[c] = "stop" /\ pc'[c] = "stopping" /\ Stopping' \subseteq {c}
      BY <1>0, <2>1, AwaitEndDoes DEF Doing, Stopping
    <3> QED
      BY <3>1 DEF StartsAreUnmarked, MarkedIsDown
  <2>2. CASE ~Waits /\ Unlists(c) /\ Crosses(c) /\ UNCHANGED <<at, made>>
    <3>1. ~overlapped /\ Stopping \subseteq {c}
      BY <2>2 DEF Crosses
    <3>2. \A o \in Owners : ~Live(o)'
      BY <1>0, <2>2, <3>1, NoneToWaitFor DEF Live
    <3>3. \A d \in Stopping' : op'[d] = "stop"
      BY <1>0, <2>2, <3>1 DEF Unlists, Return, Doing, Stopping
    <3> QED
      BY <3>2, <3>3, MarkDown
  <2> QED
    BY <1>14, <2>1, <2>2 DEF Stop
<1>15. ASSUME NEW c \in Callers, Reset(c) PROVE (StartsAreUnmarked /\ MarkedIsDown)'
  <2>1. pc[c] \in {"idle", "entering"}
    BY <1>15 DEF Reset, Enters
  <2>2. CASE StopsAll(c)
    BY <1>0, <2>1, <2>2, MarkAll DEF Stopping
  <2>3. CASE Goto(c, "clearing") /\ Doing(c, "reset") /\ UNCHANGED <<at, flags, overlapped>>
    BY <1>0, <2>1, <2>3, MarkQuiet DEF Doing, Stopping, Live
  <2> QED
    BY <1>15, <2>2, <2>3 DEF Reset
<1>26. ASSUME NEW c \in Callers, ResetGoesOn(c) PROVE (StartsAreUnmarked /\ MarkedIsDown)'
  BY <1>0, <1>26, MarkAll DEF ResetGoesOn, Stopping
<1>16. ASSUME NEW c \in Callers, Calls(c) PROVE (StartsAreUnmarked /\ MarkedIsDown)'
  BY <1>16, MarkGone DEF Calls, StartConnection
<1>21. ASSUME NEW c \in Callers, NEW o \in Operations \ {"none"}, Queues(c, o)
     PROVE (StartsAreUnmarked /\ MarkedIsDown)'
  BY <1>0, <1>21, MarkQuiet DEF Queues, Live, Stopping
<1>22. ASSUME NEW c \in Callers, NEW o \in {"start", "reconnect", "all"}, Start(c, o)
     PROVE (StartsAreUnmarked /\ MarkedIsDown)'
  <2>1. CASE StartConnection(c)
    BY <2>1, MarkGone DEF StartConnection
  <2>2. CASE Return(c) /\ UNCHANGED <<at, manual, overlapped>>
    <3>1. pc[c] \in {"idle", "entering"}
      BY <1>22 DEF Start, Enters
    <3> QED
      BY <1>0, <2>2, <3>1, MarkQuiet DEF Return, Live, Stopping
  <2> QED
    BY <1>22, <2>1, <2>2 DEF Start
<1>23. ASSUME NEW c \in Callers, NEW o \in {"connect", "lazy"}, Connect(c, o)
     PROVE (StartsAreUnmarked /\ MarkedIsDown)'
  BY <1>0, <1>23, MarkQuiet DEF Connect, Enters, Doing, Return, Live, Stopping
<1>24. ASSUME HealthCheck PROVE (StartsAreUnmarked /\ MarkedIsDown)'
  BY <1>0, <1>24, MarkQuiet DEF HealthCheck, Live, Stopping
<1> QED
  BY <1>1, <1>2, <1>3, <1>4, <1>5, <1>6, <1>7, <1>8, <1>9, <1>10, <1>11, <1>12, <1>13,
     <1>14, <1>15, <1>16, <1>17, <1>18, <1>19, <1>20, <1>21, <1>22, <1>23, <1>24,
     <1>25, <1>26
  DEF Next, OwnerMoves, ServerMoves, Begins, StopMoves, StartMoves

\* The invariant is inductive.
LEMMA InvStep == IInv /\ [Next]_vars => IInv'
<1> SUFFICES ASSUME IInv, [Next]_vars PROVE IInv'
  OBVIOUS
<1>1. CASE Next
  BY <1>1, TypeStep, MadeStep, CallersStep, ReachStep, MarkStep DEF IInv
<1>2. CASE UNCHANGED vars
  BY <1>2 DEF vars, ownerVars, registry, tables, flags, callerVars, IInv, TypeOK, NotYetMade,
              CallersWaitForOwners, OwnersAreReachable, StopsWaitForTheOwner,
              StartsAreUnmarked, MarkedIsDown, Live, Stopping
<1> QED
  BY <1>1, <1>2

\* It holds at the start: there is no owner.
LEMMA InitInv == Init => IInv
<1> SUFFICES ASSUME Init PROVE IInv
  OBVIOUS
<1>1. TypeOK
  <2>1. made \in 0 .. MaxOwners /\ ops \in 0 .. MaxOps
    BY McpAssumption DEF Init
  <2>2. /\ at \in [Owners -> OwnerAt] /\ pc \in [Callers -> PCs] /\ op \in [Callers -> Operations]
        /\ tries \in [Callers -> Nat]
    BY DEF Init, OwnerAt, PCs, Operations
  <2> QED
    BY <2>1, <2>2 DEF Init, TypeOK
<1>2. NotYetMade /\ CallersWaitForOwners
  BY DEF Init, NotYetMade, CallersWaitForOwners
<1>3. OwnersAreReachable /\ StopsWaitForTheOwner /\ StartsAreUnmarked /\ MarkedIsDown
  BY DEF Init, OwnersAreReachable, StopsWaitForTheOwner, StartsAreUnmarked, MarkedIsDown, Live,
         Stopping
<1> QED
  BY <1>1, <1>2, <1>3 DEF IInv

-----------------------------------------------------------------------------
(***************************************************************************)
(* Theorems.                                                               *)
(***************************************************************************)

\* The inductive invariant holds in every run.
THEOREM McpInvariant == Spec => []IInv
  BY InitInv, InvStep, PTL DEF Spec

\* Every variable keeps its type.
THEOREM McpTypeCorrect == Spec => []TypeOK
<1>1. IInv => TypeOK
  BY DEF IInv
<1> QED
  BY <1>1, McpInvariant, PTL

\* Every connection is in the tables by which a stop reaches it, unless a start went into
\* another caller's stop (the finally clause removes the stop event whosever it is).
THEOREM McpOwnersAreReachable == Spec => []OwnersAreReachable
<1>1. IInv => OwnersAreReachable
  BY DEF IInv
<1> QED
  BY <1>1, McpInvariant, PTL

\* A server marked as stopped by the user has no connection, outside its stop and unless callers
\* overlapped (_start_connection takes the mark back, disconnect_server sets it).
THEOREM McpMarkedIsDown == Spec => []MarkedIsDown
<1>1. IInv => MarkedIsDown
  BY DEF IInv
<1> QED
  BY <1>1, McpInvariant, PTL

\* A stop that returns leaves no connection (disconnect_server), under the same condition.
THEOREM McpStopTakesEffect == Spec => StopTakesEffect
<1> DEFINE Effect == \A c \in Callers :
                       op[c] = "stop" /\ op'[c] = "none" /\ ~overlapped =>
                         \A o \in Owners : at'[o] \in {"none", "ended"}
<1>1. IInv /\ [Next]_vars => [Effect]_vars
  <2> SUFFICES ASSUME IInv, Next, NEW c \in Callers,
                      op[c] = "stop", op'[c] = "none", ~overlapped
               PROVE  \A o \in Owners : at'[o] \in {"none", "ended"}
    BY DEF Effect
  <2> USE DEF IInv, TypeOK, ownerVars, registry, tables, flags, callerVars
  <2>1. ASSUME UNCHANGED op PROVE FALSE
    BY <2>1
  <2>2. ASSUME NEW o \in Owners, OwnerMoves(o) \/ ServerMoves(o) PROVE FALSE
    BY <2>1, <2>2 DEF OwnerMoves, ServerMoves, OwnerBegins, StopArrives, Closes, CancelledOpening,
       CancelledHolding, CancelledClosing, Discovers, Opens, OpenFails
  <2>3. ASSUME NEW d \in Callers, NEW o \in Operations, Queues(d, o) PROVE FALSE
    BY <2>3 DEF Queues, CallersWaitForOwners, Goto
  <2>4. ASSUME NEW d \in Callers, Stop(d) PROVE \A o \in Owners : ~Live(o)'
    <3>1. ~Waits /\ UNCHANGED at
      BY <2>4 DEF Stop, Doing, AwaitEnd
    <3> QED
      BY <3>1, NoneToWaitFor DEF Live
  <2>5. ASSUME NEW d \in Callers, Stopped(d) PROVE \A o \in Owners : ~Live(o)'
    BY <2>5, NoneAfterStop DEF Stopped, Live
  <2>13. ASSUME NEW d \in Callers, Unwinds(d) PROVE \A o \in Owners : ~Live(o)'
    BY <2>13 DEF Unwinds, StopsWaitForTheOwner, Stopping, Live
  <2>14. ASSUME NEW d \in Callers, op[d] = "reset", StopsAll(d) PROVE FALSE
    BY <2>14 DEF StopsAll, Clears, Return, Doing
  <2>15. ASSUME NEW d \in Callers, ResetGoesOn(d) PROVE FALSE
    BY <2>14, <2>15 DEF ResetGoesOn, CallersWaitForOwners
  <2>6. ASSUME NEW d \in Callers, NEW o \in Operations, Enters(d, o), o # "stop",
               op' = [op EXCEPT ![d] = "none"] \/ Doing(d, o)
        PROVE  FALSE
    BY <2>6 DEF Enters, Doing, CallersWaitForOwners
  <2>7. ASSUME NEW d \in Callers, Reset(d) PROVE FALSE
    BY <2>6, <2>7 DEF Reset, StopsAll, Clears, Return, Operations
  <2>8. ASSUME NEW d \in Callers, NEW o \in {"start", "reconnect", "all"}, Start(d, o) PROVE FALSE
    BY <2>6, <2>8 DEF Start, Return, Operations
  <2>9. ASSUME NEW d \in Callers, NEW o \in {"connect", "lazy"}, Connect(d, o) PROVE FALSE
    BY <2>6, <2>9 DEF Connect, Return, Operations
  <2>10. ASSUME NEW d \in Callers,
                \/ StopTimesOut(d) \/ Replaces(d) \/ ResetDone(d) \/ Calls(d)
                \/ StartEnds(d) \/ ReconnectEnds(d) \/ BacksOff(d) \/ ConnectEnds(d)
         PROVE  FALSE
    BY <2>10 DEF StopTimesOut, Replaces, ResetDone, Clears, Calls, StartEnds, ReconnectEnds,
       BacksOff, ConnectEnds, Return
  <2>11. CASE HealthCheck
    BY <2>1, <2>11 DEF HealthCheck
  <2>12. (\A o \in Owners : ~Live(o)') => \A o \in Owners : at'[o] \in {"none", "ended"}
    BY DEF Live
  <2> QED
    BY <2>2, <2>3, <2>4, <2>5, <2>7, <2>8, <2>9, <2>10, <2>11, <2>12,
       <2>13, <2>15
    DEF Next, Begins, StopMoves, StartMoves
<1> QED
  BY <1>1, McpInvariant, PTL DEF Spec, StopTakesEffect

=============================================================================
