----------------------------- MODULE FifoTurns -----------------------------
(***************************************************************************)
(* What the session gate promises its callers: one turn at a time in a     *)
(* session, granted in the order in which the turns were requested, except *)
(* for those that withdraw.                                                *)
(***************************************************************************)
EXTENDS Queues

CONSTANTS Tasks, Sessions, NoTask

VARIABLES line,     \* session -> tasks waiting for their turn, first come first
          holder    \* session -> the task whose turn it is, or NoTask

vars == <<line, holder>>

Absent(t) == \A s \in Sessions : holder[s] # t /\ t \notin ToSet(line[s])

Init ==
    /\ line = [s \in Sessions |-> <<>>]
    /\ holder = [s \in Sessions |-> NoTask]

\* Nobody is ahead: the turn starts at once.
Start(t, s) ==
    /\ Absent(t)
    /\ holder[s] = NoTask
    /\ line[s] = <<>>
    /\ holder' = [holder EXCEPT ![s] = t]
    /\ UNCHANGED line

Join(t, s) ==
    /\ Absent(t)
    /\ line' = [line EXCEPT ![s] = Append(@, t)]
    /\ UNCHANGED holder

Grant(s) ==
    /\ holder[s] = NoTask
    /\ line[s] # <<>>
    /\ holder' = [holder EXCEPT ![s] = Head(line[s])]
    /\ line' = [line EXCEPT ![s] = Tail(@)]

Withdraw(t, s) ==
    /\ t \in ToSet(line[s])
    /\ line' = [line EXCEPT ![s] = Among(@, Tasks \ {t})]
    /\ UNCHANGED holder

Finish(s) ==
    /\ holder[s] # NoTask
    /\ holder' = [holder EXCEPT ![s] = NoTask]
    /\ UNCHANGED line

Next ==
    \E s \in Sessions :
        \/ Grant(s)
        \/ Finish(s)
        \/ \E t \in Tasks : Start(t, s) \/ Join(t, s) \/ Withdraw(t, s)

Spec == Init /\ [][Next]_vars

\* Turns end, and a free session serves whoever is first in its line.
FairSpec == Spec /\ \A s \in Sessions : WF_vars(Grant(s)) /\ WF_vars(Finish(s))
=============================================================================
