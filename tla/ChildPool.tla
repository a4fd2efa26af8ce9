----------------------------- MODULE ChildPool -----------------------------
(***************************************************************************)
(* What the subagent manager promises those who start a child: it waits    *)
(* for one of a limited number of places, works only in its place, leaves  *)
(* the place when it has stopped working, and comes to one result, which   *)
(* does not change any more.                                               *)
(***************************************************************************)
EXTENDS Naturals, FiniteSets

CONSTANTS Children, Size, Results

VARIABLES life,     \* child -> what has become of it
          working,  \* children that work
          result    \* child -> its result, or "none"

vars == <<life, working, result>>

Init ==
    /\ life = [c \in Children |-> "new"]
    /\ working = {}
    /\ result = [c \in Children |-> "none"]

Placed == {c \in Children : life[c] = "placed"}

Moves(c, from, to) == life[c] = from /\ life' = [life EXCEPT ![c] = to]

Start(c) == Moves(c, "new", "waiting") /\ UNCHANGED <<working, result>>

\* A place: the child begins to work.
Admit(c) ==
    /\ Cardinality(Placed) < Size
    /\ Moves(c, "waiting", "placed")
    /\ working' = working \union {c}
    /\ UNCHANGED result

\* Called off before there was a place.
GiveUp(c) == Moves(c, "waiting", "leaving") /\ UNCHANGED <<working, result>>

Rest(c) ==
    /\ c \in working
    /\ working' = working \ {c}
    /\ UNCHANGED <<life, result>>

Release(c) ==
    /\ c \notin working
    /\ Moves(c, "placed", "leaving")
    /\ UNCHANGED <<working, result>>

Conclude(c) ==
    /\ Moves(c, "leaving", "over")
    /\ \E r \in Results : result' = [result EXCEPT ![c] = r]
    /\ UNCHANGED working

Next ==
    \E c \in Children :
        Start(c) \/ Admit(c) \/ GiveUp(c) \/ Rest(c) \/ Release(c) \/ Conclude(c)

Spec == Init /\ [][Next]_vars
=============================================================================
