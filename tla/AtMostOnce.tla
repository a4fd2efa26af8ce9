----------------------------- MODULE AtMostOnce -----------------------------
(***************************************************************************)
(* What the ledger of tool operations promises: an operation is executed   *)
(* by one body at a time, comes to one outcome, and is executed again only *)
(* after an outcome other than success.  Finished operations may be        *)
(* forgotten; one that is being executed may not.                          *)
(***************************************************************************)
CONSTANT Ops

VARIABLE status    \* operation -> "new", "RUNNING" or its outcome

Outcomes == {"SUCCEEDED", "FAILED", "CANCELLED", "UNKNOWN_OUTCOME"}

Init == status = [op \in Ops |-> "new"]

MayBegin(op) == status[op] \in {"new", "FAILED", "CANCELLED", "UNKNOWN_OUTCOME"}

Begin(op) ==
    /\ MayBegin(op)
    /\ status' = [status EXCEPT ![op] = "RUNNING"]

\* The operation comes to the outcome r, and those in gone are forgotten.
Finish(op, r, gone) ==
    /\ \/ status[op] = "RUNNING"
       \/ MayBegin(op) /\ r \in {"FAILED", "CANCELLED"}
    /\ \A o \in gone : status[o] \in Outcomes \/ o = op
    /\ status' = [o \in Ops |-> IF o \in gone THEN "new"
                                ELSE IF o = op THEN r ELSE status[o]]

Next ==
    \E op \in Ops :
        \/ Begin(op)
        \/ \E r \in Outcomes, gone \in SUBSET Ops : Finish(op, r, gone)

Spec == Init /\ [][Next]_status
=============================================================================
