------------------------------- MODULE Queues -------------------------------
(***************************************************************************)
(* Sequences without repetition, from which elements leave in any order.   *)
(***************************************************************************)
EXTENDS Naturals, SequencesExt

Occurs(x, q) == \E i \in DOMAIN q : q[i] = x

Distinct(q) == \A i, j \in DOMAIN q : q[i] = q[j] => i = j

\* q without the first x in it.
Without(q, x) == RemoveAt(q, CHOOSE i \in DOMAIN q : q[i] = x)

\* The elements of q that are in P, in their order (SelectSeq, which takes an operator,
\* has no meaning for the provers).
Among(q, P) ==
    LET f[i \in 0 .. Len(q)] ==
            IF i = 0 THEN <<>>
            ELSE IF q[i] \in P THEN Append(f[i - 1], q[i]) ELSE f[i - 1]
    IN  f[Len(q)]
=============================================================================
