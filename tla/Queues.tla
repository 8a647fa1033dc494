------------------------------- MODULE Queues -------------------------------
(***************************************************************************)
(* What several modules do to a queue.                                     *)
(***************************************************************************)
EXTENDS Naturals, Sequences

\* The entries of a queue that are in K, in their order (VecDeque::retain):
\* SelectSeq, as a recursive function of values.
Kept(q, K) ==
    LET kept[i \in 0..Len(q)] ==
            IF i = 0 THEN <<>> ELSE IF q[i] \in K THEN Append(kept[i - 1], q[i]) ELSE kept[i - 1]
    IN kept[Len(q)]

\* The entries of a queue that are not in V.
Without(q, V) == Kept(q, {q[i] : i \in DOMAIN q} \ V)
=============================================================================
