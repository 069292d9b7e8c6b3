------------------------------ MODULE Recency ------------------------------
(* The order ORDER BY COALESCE(updated, created) DESC gives the rows of a     *)
(* table, and what LIMIT and OFFSET cut from it.  Only the order of the       *)
(* timestamps matters: a set of pairs <<j, i>>, "j was written later than i". *)
(* Timestamps have microseconds; no two rows share one.                       *)
EXTENDS Naturals, FiniteSets

IsRecency(newer, T) ==
    /\ newer \subseteq T \X T
    /\ \A i \in T : <<i, i>> \notin newer
    /\ \A i, j \in T : i # j => <<i, j>> \in newer \/ <<j, i>> \in newer
    /\ \A i, j, k \in T : <<i, j>> \in newer /\ <<j, k>> \in newer => <<i, k>> \in newer

\* The rows of S that a query returns before row i, and the place that gives i.
Before(S, newer, i) == {j \in S : <<j, i>> \in newer}
Place(S, newer, i) == Cardinality(Before(S, newer, i))

\* ... LIMIT n OFFSET o.
Page(S, newer, o, n) ==
    {i \in S : o <= Place(S, newer, i) /\ Place(S, newer, i) < o + n}

\* The order without row i, and with row i put after the rows of N and before
\* those of O.
Without(newer, i) == {p \in newer : p[1] # i /\ p[2] # i}
Placed(newer, i, N, O) == Without(newer, i) \cup (N \X {i}) \cup ({i} \X O)
=============================================================================
