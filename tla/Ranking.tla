------------------------------- MODULE Ranking -------------------------------
(* What sorting comes to: ORDER BY of the database, sorted() of Python.  An   *)
(* order is the set of the pairs <<x, y>> of which x comes before y.          *)
EXTENDS Naturals, FiniteSets

Before(S, order, x) == {y \in S : <<y, x>> \in order}
Place(S, order, x) == Cardinality(Before(S, order, x)) + 1

\* The elements of S, each at its place.
Ranking(S, order) ==
    [p \in 1..Cardinality(S) |-> CHOOSE x \in S : Place(S, order, x) = p]
==============================================================================
