------------------------------- MODULE Ordered -------------------------------
(***************************************************************************)
(* A set of numbers in ascending order, and the part of a sequence at some *)
(* of its places: what a comprehension or a sorted() of the code returns.  *)
(* SelectSeq and SetToSortSeq compute the same, from an operator; these    *)
(* are defined by counting, so that theorems can speak of them.            *)
(***************************************************************************)
EXTENDS Integers, Sequences, FiniteSets

\* The place of k when W is in order.
Rank(W, k) == Cardinality({m \in W : m <= k})

\* The members of the finite set W, ascending.
InOrder(W) == [j \in 1 .. Cardinality(W) |-> CHOOSE k \in W : Rank(W, k) = j]

\* The members of s at its places in K, in their order.
Picked(s, K) ==
    LET places == InOrder(K) IN [j \in 1 .. Len(places) |-> s[places[j]]]
=============================================================================
