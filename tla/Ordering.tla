------------------------------ MODULE Ordering ------------------------------
(* Sets of numbers as sequences, such as the indices a mask selects.       *)
EXTENDS Integers, FiniteSets

\* The numbers of a set, the lowest first.
Ordered(S) ==
  [k \in 1 .. Cardinality(S) |-> CHOOSE p \in S : Cardinality({q \in S : q <= p}) = k]

\* The members of a set in the order R, which has <<a, b>> if a comes no later
\* than b.
Arranged(S, R) ==
  [k \in 1 .. Cardinality(S) |-> CHOOSE p \in S : Cardinality({q \in S : <<q, p>> \in R}) = k]
=============================================================================
