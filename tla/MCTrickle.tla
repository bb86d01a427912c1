------------------------------ MODULE MCTrickle ------------------------------
(* Instances of Trickle for TLC.                                           *)
EXTENDS Trickle

CONSTANTS n1, n2

\* Two nodes in range of each other.
Pair == {n1, n2}
PairHears == [n \in Pair |-> Pair \ {n}]
OneOfOne == [n \in Pair |-> IF n = n1 THEN 1 ELSE 0]
TwoOfOne == [n \in Pair |-> IF n = n1 THEN 2 ELSE 0]

One == [kind \in Kinds |-> 1]
TwoRepairs == [kind \in Kinds |-> IF kind = "repair" THEN 2 ELSE 1]
=============================================================================
