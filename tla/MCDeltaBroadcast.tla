-------------------------- MODULE MCDeltaBroadcast --------------------------
(* An instance of DeltaBroadcast for TLC: two nodes that hear their own    *)
(* broadcasts too, as in crdt_broadcast.                                   *)
EXTENDS DeltaBroadcast

CONSTANTS n1, n2

Two == {n1, n2}
AllOfTwo == [n \in Two |-> Two]
ThreeOfOne == [n \in Two |-> IF n = n1 THEN 3 ELSE 1]
=============================================================================
