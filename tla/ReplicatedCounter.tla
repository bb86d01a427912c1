-------------------------- MODULE ReplicatedCounter --------------------------
(***************************************************************************)
(* What every dissemination protocol of apps/crdt promises about the       *)
(* counter it replicates, whatever its messages: a node's own entry grows  *)
(* by its own increments only, and a node learns of the increments of      *)
(* others without ever forgetting one or counting one that did not happen. *)
(***************************************************************************)
EXTENDS Naturals

CONSTANTS
  Node,
  MaxOps     \* bound: MaxOps[n] increments are performed by node n

VARIABLE view     \* view[n][k]: the increments of k that n counts

Init == view = [n \in Node |-> [k \in Node |-> 0]]

\* Node n performs one increment.
Increment(n) ==
  /\ view[n][n] < MaxOps[n]
  /\ view' = [view EXCEPT ![n][n] = @ + 1]

\* Node n learns something: its view grows towards the truth.
Learn(n) ==
  \E g \in [Node -> UNION {0 .. MaxOps[k] : k \in Node}] :
    /\ \A k \in Node : view[n][k] <= g[k] /\ g[k] <= view[k][k]
    /\ view' = [view EXCEPT ![n] = g]

Next == \E n \in Node : Increment(n) \/ Learn(n)

Spec == Init /\ [][Next]_view
=============================================================================
