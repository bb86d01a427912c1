------------------------------ MODULE GCounter ------------------------------
(***************************************************************************)
(* The grow-only counter of apps/crdt/common/delta-crdts.cc, the data type *)
(* every CRDT application of the repository replicates.  A gcounter holds  *)
(* map<K,V> m with one key per replica that has incremented; here it is a  *)
(* function on all replicas in which an absent key reads 0.  No key is     *)
(* ever entered with the value 0 by the operations below, so 0 stands for  *)
(* absence exactly, and the one-entry delta inc returns is a counter too.  *)
(***************************************************************************)
EXTENDS Naturals, FiniteSets, Functions

CONSTANT Node      \* the replicas; each one's identifier is its key in m

ASSUME NodeAssumption == Node # {} /\ IsFiniteSet(Node)

Counter == [Node -> Nat]

\* gcounter(): no key at all.
Empty == [k \in Node |-> 0]

Larger(a, b) == IF a >= b THEN a ELSE b

\* inc(tosum) of replica id: m[id] += tosum.
Incremented(g, id, tosum) == [g EXCEPT ![id] = @ + tosum]

\* Slip: the delta is taken before the increment.
IncDeltaTooEarly(g, id, tosum) == [Empty EXCEPT ![id] = g[id]]

\* The delta inc returns: the one key id, with the new absolute value of m[id].
IncDelta(g, id, tosum) == [Empty EXCEPT ![id] = g[id] + tosum]

\* Slip: merging by addition, as if a delta were relative.
JoinAdding(g, h) == [k \in Node |-> g[k] + h[k]]

\* join: every key of the other counter is entered with the larger value.
Join(g, h) == [k \in Node |-> Larger(g[k], h[k])]

\* read(): the sum over all keys.
Read(g) == FoldFunction(+, 0, g)

\* The order that join is the least upper bound of.
Below(g, h) == \A k \in Node : g[k] <= h[k]
=============================================================================
