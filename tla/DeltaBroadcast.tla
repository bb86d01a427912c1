--------------------------- MODULE DeltaBroadcast ---------------------------
(***************************************************************************)
(* apps/crdt/broadcast/crdt_broadcast.cpp and apps/crdt/multiunicast/      *)
(* crdt_multiunicast.cpp: replicas of one counter that send only deltas.   *)
(* run_random_mode joins each increment's delta into delta_buffer;         *)
(* dissemination_loop empties the buffer into a datagram and, while there  *)
(* is nothing new, repeats the last datagram retriggers_budget times.      *)
(* The two programs differ in the destinations only (a broadcast address,  *)
(* the configured peers).  Nobody forwards what it received.               *)
(*                                                                         *)
(* The threads share gc under _gc_mutex and delta_buffer under             *)
(* _delta_mutex; no step below holds both, as no thread does.              *)
(*                                                                         *)
(* Operators introduced as a slip are wrong on purpose: the properties are *)
(* shown to notice each of them.                                           *)
(***************************************************************************)
EXTENDS GCounter

CONSTANTS
  Peers,      \* Peers[n]: the nodes n's datagrams are addressed to
  Budget,     \* retriggers_budget
  MaxLost,    \* at most so many datagrams in a row are lost between two nodes
  MaxOps,     \* bound: MaxOps[n] increments are performed by node n
  Stoppers    \* the nodes whose duration and cooldown may elapse

ASSUME DeltaAssumption ==
  /\ Peers \in [Node -> SUBSET Node]
  /\ Budget \in Nat /\ MaxLost \in Nat
  /\ MaxOps \in [Node -> Nat]
  /\ Stoppers \subseteq Node

VARIABLES
  gc,         \* the node's counter
  delta,      \* main thread: the delta on its way from gc to delta_buffer
  buffer,     \* delta_buffer
  last,       \* dissemination thread: last_payload
  left,       \* and retriggers_left
  inbox,      \* datagrams waiting in the node's socket, in no order
  lost,       \* lost[n][m]: datagrams from n to m lost since one arrived
  running     \* g_running, and the socket still open

vars == <<gc, delta, buffer, last, left, inbox, lost, running>>

TypeOK ==
  /\ gc \in [Node -> Counter]
  /\ delta \in [Node -> Counter]
  /\ buffer \in [Node -> Counter]
  /\ last \in [Node -> Counter]
  /\ left \in [Node -> 0 .. Budget]
  /\ inbox \in [Node -> SUBSET Counter]
  /\ lost \in [Node -> [Node -> 0 .. MaxLost]]
  /\ running \in [Node -> BOOLEAN]

Init ==
  /\ gc = [n \in Node |-> Empty]
  /\ delta = [n \in Node |-> Empty]
  /\ buffer = [n \in Node |-> Empty]
  /\ last = [n \in Node |-> Empty]
  /\ left = [n \in Node |-> 0]
  /\ inbox = [n \in Node |-> {}]
  /\ lost = [n \in Node |-> [m \in Node |-> 0]]
  /\ running = [n \in Node |-> TRUE]

-----------------------------------------------------------------------------
(* main: run_random_mode, and the shutdown that follows the cooldown.      *)

\* d = gc.inc(1), under _gc_mutex.
LocalOp(n) ==
  /\ running[n] /\ delta[n] = Empty
  /\ gc[n][n] < MaxOps[n]
  /\ gc' = [gc EXCEPT ![n] = Incremented(@, n, 1)]
  /\ delta' = [delta EXCEPT ![n] = IncDelta(gc[n], n, 1)]
  /\ UNCHANGED <<buffer, last, left, inbox, lost, running>>

\* delta_buffer.join(d), under _delta_mutex.
BufferDelta(n) ==
  /\ delta[n] # Empty
  /\ buffer' = [buffer EXCEPT ![n] = Join(@, delta[n])]
  /\ delta' = [delta EXCEPT ![n] = Empty]
  /\ UNCHANGED <<gc, last, left, inbox, lost, running>>

\* g_running.store(false); shutdown; close: neither delta_buffer nor what waits
\* in the socket is looked at again.
Stop(n) ==
  /\ n \in Stoppers /\ running[n] /\ delta[n] = Empty
  /\ running' = [running EXCEPT ![n] = FALSE]
  /\ inbox' = [inbox EXCEPT ![n] = {}]
  /\ UNCHANGED <<gc, delta, buffer, last, left, lost>>

-----------------------------------------------------------------------------
(* dissemination_loop.                                                     *)

\* sendto each destination; those of heard receive it, and nobody misses more
\* than MaxLost in a row.
Send(n, payload, heard) ==
  /\ heard \subseteq Peers[n]
  /\ \A m \in Peers[n] \ heard : lost[n][m] < MaxLost
  /\ lost' = [lost EXCEPT ![n] =
       [m \in Node |-> IF m \in heard \/ m \notin Peers[n] THEN 0 ELSE @[m] + 1]]
  /\ inbox' = [m \in Node |->
       IF m \in heard /\ running[m] THEN inbox[m] \cup {payload} ELSE inbox[m]]

\* Slip: the budget is not renewed for a new payload.
SendNewOnce(n, heard) ==
  /\ running[n] /\ buffer[n] # Empty
  /\ Send(n, buffer[n], heard)
  /\ buffer' = [buffer EXCEPT ![n] = Empty]
  /\ last' = [last EXCEPT ![n] = buffer[n]]
  /\ UNCHANGED <<gc, delta, left, running>>

\* Something new: the buffer is taken and cleared under _delta_mutex, and the
\* payload sent.
SendNew(n, heard) ==
  /\ running[n] /\ buffer[n] # Empty
  /\ Send(n, buffer[n], heard)
  /\ buffer' = [buffer EXCEPT ![n] = Empty]
  /\ last' = [last EXCEPT ![n] = buffer[n]]
  /\ left' = [left EXCEPT ![n] = Budget]
  /\ UNCHANGED <<gc, delta, running>>

\* Nothing new: the last payload again, while the budget lasts.
SendAgain(n, heard) ==
  /\ running[n] /\ buffer[n] = Empty
  /\ left[n] > 0 /\ last[n] # Empty
  /\ Send(n, last[n], heard)
  /\ left' = [left EXCEPT ![n] = @ - 1]
  /\ UNCHANGED <<gc, delta, buffer, last, running>>

-----------------------------------------------------------------------------
\* Slip: what was received replaces the counter.
ReceiveReplacing(n, d) ==
  /\ running[n] /\ d \in inbox[n]
  /\ inbox' = [inbox EXCEPT ![n] = @ \ {d}]
  /\ gc' = [gc EXCEPT ![n] = d]
  /\ UNCHANGED <<delta, buffer, last, left, lost, running>>

\* recv_loop: deserialize, and gc.join under _gc_mutex.
Receive(n, d) ==
  /\ running[n] /\ d \in inbox[n]
  /\ inbox' = [inbox EXCEPT ![n] = @ \ {d}]
  /\ gc' = [gc EXCEPT ![n] = Join(@, d)]
  /\ UNCHANGED <<delta, buffer, last, left, lost, running>>

-----------------------------------------------------------------------------
MainStep(n) == LocalOp(n) \/ BufferDelta(n) \/ Stop(n)
Disseminate(n) == \E heard \in SUBSET Node : SendNew(n, heard) \/ SendAgain(n, heard)
RecvStep(n) == \E d \in inbox[n] : Receive(n, d)

Next == \E n \in Node : MainStep(n) \/ Disseminate(n) \/ RecvStep(n)

Spec == Init /\ [][Next]_vars

\* The scheduler runs every thread; increments and the end of a run are
\* nobody's promise.
Fairness ==
  \A n \in Node :
    WF_vars(BufferDelta(n)) /\ WF_vars(Disseminate(n)) /\ WF_vars(RecvStep(n))

FairSpec == Spec /\ Fairness

-----------------------------------------------------------------------------
(* Properties.                                                             *)

\* An increment is never dropped between the two mutexes: at any time the newest
\* own entry is in the delta main still holds, in delta_buffer, or in the last
\* payload sent, even when increments overtake the clearing of the buffer.
HandedOver ==
  \A n \in Node : gc[n][n] = Larger(delta[n][n], Larger(buffer[n][n], last[n][n]))

\* A delta carries increments of its sender only (there is no relaying), so a
\* node hears of k's increments from k alone.
OwnEntriesOnly ==
  \A n \in Node : \A k \in Node \ {n} :
    delta[n][k] = 0 /\ buffer[n][k] = 0 /\ last[n][k] = 0

\* Nobody counts an increment its origin has not performed, nor does any
\* datagram that is still on its way.
NothingInvented ==
  \A k \in Node :
    /\ \A n \in Node : gc[n][k] <= gc[k][k]
    /\ \A n \in Node : \A d \in inbox[n] : d[k] <= gc[k][k]

\* If no two nodes lose more than Budget datagrams in a row, and no node stops
\* early, the replicas of nodes that address each other converge.
Convergence ==
  [](\A n \in Node : running[n]) =>
    <>[](\A n, k \in Node : n \in Peers[k] => gc[n][k] = gc[k][k])

\* Sending deltas once or twice is still a replicated grow-only counter.
Abstract == INSTANCE ReplicatedCounter WITH view <- gc
ImplementsCounter == Abstract!Spec
=============================================================================
