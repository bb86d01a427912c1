-------------------------------- MODULE Rapid --------------------------------
(***************************************************************************)
(* apps/crdt/rapid/crdt_rapid.cpp: replicas of one counter that flood      *)
(* their deltas as numbered messages.  A message is cached by every node   *)
(* that has seen it, rebroadcast with a probability that falls with the    *)
(* number of neighbours, advertised by gossip while it is cached, and      *)
(* fetched again by whoever finds its number in a gossip but not in its    *)
(* cache.                                                                  *)
(*                                                                         *)
(* The threads share gc, the pending delta, the cache, the cast queue and  *)
(* the neighbour table under a mutex each and never hold two of them.  A   *)
(* step below ends where what the thread did can be seen by another thread *)
(* that acts on it.  Operators introduced as a slip are wrong on purpose:  *)
(* the properties are shown to notice each of them.                        *)
(***************************************************************************)
EXTENDS GCounter, Sequences

CONSTANTS
  Hears,      \* Hears[n]: who is within range of n's broadcasts, n included
  MaxOps,     \* bound: MaxOps[n] increments are performed by node n
  Buffer,     \* bound: datagrams of each kind a node's socket buffer holds
  Beta,       \* the most neighbours with which a message is rebroadcast for
              \* certain: 2, as BETA is 2.5
  Headers,    \* the most cached numbers a gossip lists: 50
  Expiry,     \* the nodes whose cached messages may reach the age of CACHE_TTL
  Repeats,    \* may gen_id return a number again?  _rng is advanced by three
              \* threads without a lock, and a stale write sets it back
  Stoppers    \* the nodes whose duration and cooldown may elapse

ASSUME RapidAssumption ==
  /\ Hears \in [Node -> SUBSET Node]
  /\ MaxOps \in [Node -> Nat]
  /\ Buffer \in Nat \ {0} /\ Beta \in Nat /\ Headers \in Nat \ {0}
  /\ Repeats \in BOOLEAN
  /\ Expiry \subseteq Node /\ Stoppers \subseteq Node

VARIABLES
  gc,         \* the node's counter
  delta,      \* main thread: the delta on its way from gc to _pending_state
  pending,    \* _pending_state; Empty unless _has_pending
  made,       \* how many numbers gen_id has given out,
  reused,     \* and which of them more than once
  last,       \* local thread: {last_local_msgid}, {} before has_last
  cache,      \* _cache[id]: the payload, Empty if id is not cached
  queue,      \* _cast_queue
  recv,       \* receive thread: the datagram it is handling
  inbox,      \* datagrams waiting in the node's socket
  running     \* g_running, and the socket still open

vars == <<gc, delta, pending, made, reused, last, cache, queue, recv, inbox, running>>

\* 64-bit message numbers: the i-th one of its node.  A message carries at least
\* one new increment, so there are no more messages than increments.
Id == UNION {{n} \X (1 .. MaxOps[n]) : n \in Node}

Cast == [id : Id, payload : Counter, sure : BOOLEAN]

\* A data packet has one number, a request too, a gossip a list of them.
Kinds == {"data", "gossip", "request"}
Datagram == [kind : Kinds, ids : SUBSET Id, payload : Counter]
Packet(kind, ids, payload) == [kind |-> kind, ids |-> ids, payload |-> payload]
Nothing == Packet("none", {}, Empty)

Waiting(box, kind) == Cardinality({i \in DOMAIN box : box[i].kind = kind})

TypeOK ==
  /\ gc \in [Node -> Counter]
  /\ delta \in [Node -> Counter]
  /\ pending \in [Node -> Counter]
  /\ \A n \in Node : made[n] \in 0 .. MaxOps[n]
  /\ reused \subseteq Id
  /\ \A n \in Node : last[n] \in SUBSET Id /\ Cardinality(last[n]) <= 1
  /\ cache \in [Node -> [Id -> Counter]]
  /\ queue \in [Node -> SUBSET Cast]
  /\ recv \in [Node -> Datagram \cup {Nothing}]
  /\ inbox \in [Node -> Seq(Datagram)]
  /\ \A n \in Node, kind \in Kinds : Waiting(inbox[n], kind) <= Buffer
  /\ running \in [Node -> BOOLEAN]

Init ==
  /\ gc = [n \in Node |-> Empty]
  /\ delta = [n \in Node |-> Empty]
  /\ pending = [n \in Node |-> Empty]
  /\ made = [n \in Node |-> 0]
  /\ reused = {}
  /\ last = [n \in Node |-> {}]
  /\ cache = [n \in Node |-> [id \in Id |-> Empty]]
  /\ queue = [n \in Node |-> {}]
  /\ recv = [n \in Node |-> Nothing]
  /\ inbox = [n \in Node |-> <<>>]
  /\ running = [n \in Node |-> TRUE]

-----------------------------------------------------------------------------
(* Cache, numbers, neighbours and network.                                 *)

\* cache_exists.
Cached(n, id) == cache[n][id] # Empty

\* The numbers cached by n.
Numbers(n) == {id \in Id : Cached(n, id)}

\* cache_insert.
CacheInsert(n, id, payload) == cache' = [cache EXCEPT ![n][id] = payload]

\* gen_id.
NewIds(n) == {<<n, i>> : i \in IF Repeats THEN 1 .. made[n] + 1 ELSE {made[n] + 1}}

\* neighbor_count: the nodes whose heartbeats arrived in the last seconds, any of
\* those in range, itself included.
NeighborCounts(n) == 0 .. Cardinality({m \in Node : n \in Hears[m]})

\* min(1, BETA / max(1, ncount)), told apart by whether the first draw can fail.
Sure(ncount) == ncount <= Beta

\* The sockets once n has taken the first datagram out of its own.
Taken(n) == [inbox EXCEPT ![n] = Tail(@)]

\* send_broadcast; the nodes of heard receive the datagram, for the others it is
\* lost.  Nothing leaves a closed socket or enters a full one.
Broadcast(sockets, n, d, heard) ==
  /\ heard \subseteq
       {m \in Hears[n] : /\ running[n] /\ running[m]
                         /\ Waiting(sockets[m], d.kind) < Buffer}
  /\ inbox' = [m \in Node |-> IF m \in heard THEN Append(sockets[m], d) ELSE sockets[m]]

-----------------------------------------------------------------------------
(* main: run_random_mode, and the shutdown that follows the cooldown.      *)

\* gc.inc(1), under _gc_mutex.
LocalOp(n) ==
  /\ running[n] /\ delta[n] = Empty
  /\ gc[n][n] < MaxOps[n]
  /\ gc' = [gc EXCEPT ![n] = Incremented(@, n, 1)]
  /\ delta' = [delta EXCEPT ![n] = IncDelta(gc[n], n, 1)]
  /\ UNCHANGED <<pending, made, reused, last, cache, queue, recv, inbox, running>>

\* The delta joins or becomes _pending_state, under _pending_mutex.
AddPending(n) ==
  /\ delta[n] # Empty
  /\ pending' = [pending EXCEPT ![n] = Join(@, delta[n])]
  /\ delta' = [delta EXCEPT ![n] = Empty]
  /\ UNCHANGED <<gc, made, reused, last, cache, queue, recv, inbox, running>>

\* g_running.store(false); shutdown; close.
Stop(n) ==
  /\ n \in Stoppers /\ running[n] /\ delta[n] = Empty
  /\ running' = [running EXCEPT ![n] = FALSE]
  /\ inbox' = [inbox EXCEPT ![n] = <<>>]
  /\ UNCHANGED <<gc, delta, pending, made, reused, last, cache, queue, recv>>

-----------------------------------------------------------------------------
(* local_periodic_dissemination.                                           *)

\* There is something new: it is taken from _pending_state, numbered, cached and
\* queued.
PublishNew(n) ==
  /\ running[n] /\ pending[n] # Empty
  /\ \E id \in NewIds(n) :
       /\ CacheInsert(n, id, pending[n])
       /\ queue' = [queue EXCEPT ![n] =
            @ \cup {[id |-> id, payload |-> pending[n], sure |-> TRUE]}]
       /\ last' = [last EXCEPT ![n] = {id}]
       /\ made' = [made EXCEPT ![n] = IF id[2] > @ THEN id[2] ELSE @]
       /\ reused' = IF id[2] > made[n] THEN reused ELSE reused \cup {id}
  /\ pending' = [pending EXCEPT ![n] = Empty]
  /\ UNCHANGED <<gc, delta, recv, inbox, running>>

\* There is not: the last message is queued again, unless it left the cache.
PublishAgain(n) ==
  /\ running[n] /\ pending[n] = Empty
  /\ \E id \in last[n] :
       /\ Cached(n, id)
       /\ queue' = [queue EXCEPT ![n] =
            @ \cup {[id |-> id, payload |-> cache[n][id], sure |-> TRUE]}]
  /\ UNCHANGED <<gc, delta, pending, made, reused, last, cache, recv, inbox, running>>

-----------------------------------------------------------------------------
(* cast_worker, gossip_worker and periodic_maintenance.                    *)

\* Slip: an entry that was sent stays in the queue.
SendCastKeeping(n, e, heard) ==
  /\ running[n] /\ e \in queue[n]
  /\ Broadcast(inbox, n, Packet("data", {e.id}, e.payload), heard)
  /\ UNCHANGED <<gc, delta, pending, made, reused, last, cache, queue, recv, running>>

\* A due entry is sent ...
SendCast(n, e, heard) ==
  /\ running[n] /\ e \in queue[n]
  /\ Broadcast(inbox, n, Packet("data", {e.id}, e.payload), heard)
  /\ queue' = [queue EXCEPT ![n] = @ \ {e}]
  /\ UNCHANGED <<gc, delta, pending, made, reused, last, cache, recv, running>>

\* ... or put off, at most once: the next time its probability is 1.
Defer(n, e) ==
  /\ running[n] /\ e \in queue[n] /\ ~e.sure
  /\ queue' = [queue EXCEPT ![n] = (@ \ {e}) \cup {[e EXCEPT !.sure = TRUE]}]
  /\ UNCHANGED <<gc, delta, pending, made, reused, last, cache, recv, inbox, running>>

\* Numbers of cached messages are advertised, as many as fit.
Gossip(n, heard) ==
  /\ running[n]
  /\ \E ids \in SUBSET Numbers(n) :
       /\ ids # {}
       /\ Cardinality(ids) <= Headers /\ (ids = Numbers(n) \/ Cardinality(ids) = Headers)
       /\ Broadcast(inbox, n, Packet("gossip", ids, Empty), heard)
  /\ UNCHANGED <<gc, delta, pending, made, reused, last, cache, queue, recv, running>>

\* cache_cleanup: a message has reached its age.
Expire(n, id) ==
  /\ n \in Expiry /\ running[n] /\ Cached(n, id)
  /\ cache' = [cache EXCEPT ![n][id] = Empty]
  /\ UNCHANGED <<gc, delta, pending, made, reused, last, queue, recv, inbox, running>>

-----------------------------------------------------------------------------
(* recv_loop.                                                              *)

First(n) == Head(inbox[n])

Receives(n, kind) ==
  /\ running[n] /\ recv[n] = Nothing
  /\ inbox[n] # <<>> /\ First(n).kind = kind

\* MT_DATA: a message that is cached already is dropped; any other is cached.
RecvData(n) ==
  /\ Receives(n, "data")
  /\ inbox' = Taken(n)
  /\ \E id \in First(n).ids :
       \/ Cached(n, id) /\ UNCHANGED <<cache, recv>>
       \/ /\ ~Cached(n, id)
          /\ CacheInsert(n, id, First(n).payload)
          /\ recv' = [recv EXCEPT ![n] = First(n)]
  /\ UNCHANGED <<gc, delta, pending, made, reused, last, queue, running>>

\* Slip: the payload replaces the counter.
ApplyDataReplacing(n) ==
  /\ recv[n].kind = "data"
  /\ gc' = [gc EXCEPT ![n] = recv[n].payload]
  /\ recv' = [recv EXCEPT ![n] = Nothing]
  /\ UNCHANGED <<delta, pending, made, reused, last, cache, queue, inbox, running>>

\* Slip: the payload of a message that will be relayed is not joined.
ApplyDataRelaying(n) ==
  /\ recv[n].kind = "data"
  /\ \E id \in recv[n].ids :
       queue' = [queue EXCEPT ![n] =
         @ \cup {[id |-> id, payload |-> recv[n].payload, sure |-> TRUE]}]
  /\ recv' = [recv EXCEPT ![n] = Nothing]
  /\ UNCHANGED <<gc, delta, pending, made, reused, last, cache, inbox, running>>

\* gc.join under _gc_mutex; then the message is queued for its rebroadcast, for
\* certain or not according to the number of neighbours.
ApplyData(n) ==
  /\ recv[n].kind = "data"
  /\ gc' = [gc EXCEPT ![n] = Join(@, recv[n].payload)]
  /\ \E id \in recv[n].ids, ncount \in NeighborCounts(n) :
       queue' = [queue EXCEPT ![n] =
         @ \cup {[id |-> id, payload |-> recv[n].payload, sure |-> Sure(ncount)]}]
  /\ recv' = [recv EXCEPT ![n] = Nothing]
  /\ UNCHANGED <<delta, pending, made, reused, last, cache, inbox, running>>

\* MT_GOSSIP: the listed numbers are gone through one by one ...
RecvGossip(n) ==
  /\ Receives(n, "gossip")
  /\ inbox' = Taken(n)
  /\ recv' = [recv EXCEPT ![n] = First(n)]
  /\ UNCHANGED <<gc, delta, pending, made, reused, last, cache, queue, running>>

\* ... until none is left.
NextHeader(n, id) ==
  /\ recv[n].kind = "gossip" /\ id \in recv[n].ids
  /\ LET left == recv[n].ids \ {id}
     IN  recv' = [recv EXCEPT ![n] = IF left = {} THEN Nothing ELSE [recv[n] EXCEPT !.ids = left]]
  /\ UNCHANGED <<gc, delta, pending, made, reused, last, cache, queue, running>>

SkipHeader(n, id) == NextHeader(n, id) /\ Cached(n, id) /\ UNCHANGED inbox

\* send_request_once.
RequestHeader(n, id, heard) ==
  /\ NextHeader(n, id) /\ ~Cached(n, id)
  /\ Broadcast(inbox, n, Packet("request", {id}, Empty), heard)

\* Slip: only the origin answers.
RecvRequestOfOwn(n, heard) ==
  /\ Receives(n, "request")
  /\ \E id \in First(n).ids :
       \/ /\ Cached(n, id) /\ id[1] = n
          /\ Broadcast(Taken(n), n, Packet("data", {id}, cache[n][id]), heard)
       \/ /\ ~(Cached(n, id) /\ id[1] = n) /\ heard = {}
          /\ inbox' = Taken(n)
  /\ UNCHANGED <<gc, delta, pending, made, reused, last, cache, queue, recv, running>>

\* Slip: the answer is the counter of today.
RecvRequestNewest(n, heard) ==
  /\ Receives(n, "request")
  /\ \E id \in First(n).ids :
       \/ /\ Cached(n, id)
          /\ Broadcast(Taken(n), n, Packet("data", {id}, gc[n]), heard)
       \/ /\ ~Cached(n, id) /\ heard = {}
          /\ inbox' = Taken(n)
  /\ UNCHANGED <<gc, delta, pending, made, reused, last, cache, queue, recv, running>>

\* MT_REQUEST: whoever has the message broadcasts it at once.
RecvRequest(n, heard) ==
  /\ Receives(n, "request")
  /\ \E id \in First(n).ids :
       \/ /\ Cached(n, id)
          /\ Broadcast(Taken(n), n, Packet("data", {id}, cache[n][id]), heard)
       \/ /\ ~Cached(n, id) /\ heard = {}
          /\ inbox' = Taken(n)
  /\ UNCHANGED <<gc, delta, pending, made, reused, last, cache, queue, recv, running>>

-----------------------------------------------------------------------------
MainStep(n)  == LocalOp(n) \/ AddPending(n) \/ Stop(n)
LocalStep(n) == PublishNew(n) \/ PublishAgain(n)
CastStep(n, e) == Defer(n, e) \/ \E heard \in SUBSET Hears[n] : SendCast(n, e, heard)
GossipStep(n) == \E heard \in SUBSET Hears[n] : Gossip(n, heard)
RecvStep(n) ==
  \/ ApplyData(n)
  \/ RecvData(n) \/ RecvGossip(n) \/ \E heard \in SUBSET Hears[n] : RecvRequest(n, heard)
  \/ \E id \in recv[n].ids : SkipHeader(n, id)
  \/ \E id \in recv[n].ids, heard \in SUBSET Hears[n] : RequestHeader(n, id, heard)

Next ==
  \E n \in Node :
    \/ MainStep(n) \/ LocalStep(n) \/ GossipStep(n) \/ RecvStep(n)
    \/ \E e \in queue[n] : CastStep(n, e)
    \/ \E id \in Id : Expire(n, id)

Spec == Init /\ [][Next]_vars

(***************************************************************************)
(* Fairness.  Every thread runs, and pop_due goes through the cast queue   *)
(* from its oldest entry, so that none is passed over for ever.  Nobody    *)
(* promises further increments or the end of a run.  Broadcasts are lost,  *)
(* but not all of a kind over a link, if they keep being sent.             *)
(***************************************************************************)
CastOf(n, id) == \E e \in queue[n] : e.id = id /\ CastStep(n, e)

Heard(n, m, kind) ==
  \E heard \in SUBSET Hears[n] :
    /\ m \in heard
    /\ CASE kind = "data"    -> RecvRequest(n, heard) \/ \E e \in queue[n] : SendCast(n, e, heard)
         [] kind = "gossip"  -> Gossip(n, heard)
         [] kind = "request" -> \E id \in recv[n].ids : RequestHeader(n, id, heard)

Fairness ==
  \A n \in Node :
    /\ WF_vars(AddPending(n)) /\ WF_vars(LocalStep(n)) /\ WF_vars(GossipStep(n))
    /\ WF_vars(RecvStep(n))
    /\ \A id \in Id : WF_vars(CastOf(n, id))
    /\ \A m \in Hears[n], kind \in Kinds : SF_vars(Heard(n, m, kind))

FairSpec == Spec /\ Fairness

-----------------------------------------------------------------------------
(* Properties.                                                             *)

\* Dropping a message that is cached is safe: whatever is cached is counted, or
\* is the message the receive thread is just about to join.
CachedIsCounted ==
  \A n \in Node : \A id \in Numbers(n) :
    \/ Below(cache[n][id], gc[n])
    \/ recv[n].kind = "data" /\ recv[n].ids = {id} /\ recv[n].payload = cache[n][id]

\* A number that was given out once means the same payload to everybody, in
\* caches, queues and sockets alike, even when it is fetched again by request.
Meanings(id) ==
  {cache[n][id] : n \in Node}
    \cup {e.payload : e \in {f \in UNION {queue[n] : n \in Node} : f.id = id}}
    \cup {d.payload : d \in {r \in UNION {Range(inbox[n]) : n \in Node} :
                               r.kind = "data" /\ r.ids = {id}}}

OneMeaning == \A id \in Id \ reused : Cardinality(Meanings(id) \ {Empty}) <= 1

\* A message that waits to be rebroadcast is sent: a failed draw delays it once.
Relayed ==
  \A n \in Node : \A id \in Id :
    LET waiting == \E e \in queue[n] : e.id = id
    IN  id[1] # n => (waiting ~> ~waiting)

\* Once the increments stop, all nodes that hear each other over any number of
\* hops converge: what flooding loses, gossip and requests repair.
Convergence == <>[](\A n, m \in Node : gc[n] = gc[m])

\* Flooding with deduplication is still a replicated grow-only counter.
Abstract == INSTANCE ReplicatedCounter WITH view <- gc
ImplementsCounter == Abstract!Spec
=============================================================================
