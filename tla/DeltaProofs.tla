----------------------------- MODULE DeltaProofs -----------------------------
(***************************************************************************)
(* What DeltaBroadcast promises for every number of nodes, every choice of *)
(* destinations, every retrigger budget and every pattern of loss.         *)
(***************************************************************************)
EXTENDS DeltaBroadcast, TLAPS

-----------------------------------------------------------------------------
(* The inductive invariant.                                                *)

\* An increment moves from gc through delta and delta_buffer to last_payload;
\* what is nearer to gc is newer.  HandedOver is not inductive without this: a
\* buffer older than the last payload would replace it in SendNew.
Ordered ==
  \A n \in Node :
    /\ delta[n][n] > 0 => delta[n][n] > buffer[n][n] /\ delta[n][n] > last[n][n]
    /\ buffer[n][n] > 0 => buffer[n][n] > last[n][n]

\* A counter that claims no increment its origin has not performed.
Truthful(g) == \A k \in Node : g[k] <= gc[k][k]

\* The increments are bounded as the abstract counter's are.
IInv ==
  /\ TypeOK
  /\ OwnEntriesOnly
  /\ HandedOver
  /\ Ordered
  /\ \A n \in Node : Truthful(gc[n]) /\ gc[n][n] <= MaxOps[n]
  /\ \A n \in Node : \A d \in inbox[n] : Truthful(d)

\* The invariant contains what InventsNothing states.
LEMMA IInvImplies == IInv => NothingInvented
  BY DEF IInv, NothingInvented, Truthful

\* A counter that has an entry of n only is empty exactly when that entry is 0.
LEMMA OneEntry ==
  ASSUME NEW n \in Node, NEW g \in Counter, \A k \in Node \ {n} : g[k] = 0
  PROVE  g = Empty <=> g[n] = 0
  BY DEF Counter, Empty

\* Nothing has happened yet.
LEMMA InitIInv == Init => IInv
  BY DeltaAssumption DEF Init, IInv, TypeOK, OwnEntriesOnly, HandedOver, Ordered,
     Truthful, Empty, Counter, Larger

\* Sending a truthful counter puts only truthful counters into the sockets.
LEMMA SendKeeps ==
  ASSUME IInv, NEW n \in Node, NEW p \in Counter, Truthful(p), NEW heard,
         Send(n, p, heard)
  PROVE  /\ inbox' \in [Node -> SUBSET Counter]
         /\ lost' \in [Node -> [Node -> 0 .. MaxLost]]
         /\ \A m \in Node : \A d \in inbox'[m] : Truthful(d)
  <1>1. inbox' = [m \in Node |->
          IF m \in heard /\ running[m] THEN inbox[m] \cup {p} ELSE inbox[m]]
    BY DEF Send
  <1>2. lost' = [lost EXCEPT ![n] =
          [m \in Node |-> IF m \in heard \/ m \notin Peers[n] THEN 0 ELSE lost[n][m] + 1]]
    BY DEF Send
  <1>3. \A m \in Peers[n] \ heard : lost[n][m] < MaxLost
    BY DEF Send
  <1>4. lost \in [Node -> [Node -> 0 .. MaxLost]] /\ MaxLost \in Nat
    BY DeltaAssumption DEF IInv, TypeOK
  <1>5. lost' \in [Node -> [Node -> 0 .. MaxLost]]
    <2>1. \A m \in Node :
            (IF m \in heard \/ m \notin Peers[n] THEN 0 ELSE lost[n][m] + 1) \in 0 .. MaxLost
      BY <1>3, <1>4
    <2>2. QED
      BY <1>2, <1>4, <2>1
  <1>6. inbox' \in [Node -> SUBSET Counter]
    BY <1>1 DEF IInv, TypeOK
  <1>7. \A m \in Node : \A d \in inbox'[m] : Truthful(d)
    BY <1>1 DEF IInv
  <1>8. QED
    BY <1>5, <1>6, <1>7

-----------------------------------------------------------------------------
(* Every step keeps it.                                                    *)

\* The steps that leave gc alone: what remains to be shown of each.
LEMMA GcKept ==
  ASSUME IInv, TypeOK', OwnEntriesOnly', HandedOver', Ordered', UNCHANGED gc,
         \A n \in Node : \A d \in inbox'[n] : Truthful(d)
  PROVE  IInv'
  BY DEF IInv, Truthful

\* An increment, and the delta that carries it.
LEMMA LocalOpStep ==
  ASSUME IInv, NEW n \in Node, LocalOp(n)
  PROVE  /\ IInv'
         /\ gc' = [gc EXCEPT ![n][n] = @ + 1]
  <1>t. /\ gc \in [Node -> [Node -> Nat]] /\ delta \in [Node -> [Node -> Nat]]
        /\ buffer \in [Node -> [Node -> Nat]] /\ last \in [Node -> [Node -> Nat]]
        /\ MaxOps \in [Node -> Nat]
    BY DeltaAssumption DEF IInv, TypeOK, Counter
  <1>1. gc' = [gc EXCEPT ![n] = [gc[n] EXCEPT ![n] = gc[n][n] + 1]]
    BY DEF LocalOp, Incremented
  <1>2. gc' = [gc EXCEPT ![n][n] = @ + 1]
    BY <1>1
  <1>3. delta' = [delta EXCEPT ![n] = [k \in Node |-> IF k = n THEN gc[n][n] + 1 ELSE 0]]
    BY DEF LocalOp, IncDelta, Empty
  <1>4. UNCHANGED <<buffer, last, left, inbox, lost, running>>
    BY DEF LocalOp
  <1>5. TypeOK'
    BY <1>t, <1>2, <1>3, <1>4 DEF IInv, TypeOK, Counter
  <1>6. gc[n][n] = Larger(buffer[n][n], last[n][n])
    BY <1>t DEF LocalOp, IInv, HandedOver, Empty, Larger
  <1>7. HandedOver'
    <2> SUFFICES ASSUME NEW m \in Node
                 PROVE  gc'[m][m] = Larger(delta'[m][m], Larger(buffer[m][m], last[m][m]))
      BY <1>4 DEF HandedOver
    <2>1. CASE m = n
      BY <2>1, <1>t, <1>2, <1>3, <1>6 DEF Larger
    <2>2. CASE m # n
      BY <2>2, <1>t, <1>2, <1>3 DEF IInv, HandedOver
    <2>3. QED
      BY <2>1, <2>2
  <1>8. Ordered'
    BY <1>t, <1>3, <1>4, <1>6 DEF IInv, Ordered, Larger
  <1>9. OwnEntriesOnly'
    BY <1>t, <1>3, <1>4 DEF IInv, OwnEntriesOnly
  <1>10. \A m \in Node : Truthful(gc[m])' /\ gc'[m][m] <= MaxOps[m]
    BY <1>t, <1>2 DEF IInv, Truthful, LocalOp
  <1>11. \A m \in Node : \A d \in inbox'[m] : Truthful(d)'
    BY <1>t, <1>2, <1>4 DEF IInv, Truthful, TypeOK, Counter
  <1>12. QED
    BY <1>2, <1>5, <1>7, <1>8, <1>9, <1>10, <1>11 DEF IInv

\* The delta joins delta_buffer.
LEMMA BufferDeltaStep ==
  ASSUME IInv, NEW n \in Node, BufferDelta(n)
  PROVE  IInv'
  <1>t. /\ gc \in [Node -> [Node -> Nat]] /\ delta \in [Node -> [Node -> Nat]]
        /\ buffer \in [Node -> [Node -> Nat]] /\ last \in [Node -> [Node -> Nat]]
    BY DEF IInv, TypeOK, Counter
  <1>1. delta[n][n] > 0
    <2>1. delta[n] \in Counter /\ \A k \in Node \ {n} : delta[n][k] = 0
      BY <1>t DEF IInv, OwnEntriesOnly, Counter
    <2>2. delta[n][n] # 0
      BY <2>1, OneEntry DEF BufferDelta
    <2>3. QED
      BY <1>t, <2>2
  <1>2. buffer' = [buffer EXCEPT ![n] = [k \in Node |-> Larger(buffer[n][k], delta[n][k])]]
    BY DEF BufferDelta, Join
  <1>3. delta' = [delta EXCEPT ![n] = [k \in Node |-> 0]]
    BY DEF BufferDelta, Empty
  <1>4. UNCHANGED <<gc, last, left, inbox, lost, running>>
    BY DEF BufferDelta
  <1>5. buffer'[n][n] = delta[n][n] /\ delta[n][n] > last[n][n]
    BY <1>t, <1>1, <1>2 DEF IInv, Ordered, Larger
  <1>6. \A m \in Node \ {n} : buffer'[m] = buffer[m] /\ delta'[m] = delta[m]
    BY <1>t, <1>2, <1>3
  <1>7. TypeOK'
    BY <1>t, <1>2, <1>3, <1>4 DEF IInv, TypeOK, Counter, Larger
  <1>8. HandedOver'
    <2> SUFFICES ASSUME NEW m \in Node
                 PROVE  gc[m][m] = Larger(delta'[m][m], Larger(buffer'[m][m], last[m][m]))
      BY <1>4 DEF HandedOver
    <2>1. CASE m = n
      BY <2>1, <1>t, <1>1, <1>3, <1>5 DEF IInv, HandedOver, Ordered, Larger
    <2>2. CASE m # n
      BY <2>2, <1>6 DEF IInv, HandedOver
    <2>3. QED
      BY <2>1, <2>2
  <1>9. Ordered'
    <2> SUFFICES ASSUME NEW m \in Node
                 PROVE  /\ delta'[m][m] > 0 => /\ delta'[m][m] > buffer'[m][m]
                                               /\ delta'[m][m] > last[m][m]
                        /\ buffer'[m][m] > 0 => buffer'[m][m] > last[m][m]
      BY <1>4 DEF Ordered
    <2>1. CASE m = n
      BY <2>1, <1>t, <1>3, <1>5
    <2>2. CASE m # n
      BY <2>2, <1>6 DEF IInv, Ordered
    <2>3. QED
      BY <2>1, <2>2
  <1>10. OwnEntriesOnly'
    BY <1>t, <1>2, <1>3, <1>4 DEF IInv, OwnEntriesOnly, Larger
  <1>11. QED
    BY <1>4, <1>7, <1>8, <1>9, <1>10, GcKept DEF IInv

\* A datagram leaves: the buffer becomes the last payload, or the last payload
\* goes once more.
LEMMA DisseminateStep ==
  ASSUME IInv, NEW n \in Node, Disseminate(n)
  PROVE  IInv'
  <1>t. /\ gc \in [Node -> [Node -> Nat]] /\ delta \in [Node -> [Node -> Nat]]
        /\ buffer \in [Node -> [Node -> Nat]] /\ last \in [Node -> [Node -> Nat]]
        /\ left \in [Node -> 0 .. Budget] /\ Budget \in Nat
    BY DeltaAssumption DEF IInv, TypeOK, Counter
  <1>o. /\ \A k \in Node \ {n} : buffer[n][k] = 0 /\ last[n][k] = 0
        /\ gc[n][n] = Larger(delta[n][n], Larger(buffer[n][n], last[n][n]))
    BY DEF IInv, OwnEntriesOnly, HandedOver
  <1>o1. buffer[n][n] <= gc[n][n] /\ last[n][n] <= gc[n][n]
    BY <1>t, <1>o DEF Larger
  <1>o2. /\ buffer[n] \in Counter /\ last[n] \in Counter
         /\ Truthful(buffer[n]) /\ Truthful(last[n])
    <2>1. \A k \in Node : buffer[n][k] <= gc[k][k] /\ last[n][k] <= gc[k][k]
      <3> SUFFICES ASSUME NEW k \in Node
                   PROVE  buffer[n][k] <= gc[k][k] /\ last[n][k] <= gc[k][k]
        OBVIOUS
      <3>1. CASE k = n
        BY <3>1, <1>o1
      <3>2. CASE k # n
        BY <3>2, <1>t, <1>o
      <3>3. QED
        BY <3>1, <3>2
    <2>2. QED
      BY <1>t, <2>1 DEF Truthful, Counter
  <1>1. ASSUME NEW heard \in SUBSET Node, SendNew(n, heard) PROVE IInv'
    <2>1. /\ inbox' \in [Node -> SUBSET Counter]
          /\ lost' \in [Node -> [Node -> 0 .. MaxLost]]
          /\ \A m \in Node : \A d \in inbox'[m] : Truthful(d)
      BY <1>1, <1>o2, SendKeeps DEF SendNew
    <2>2. /\ buffer' = [buffer EXCEPT ![n] = [k \in Node |-> 0]]
          /\ last' = [last EXCEPT ![n] = buffer[n]]
          /\ left' = [left EXCEPT ![n] = Budget]
          /\ UNCHANGED <<gc, delta, running>>
      BY <1>1 DEF SendNew, Empty
    <2>3. buffer[n][n] > 0
      BY <1>1, <1>t, <1>o, <1>o2, OneEntry DEF SendNew, Counter
    <2>4. TypeOK'
      BY <1>t, <2>1, <2>2 DEF IInv, TypeOK, Counter
    <2>5. \A m \in Node \ {n} : buffer'[m] = buffer[m] /\ last'[m] = last[m]
      BY <1>t, <2>2
    <2>6. buffer'[n][n] = 0 /\ last'[n] = buffer[n]
      BY <1>t, <2>2
    <2>7. HandedOver'
      <3> SUFFICES ASSUME NEW m \in Node
                   PROVE  gc[m][m] = Larger(delta[m][m], Larger(buffer'[m][m], last'[m][m]))
        BY <2>2 DEF HandedOver
      <3>1. CASE m = n
        BY <3>1, <1>t, <1>o, <2>3, <2>6 DEF IInv, Ordered, Larger
      <3>2. CASE m # n
        BY <3>2, <2>5 DEF IInv, HandedOver
      <3>3. QED
        BY <3>1, <3>2
    <2>8. Ordered'
      <3> SUFFICES ASSUME NEW m \in Node
                   PROVE  /\ delta[m][m] > 0 => /\ delta[m][m] > buffer'[m][m]
                                                /\ delta[m][m] > last'[m][m]
                          /\ buffer'[m][m] > 0 => buffer'[m][m] > last'[m][m]
        BY <2>2 DEF Ordered
      <3>1. CASE m = n
        BY <3>1, <1>t, <2>6 DEF IInv, Ordered
      <3>2. CASE m # n
        BY <3>2, <2>5 DEF IInv, Ordered
      <3>3. QED
        BY <3>1, <3>2
    <2>9. OwnEntriesOnly'
      BY <1>t, <2>2 DEF IInv, OwnEntriesOnly
    <2>10. QED
      BY <2>1, <2>2, <2>4, <2>7, <2>8, <2>9, GcKept
  <1>2. ASSUME NEW heard \in SUBSET Node, SendAgain(n, heard) PROVE IInv'
    <2>1. /\ inbox' \in [Node -> SUBSET Counter]
          /\ lost' \in [Node -> [Node -> 0 .. MaxLost]]
          /\ \A m \in Node : \A d \in inbox'[m] : Truthful(d)
      BY <1>2, <1>o2, SendKeeps DEF SendAgain
    <2>2. /\ left' = [left EXCEPT ![n] = @ - 1] /\ left[n] > 0
          /\ UNCHANGED <<gc, delta, buffer, last, running>>
      BY <1>2 DEF SendAgain
    <2>3. left' \in [Node -> 0 .. Budget]
      BY <1>t, <2>2
    <2>4. TypeOK'
      BY <2>1, <2>2, <2>3 DEF IInv, TypeOK
    <2>5. HandedOver' /\ Ordered' /\ OwnEntriesOnly'
      BY <2>2 DEF IInv, HandedOver, Ordered, OwnEntriesOnly
    <2>6. QED
      BY <2>1, <2>2, <2>4, <2>5, GcKept
  <1>3. QED
    BY <1>1, <1>2 DEF Disseminate

\* A delta arrives: others' entries grow, the node's own does not.
LEMMA ReceiveStep ==
  ASSUME IInv, NEW n \in Node, NEW d \in inbox[n], Receive(n, d)
  PROVE  /\ IInv'
         /\ d \in Counter /\ Truthful(d)
         /\ gc' = [gc EXCEPT ![n] = Join(gc[n], d)]
  <1>t. gc \in [Node -> [Node -> Nat]] /\ d \in [Node -> Nat]
    BY DEF IInv, TypeOK, Counter
  <1>1. Truthful(d) /\ Truthful(gc[n])
    BY DEF IInv
  <1>2. /\ gc' = [gc EXCEPT ![n] = [k \in Node |-> Larger(gc[n][k], d[k])]]
        /\ inbox' = [inbox EXCEPT ![n] = inbox[n] \ {d}]
        /\ UNCHANGED <<delta, buffer, last, left, lost, running>>
    BY DEF Receive, Join
  <1>3. \A k \in Node : Larger(gc[n][k], d[k]) \in Nat /\ Larger(gc[n][k], d[k]) <= gc[k][k]
    BY <1>t, <1>1 DEF Larger, Truthful
  <1>4. Larger(gc[n][n], d[n]) = gc[n][n]
    BY <1>t, <1>1 DEF Larger, Truthful
  <1>5. \A k \in Node : gc'[k][k] = gc[k][k]
    BY <1>t, <1>2, <1>4
  <1>6. TypeOK'
    BY <1>t, <1>2, <1>3 DEF IInv, TypeOK, Counter
  <1>7. HandedOver' /\ Ordered' /\ OwnEntriesOnly'
    BY <1>2, <1>5 DEF IInv, HandedOver, Ordered, OwnEntriesOnly
  <1>8. \A m \in Node : Truthful(gc[m])' /\ gc'[m][m] <= MaxOps[m]
    <2> SUFFICES ASSUME NEW m \in Node, NEW k \in Node PROVE gc'[m][k] <= gc[k][k]
      BY <1>5 DEF Truthful, IInv
    <2>1. CASE m = n
      BY <2>1, <1>t, <1>2, <1>3
    <2>2. CASE m # n
      BY <2>2, <1>t, <1>2 DEF IInv, Truthful
    <2>3. QED
      BY <2>1, <2>2
  <1>9. \A m \in Node : \A e \in inbox'[m] : Truthful(e)'
    <2>1. \A m \in Node : inbox'[m] \subseteq inbox[m]
      BY <1>2 DEF IInv, TypeOK
    <2>2. QED
      BY <2>1, <1>5 DEF IInv, Truthful
  <1>10. QED
    BY <1>t, <1>1, <1>2, <1>6, <1>7, <1>8, <1>9 DEF IInv, Counter, Join

\* The end of a run forgets what waits in the socket, and nothing else.
LEMMA StopStep ==
  ASSUME IInv, NEW n \in Node, Stop(n)
  PROVE  IInv'
  <1>1. /\ inbox' = [inbox EXCEPT ![n] = {}]
        /\ running' = [running EXCEPT ![n] = FALSE]
        /\ UNCHANGED <<gc, delta, buffer, last, left, lost>>
    BY DEF Stop
  <1>2. TypeOK' /\ OwnEntriesOnly' /\ HandedOver' /\ Ordered'
    BY <1>1 DEF IInv, TypeOK, OwnEntriesOnly, HandedOver, Ordered
  <1>3. \A m \in Node : \A d \in inbox'[m] : Truthful(d)
    BY <1>1 DEF IInv, TypeOK
  <1>4. QED
    BY <1>1, <1>2, <1>3, GcKept

\* Every step of every thread.
LEMMA NextIInv == IInv /\ [Next]_vars => IInv'
  <1> SUFFICES ASSUME IInv, [Next]_vars PROVE IInv'
    OBVIOUS
  <1>1. ASSUME NEW n \in Node, MainStep(n) PROVE IInv'
    BY <1>1, LocalOpStep, BufferDeltaStep, StopStep DEF MainStep
  <1>2. ASSUME NEW n \in Node, Disseminate(n) PROVE IInv'
    BY <1>2, DisseminateStep
  <1>3. ASSUME NEW n \in Node, RecvStep(n) PROVE IInv'
    BY <1>3, ReceiveStep DEF RecvStep
  <1>4. CASE UNCHANGED vars
    BY <1>4 DEF IInv, vars, TypeOK, OwnEntriesOnly, HandedOver, Ordered, Truthful
  <1>5. QED
    BY <1>1, <1>2, <1>3, <1>4 DEF Next

\* The invariant holds in every reachable state.
LEMMA IInvariant == Spec => []IInv
  BY InitIInv, NextIInv, PTL DEF Spec

-----------------------------------------------------------------------------
(* What follows.                                                           *)

\* No increment is lost between gc, delta_buffer and last_payload, although no
\* lock is held across the two mutexes.
THEOREM IncrementsHandedOver == Spec => []HandedOver
  BY IInvariant, PTL DEF IInv

\* No node ever relays another node's increments.
THEOREM NoRelay == Spec => []OwnEntriesOnly
  BY IInvariant, PTL DEF IInv

\* No replica and no datagram counts an increment its origin has not performed.
THEOREM InventsNothing == Spec => []NothingInvented
  BY IInvariant, IInvImplies, PTL

\* The delta dissemination programs implement the replicated grow-only counter.
THEOREM Refinement == Spec => ImplementsCounter
  <1>1. Init => Abstract!Init
    BY DEF Init, Abstract!Init, Empty
  <1>2. ASSUME IInv, NEW n \in Node, LocalOp(n) PROVE Abstract!Increment(n)
    BY <1>2, LocalOpStep DEF LocalOp, Abstract!Increment
  <1>3. ASSUME IInv, NEW n \in Node, NEW d \in inbox[n], Receive(n, d)
        PROVE  Abstract!Learn(n)
    <2> DEFINE g == Join(gc[n], d)
    <2>1. d \in [Node -> Nat] /\ Truthful(d) /\ gc' = [gc EXCEPT ![n] = g]
      BY <1>3, ReceiveStep DEF Counter
    <2>2. /\ gc \in [Node -> [Node -> Nat]] /\ MaxOps \in [Node -> Nat]
          /\ \A k \in Node : gc[n][k] <= gc[k][k] /\ gc[k][k] <= MaxOps[k]
      BY <1>3, DeltaAssumption DEF IInv, TypeOK, Counter, Truthful
    <2>3. g = [k \in Node |-> IF gc[n][k] >= d[k] THEN gc[n][k] ELSE d[k]]
      BY DEF Join, Larger
    <2> HIDE DEF g
    <2>4. \A k \in Node : gc[n][k] <= g[k] /\ g[k] <= gc[k][k] /\ g[k] \in 0 .. MaxOps[k]
      BY <2>1, <2>2, <2>3 DEF Truthful
    <2>5. g \in [Node -> UNION {0 .. MaxOps[k] : k \in Node}]
      BY <2>3, <2>4
    <2>6. QED
      BY <2>1, <2>4, <2>5 DEF Abstract!Learn
  <1>4. IInv /\ [Next]_vars => [Abstract!Next]_gc
    <2> SUFFICES ASSUME IInv, [Next]_vars PROVE [Abstract!Next]_gc
      OBVIOUS
    <2>1. ASSUME NEW n \in Node, BufferDelta(n) \/ Stop(n) \/ Disseminate(n)
          PROVE  UNCHANGED gc
      BY <2>1 DEF BufferDelta, Stop, Disseminate, SendNew, SendAgain
    <2>2. QED
      BY <1>2, <1>3, <2>1 DEF Next, MainStep, RecvStep, Abstract!Next, vars
  <1>5. QED
    BY <1>1, <1>4, IInvariant, PTL DEF Spec, ImplementsCounter, Abstract!Spec
=============================================================================
