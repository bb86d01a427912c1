----------------------------- MODULE RapidProofs -----------------------------
(***************************************************************************)
(* What Rapid promises for every set of nodes, every topology, any number  *)
(* of increments, every buffer size and gossip length, caches that expire  *)
(* anywhere and numbers that may be given out again.                       *)
(***************************************************************************)
EXTENDS Rapid, SequenceTheorems, FiniteSetTheorems, TLAPS

-----------------------------------------------------------------------------
(* The inductive invariant.                                                *)

\* A counter that claims no increment its origin has not performed.
Truthful(g) == \A k \in Node : g[k] <= gc[k][k]

\* What a message numbered id may carry: something true, under a number that was
\* given out, and for a number given out once the payload that M gives it.
Payload(M, id) ==
  {p \in Counter : /\ p # Empty /\ Truthful(p)
                   /\ id[2] <= made[id[1]]
                   /\ id \in reused \/ p = M[id]}

\* Data and requests name one message, and data are a payload of it.
GoodDatagram(M) ==
  {d \in Datagram : /\ d.kind # "gossip" => \E id \in Id : d.ids = {id}
                    /\ d.kind = "data" => \A id \in d.ids : d.payload \in Payload(M, id)}

\* Wherever a message is, it carries a payload of its number.
CacheGood(M) ==
  /\ cache \in [Node -> [Id -> Counter]]
  /\ \A n \in Node, id \in Id : cache[n][id] \in Payload(M, id) \cup {Empty}

QueueGood(M) ==
  /\ queue \in [Node -> SUBSET Cast]
  /\ \A n \in Node : \A e \in queue[n] : e.payload \in Payload(M, e.id)

InboxGood(M) == inbox \in [Node -> Seq(GoodDatagram(M))]
RecvGood(M)  == recv \in [Node -> GoodDatagram(M) \cup {Nothing}]

Carried(M) == CacheGood(M) /\ QueueGood(M) /\ InboxGood(M) /\ RecvGood(M)

\* One more message may come of a delta or a pending delta that is not empty.
Due(g) == IF g = Empty THEN 0 ELSE 1

\* Increments are counted before they are published, and numbers are given to
\* increments: no more of them than there are.
Published ==
  \A n \in Node :
    /\ Truthful(gc[n]) /\ Below(delta[n], gc[n]) /\ Below(pending[n], gc[n])
    /\ made[n] + Due(pending[n]) + Due(delta[n]) <= gc[n][n]
    /\ gc[n][n] <= MaxOps[n]

\* The variables that are no place of a message.
Locals ==
  /\ gc \in [Node -> Counter] /\ delta \in [Node -> Counter] /\ pending \in [Node -> Counter]
  /\ made \in [Node -> Nat] /\ reused \subseteq Id
  /\ last \in [Node -> SUBSET Id] /\ \A n \in Node : Cardinality(last[n]) <= 1
  /\ running \in [Node -> BOOLEAN]

Bounded == \A n \in Node, kind \in Kinds : Waiting(inbox[n], kind) <= Buffer

Inv(M) == Locals /\ Published /\ Carried(M) /\ Bounded /\ CachedIsCounted

\* OneMeaning is inductive only with the meaning M that each number has from the
\* moment it is given out, whether or not anybody carries it.
IInv == \E M \in [Id -> Counter] : Inv(M)

-----------------------------------------------------------------------------
(* Constants, counters and buffers.                                        *)

LEMMA Constants ==
  /\ Empty \in Counter
  /\ Nothing.kind = "none" /\ Nothing.ids = {} /\ Nothing.payload = Empty
  /\ MaxOps \in [Node -> Nat] /\ Buffer \in Nat /\ Buffer > 0
  /\ \A id \in Id : id[1] \in Node /\ id[2] \in 1 .. MaxOps[id[1]] /\ id = <<id[1], id[2]>>
  /\ \A n \in Node, i \in Nat : 1 <= i /\ i <= MaxOps[n] => <<n, i>> \in Id
  <1>1. Empty \in Counter
    BY DEF Empty, Counter
  <1>2. MaxOps \in [Node -> Nat] /\ Buffer \in Nat /\ Buffer > 0
    BY RapidAssumption
  <1>3. \A id \in Id : id[1] \in Node /\ id[2] \in 1 .. MaxOps[id[1]] /\ id = <<id[1], id[2]>>
    BY DEF Id
  <1>4. \A n \in Node, i \in Nat : 1 <= i /\ i <= MaxOps[n] => <<n, i>> \in Id
    BY <1>2 DEF Id
  <1>5. QED
    BY <1>1, <1>2, <1>3, <1>4 DEF Nothing, Packet

\* join is a counter above both of its arguments, and empty only if they are.
LEMMA JoinAbove ==
  ASSUME NEW g \in Counter, NEW h \in Counter
  PROVE  /\ Join(g, h) \in Counter
         /\ Below(g, Join(g, h)) /\ Below(h, Join(g, h))
         /\ \A f \in Counter : Below(g, f) /\ Below(h, f) => Below(Join(g, h), f)
         /\ Truthful(g) /\ Truthful(h) => Truthful(Join(g, h))
  BY DEF Counter, Join, Larger, Below, Truthful

LEMMA BelowTransitive ==
  ASSUME NEW f \in Counter, NEW g \in Counter, NEW h \in Counter, Below(f, g), Below(g, h)
  PROVE  Below(f, h)
  <1>1. \A k \in Node : f[k] \in Nat /\ g[k] \in Nat /\ h[k] \in Nat
    BY DEF Counter
  <1>2. QED
    BY <1>1 DEF Below

\* A datagram waits in a buffer until it is taken, and no copy of it appears.
LEMMA WaitingAppend ==
  ASSUME NEW X, NEW box \in Seq(X), NEW d \in X, NEW kind
  PROVE  /\ Waiting(box, kind) \in Nat
         /\ Waiting(Append(box, d), kind)
              <= IF d.kind = kind THEN Waiting(box, kind) + 1 ELSE Waiting(box, kind)
  <1> DEFINE A == {i \in DOMAIN box : box[i].kind = kind}
             B == {i \in DOMAIN Append(box, d) : Append(box, d)[i].kind = kind}
  <1>1. Len(box) \in Nat /\ DOMAIN box = 1 .. Len(box)
    BY LenProperties
  <1>2. /\ Append(box, d) \in Seq(X) /\ Len(Append(box, d)) = Len(box) + 1
        /\ \A i \in 1 .. Len(box) : Append(box, d)[i] = box[i]
        /\ Append(box, d)[Len(box) + 1] = d
    BY AppendProperties
  <1>3. DOMAIN Append(box, d) = 1 .. Len(box) + 1
    BY <1>2, LenProperties
  <1>4. IsFiniteSet(A) /\ Cardinality(A) \in Nat
    <2>1. IsFiniteSet(1 .. Len(box))
      BY <1>1, FS_Interval
    <2>2. A \in SUBSET (1 .. Len(box))
      BY <1>1
    <2>3. IsFiniteSet(A)
      BY <2>1, <2>2, FS_Subset
    <2>4. QED
      BY <2>3, FS_CardinalityType
  <1>5. d.kind = kind => B \in SUBSET (A \cup {Len(box) + 1})
    BY <1>1, <1>2, <1>3
  <1>6. d.kind # kind => B = A
    BY <1>1, <1>2, <1>3
  <1>7. Waiting(box, kind) = Cardinality(A) /\ Waiting(Append(box, d), kind) = Cardinality(B)
    BY DEF Waiting
  <1> DEFINE new == Len(box) + 1
  <1> HIDE DEF A, B, new
  <1>8. /\ IsFiniteSet(A \cup {new})
        /\ Cardinality(A \cup {new}) \in Nat
        /\ Cardinality(A \cup {new}) <= Cardinality(A) + 1
    <2>1. /\ IsFiniteSet(A \cup {new})
          /\ Cardinality(A \cup {new})
               = IF new \in A THEN Cardinality(A) ELSE Cardinality(A) + 1
      BY <1>4, FS_AddElement
    <2>2. QED
      BY <1>4, <2>1
  <1>9. d.kind = kind => Cardinality(B) <= Cardinality(A \cup {new}) /\ Cardinality(B) \in Nat
    BY <1>5, <1>8, FS_Subset, FS_CardinalityType DEF new
  <1>10. d.kind = kind => Cardinality(B) <= Cardinality(A) + 1
    BY <1>4, <1>8, <1>9
  <1>11. QED
    BY <1>4, <1>6, <1>7, <1>10

LEMMA WaitingTail ==
  ASSUME NEW X, NEW box \in Seq(X), box # <<>>, NEW kind
  PROVE  /\ Tail(box) \in Seq(X)
         /\ Waiting(Tail(box), kind) <= Waiting(box, kind)
  <1> DEFINE A == {i \in DOMAIN box : box[i].kind = kind}
             B == {i \in DOMAIN Tail(box) : Tail(box)[i].kind = kind}
             f == [i \in B |-> i + 1]
  <1>1. Len(box) \in Nat /\ DOMAIN box = 1 .. Len(box)
    BY LenProperties
  <1>2. /\ Tail(box) \in Seq(X) /\ Len(Tail(box)) = Len(box) - 1
        /\ \A i \in 1 .. Len(Tail(box)) : Tail(box)[i] = box[i + 1]
    BY HeadTailProperties
  <1>3. DOMAIN Tail(box) = 1 .. Len(box) - 1
    BY <1>2, LenProperties
  <1>4. IsFiniteSet(A)
    <2>1. IsFiniteSet(1 .. Len(box))
      BY <1>1, FS_Interval
    <2>2. A \in SUBSET (1 .. Len(box))
      BY <1>1
    <2>3. QED
      BY <2>1, <2>2, FS_Subset
  <1>5. \A i \in B : i \in Nat /\ i + 1 \in A
    BY <1>1, <1>2, <1>3
  <1>6. f \in Injection(B, A)
    BY <1>5 DEF Injection, IsInjective
  <1>7. Cardinality(B) <= Cardinality(A)
    BY <1>4, <1>6, FS_Injection
  <1>8. QED
    BY <1>2, <1>7 DEF Waiting

\* A broadcast of a good datagram into bounded buffers.
LEMMA BroadcastKeeps ==
  ASSUME NEW X, NEW sockets \in [Node -> Seq(X)],
         \A m \in Node, kind \in Kinds : Waiting(sockets[m], kind) <= Buffer,
         NEW n \in Node, NEW d \in X, NEW heard, Broadcast(sockets, n, d, heard)
  PROVE  inbox' \in [Node -> Seq(X)] /\ Bounded'
  <1>1. \A m \in heard : m \in Node /\ Waiting(sockets[m], d.kind) < Buffer
    BY RapidAssumption DEF Broadcast
  <1>2. inbox' = [m \in Node |-> IF m \in heard THEN Append(sockets[m], d) ELSE sockets[m]]
    BY DEF Broadcast
  <1>3. \A m \in Node : Append(sockets[m], d) \in Seq(X)
    BY AppendProperties
  <1>4. inbox' \in [Node -> Seq(X)]
    BY <1>2, <1>3
  <1>5. ASSUME NEW m \in Node, NEW kind \in Kinds
        PROVE  Waiting(inbox'[m], kind) <= Buffer
    <2>1. CASE m \in heard
      <3>1. /\ Waiting(sockets[m], kind) \in Nat
            /\ Waiting(Append(sockets[m], d), kind)
                 <= IF d.kind = kind THEN Waiting(sockets[m], kind) + 1
                    ELSE Waiting(sockets[m], kind)
        BY WaitingAppend
      <3>2. Waiting(Append(sockets[m], d), kind) <= Buffer
        <4> DEFINE w == Waiting(sockets[m], kind)
                   v == Waiting(Append(sockets[m], d), kind)
        <4>1. v \in Nat
          BY <1>3, WaitingAppend
        <4>2. d.kind = kind => w < Buffer
          BY <2>1, <1>1
        <4>3. w <= Buffer /\ w \in Nat /\ Buffer \in Nat
          BY <3>1, Constants
        <4>4. v <= IF d.kind = kind THEN w + 1 ELSE w
          BY <3>1
        <4> HIDE DEF v, w
        <4>5. v <= Buffer
          BY <4>1, <4>2, <4>3, <4>4
        <4>6. QED
          BY <4>5 DEF v
      <3>3. QED
        BY <3>2, <2>1, <1>2
    <2>2. CASE m \notin heard
      BY <2>2, <1>2
    <2>3. QED
      BY <2>1, <2>2
  <1>6. QED
    BY <1>4, <1>5 DEF Bounded

-----------------------------------------------------------------------------
(* What stays good when the counters and the numbers grow.                 *)

\* Nothing is unsaid: increments and numbers are only added, and a number that
\* was given out keeps its meaning.
Grows(M, M2) ==
  /\ \A k \in Node : gc[k][k] <= gc'[k][k] /\ made[k] <= made'[k]
  /\ reused \subseteq reused'
  /\ \A id \in Id : id[2] <= made[id[1]] => M2[id] = M[id]

LEMMA Grown ==
  ASSUME NEW M \in [Id -> Counter], NEW M2 \in [Id -> Counter],
         Locals, Locals', Grows(M, M2)
  PROVE  /\ \A id \in Id : Payload(M, id) \subseteq Payload(M2, id)'
         /\ GoodDatagram(M) \subseteq GoodDatagram(M2)'
         /\ CacheGood(M) /\ UNCHANGED cache => CacheGood(M2)'
         /\ QueueGood(M) /\ UNCHANGED queue => QueueGood(M2)'
         /\ InboxGood(M) => inbox \in [Node -> Seq(GoodDatagram(M2)')]
         /\ InboxGood(M) /\ UNCHANGED inbox => InboxGood(M2)'
         /\ RecvGood(M) => recv \in [Node -> GoodDatagram(M2)' \cup {Nothing}]
         /\ RecvGood(M) /\ UNCHANGED recv => RecvGood(M2)'
  <1>1. /\ gc \in [Node -> [Node -> Nat]] /\ gc' \in [Node -> [Node -> Nat]]
        /\ made \in [Node -> Nat] /\ made' \in [Node -> Nat]
    BY DEF Locals, Counter
  <1>2. ASSUME NEW p \in Counter, Truthful(p) PROVE Truthful(p)'
    BY <1>1, <1>2 DEF Truthful, Grows, Counter
  <1>3. ASSUME NEW id \in Id, NEW p \in Payload(M, id) PROVE p \in Payload(M2, id)'
    <2>1. p \in Counter /\ p # Empty /\ Truthful(p)'
      BY <1>2 DEF Payload
    <2>2. id[1] \in Node /\ id[2] \in Nat /\ id[2] <= made[id[1]]
      BY Constants DEF Payload
    <2>3. id[2] <= made'[id[1]]
      BY <1>1, <2>2 DEF Grows
    <2>4. id \in reused' \/ p = M2[id]
      BY <2>2 DEF Payload, Grows
    <2>5. QED
      BY <2>1, <2>3, <2>4 DEF Payload
  <1>4. GoodDatagram(M) \subseteq GoodDatagram(M2)'
    BY <1>3 DEF GoodDatagram, Datagram
  <1>5. CacheGood(M) /\ UNCHANGED cache => CacheGood(M2)'
    BY <1>3 DEF CacheGood
  <1>6. QueueGood(M) /\ UNCHANGED queue => QueueGood(M2)'
    BY <1>3 DEF QueueGood, Cast
  <1>7. InboxGood(M) => inbox \in [Node -> Seq(GoodDatagram(M2)')]
    <2>1. ASSUME NEW box \in Seq(GoodDatagram(M)) PROVE box \in Seq(GoodDatagram(M2)')
      BY <1>4, SeqMonotonic
    <2>2. QED
      BY <2>1 DEF InboxGood
  <1>8. RecvGood(M) => recv \in [Node -> GoodDatagram(M2)' \cup {Nothing}]
    BY <1>4 DEF RecvGood
  <1>9. QED
    BY <1>3, <1>4, <1>5, <1>6, <1>7, <1>8 DEF InboxGood, RecvGood

\* The steps that leave the counters and the numbers alone.
LEMMA Same ==
  ASSUME NEW M, Locals, UNCHANGED <<gc, made, reused>>
  PROVE  /\ \A id \in Id : Payload(M, id)' = Payload(M, id)
         /\ GoodDatagram(M)' = GoodDatagram(M)
         /\ UNCHANGED <<delta, pending, last, running>> => Locals'
         /\ Published /\ UNCHANGED <<delta, pending>> => Published'
         /\ CachedIsCounted /\ UNCHANGED <<cache, recv>> => CachedIsCounted'
         /\ CacheGood(M) /\ UNCHANGED cache => CacheGood(M)'
         /\ QueueGood(M) /\ UNCHANGED queue => QueueGood(M)'
         /\ InboxGood(M) /\ UNCHANGED inbox => InboxGood(M)'
         /\ RecvGood(M) /\ UNCHANGED recv => RecvGood(M)'
  <1>1. \A id : Payload(M, id)' = Payload(M, id)
    BY DEF Payload, Truthful
  <1>2. GoodDatagram(M)' = GoodDatagram(M)
    BY <1>1 DEF GoodDatagram
  <1>3. UNCHANGED <<delta, pending, last, running>> => Locals'
    BY DEF Locals
  <1>4. Published /\ UNCHANGED <<delta, pending>> => Published'
    BY DEF Published, Truthful
  <1>5. CachedIsCounted /\ UNCHANGED <<cache, recv>> => CachedIsCounted'
    BY DEF CachedIsCounted, Numbers, Cached
  <1>6. CacheGood(M) /\ UNCHANGED cache => CacheGood(M)'
    BY <1>1 DEF CacheGood
  <1>7. QueueGood(M) /\ UNCHANGED queue => QueueGood(M)'
    BY <1>1 DEF QueueGood
  <1>8. QED
    BY <1>1, <1>2, <1>3, <1>4, <1>5, <1>6, <1>7 DEF InboxGood, RecvGood

LEMMA BoundedSame == Bounded /\ UNCHANGED inbox => Bounded'
  BY DEF Bounded

\* The datagram a thread takes is a good one, and so are those it leaves.
LEMMA TakenKeeps ==
  ASSUME NEW M, InboxGood(M), Bounded, NEW n \in Node, inbox[n] # <<>>
  PROVE  /\ First(n) \in GoodDatagram(M)
         /\ Taken(n) \in [Node -> Seq(GoodDatagram(M))]
         /\ \A m \in Node, kind \in Kinds : Waiting(Taken(n)[m], kind) <= Buffer
  <1>1. inbox \in [Node -> Seq(GoodDatagram(M))]
    BY DEF InboxGood
  <1>2. First(n) \in GoodDatagram(M) /\ Tail(inbox[n]) \in Seq(GoodDatagram(M))
    BY <1>1, HeadTailProperties DEF First
  <1>3. Taken(n) \in [Node -> Seq(GoodDatagram(M))]
    BY <1>1, <1>2 DEF Taken
  <1>4. ASSUME NEW m \in Node, NEW kind \in Kinds PROVE Waiting(Taken(n)[m], kind) <= Buffer
    <2>1. CASE m # n
      BY <1>1, <2>1 DEF Taken, Bounded
    <2>2. CASE m = n
      <3>1. Waiting(Tail(inbox[n]), kind) <= Waiting(inbox[n], kind)
        BY <1>1, WaitingTail
      <3>2. Waiting(Tail(inbox[n]), kind) \in Nat /\ Waiting(inbox[n], kind) \in Nat
        BY <1>1, <1>2, WaitingAppend
      <3>3. Waiting(inbox[n], kind) <= Buffer /\ Buffer \in Nat
        BY Constants DEF Bounded
      <3>4. Waiting(Tail(inbox[n]), kind) <= Buffer
        BY <3>1, <3>2, <3>3
      <3>5. QED
        BY <1>1, <2>2, <3>4 DEF Taken
    <2>3. QED
      BY <2>1, <2>2
  <1>5. QED
    BY <1>2, <1>3, <1>4

-----------------------------------------------------------------------------
(* The invariant is inductive: one lemma for each step that needs one.     *)

LEMMA InitIInv == Init => IInv
  <1> SUFFICES ASSUME Init PROVE IInv
    OBVIOUS
  <1> DEFINE M == [id \in Id |-> Empty]
  <1>1. M \in [Id -> Counter]
    BY Constants
  <1>2. Locals
    BY Constants, FS_EmptySet DEF Init, Locals
  <1>3. Published
    BY Constants DEF Init, Published, Truthful, Below, Due, Empty
  <1>4. CacheGood(M) /\ QueueGood(M) /\ RecvGood(M)
    BY Constants DEF Init, CacheGood, QueueGood, RecvGood
  <1>5. InboxGood(M)
    BY EmptySeq DEF Init, InboxGood
  <1>6. Bounded
    <2>1. \A kind : {i \in DOMAIN <<>> : <<>>[i].kind = kind} = {}
      BY EmptySeq, LenProperties
    <2>2. QED
      BY <2>1, FS_EmptySet, Constants DEF Init, Bounded, Waiting
  <1>7. CachedIsCounted
    BY DEF Init, CachedIsCounted, Numbers, Cached
  <1>8. QED
    BY <1>1, <1>2, <1>3, <1>4, <1>5, <1>6, <1>7 DEF IInv, Inv, Carried

LEMMA LocalOpKeeps ==
  ASSUME NEW M \in [Id -> Counter], Inv(M), NEW n \in Node, LocalOp(n)
  PROVE  Inv(M)'
  <1>1. /\ gc \in [Node -> [Node -> Nat]] /\ delta \in [Node -> Counter]
        /\ Locals /\ Published /\ MaxOps \in [Node -> Nat]
    BY Constants DEF Inv, Locals, Counter
  <1>2. /\ gc' = [gc EXCEPT ![n] = [gc[n] EXCEPT ![n] = @ + 1]]
        /\ delta' = [delta EXCEPT ![n] = [Empty EXCEPT ![n] = gc[n][n] + 1]]
        /\ delta[n] = Empty /\ gc[n][n] < MaxOps[n]
    BY DEF LocalOp, Incremented, IncDelta
  <1>3. \A m, k \in Node : gc'[m][k] = IF m = n /\ k = n THEN gc[n][n] + 1 ELSE gc[m][k]
    BY <1>1, <1>2
  <1>4. \A m, k \in Node : gc[m][k] <= gc'[m][k]
    BY <1>1, <1>3
  <1>5. gc' \in [Node -> Counter] /\ delta' \in [Node -> Counter]
    <2>1. [gc[n] EXCEPT ![n] = @ + 1] \in Counter /\ [Empty EXCEPT ![n] = gc[n][n] + 1] \in Counter
      BY <1>1, Constants DEF Counter
    <2>2. gc \in [Node -> Counter]
      BY <1>1 DEF Counter
    <2>3. QED
      BY <1>1, <1>2, <2>1, <2>2
  <1>6. Locals'
    BY <1>1, <1>5 DEF Locals, LocalOp
  <1>7. Published'
    <2>1. \A m \in Node : Truthful(gc[m])'
      BY <1>1, <1>3, <1>4 DEF Published, Truthful
    <2>2. \A m \in Node : Below(pending'[m], gc'[m])
      <3>1. pending' = pending /\ pending \in [Node -> [Node -> Nat]]
        BY DEF LocalOp, Inv, Locals, Counter
      <3>2. \A m, k \in Node : pending[m][k] <= gc[m][k]
        BY DEF Inv, Published, Below
      <3>3. \A m, k \in Node : pending[m][k] <= gc'[m][k]
        BY <1>1, <1>4, <1>5, <3>1, <3>2 DEF Counter
      <3>4. QED
        BY <3>1, <3>3 DEF Below
    <2>3. \A m \in Node : Below(delta'[m], gc'[m])
      <3>1. ASSUME NEW m \in Node, m # n PROVE Below(delta'[m], gc'[m])
        BY <1>1, <1>2, <1>3, <3>1 DEF Published, Below
      <3>2. \A k \in Node : delta'[n][k] = IF k = n THEN gc[n][n] + 1 ELSE 0
        BY <1>1, <1>2 DEF Empty
      <3>3. Below(delta'[n], gc'[n])
        BY <1>1, <1>3, <3>2 DEF Below
      <3>4. QED
        BY <3>1, <3>3
    <2>4. \A m \in Node : /\ made'[m] + Due(pending'[m]) + Due(delta'[m]) <= gc'[m][m]
                          /\ gc'[m][m] <= MaxOps[m]
      <3>1. /\ UNCHANGED <<made, pending>> /\ made \in [Node -> Nat]
            /\ \A m \in Node : made[m] + Due(pending[m]) + Due(delta[m]) <= gc[m][m]
            /\ \A m \in Node : gc[m][m] <= MaxOps[m]
        BY <1>1 DEF LocalOp, Inv, Locals, Published
      <3>2. \A m \in Node : Due(delta[m]) \in {0, 1} /\ Due(delta'[m]) \in {0, 1}
                           /\ Due(pending[m]) \in {0, 1}
        BY DEF Due
      <3>3. Due(delta[n]) = 0
        BY <1>2 DEF Due
      <3>4. \A m \in Node : m # n => Due(delta'[m]) = Due(delta[m])
        BY <1>1, <1>2
      <3>5. /\ gc'[n][n] = gc[n][n] + 1 /\ \A m \in Node : m # n => gc'[m][m] = gc[m][m]
            /\ \A m \in Node : gc[m][m] \in Nat /\ MaxOps[m] \in Nat /\ made[m] \in Nat
        BY <1>1, <1>3, <3>1
      <3>6. made[n] + Due(pending[n]) + Due(delta'[n]) <= gc[n][n] + 1 /\ gc[n][n] + 1 <= MaxOps[n]
        <4>1. made[n] + Due(pending[n]) + Due(delta[n]) <= gc[n][n] /\ gc[n][n] < MaxOps[n]
          BY <1>2, <3>1
        <4>2. /\ Due(pending[n]) \in {0, 1} /\ Due(delta'[n]) \in {0, 1} /\ Due(delta[n]) = 0
              /\ gc[n][n] \in Nat /\ MaxOps[n] \in Nat /\ made[n] \in Nat
          BY <3>2, <3>3, <3>5
        <4> DEFINE p == Due(pending[n])
                   d == Due(delta'[n])
                   e == Due(delta[n])
                   a == made[n]
                   b == gc[n][n]
                   c == MaxOps[n]
        <4> HIDE DEF a, b, c, d, e, p
        <4>3. a + p + e <= b /\ b < c /\ p \in {0, 1} /\ d \in {0, 1} /\ e = 0 /\ a \in Nat /\ b \in Nat /\ c \in Nat
              => a + p + d <= b + 1 /\ b + 1 <= c
          OBVIOUS
        <4>4. QED
          BY <4>1, <4>2, <4>3 DEF a, b, c, d, e, p
      <3>7. ASSUME NEW m \in Node, m # n
            PROVE  made[m] + Due(pending[m]) + Due(delta'[m]) <= gc'[m][m] /\ gc'[m][m] <= MaxOps[m]
        <4>1. Due(delta'[m]) = Due(delta[m]) /\ gc'[m][m] = gc[m][m]
          BY <3>4, <3>5, <3>7
        <4>2. QED
          BY <3>1, <4>1
      <3>8. made[n] + Due(pending[n]) + Due(delta'[n]) <= gc'[n][n] /\ gc'[n][n] <= MaxOps[n]
        BY <3>5, <3>6
      <3>9. \A m \in Node : /\ made[m] + Due(pending[m]) + Due(delta'[m]) <= gc'[m][m]
                            /\ gc'[m][m] <= MaxOps[m]
        BY <3>7, <3>8
      <3>10. made' = made /\ pending' = pending
        BY <3>1
      <3>11. QED
        BY <3>9, <3>10
    <2>5. QED
      BY <2>1, <2>2, <2>3, <2>4 DEF Published
  <1>8. Grows(M, M)
    BY <1>1, <1>4 DEF Grows, LocalOp, Locals
  <1>9. Carried(M)'
    BY <1>1, <1>6, <1>8, Grown DEF LocalOp, Inv, Carried
  <1>10. CachedIsCounted'
    <2>1. ASSUME NEW m \in Node, NEW id \in Id, Below(cache[m][id], gc[m])
          PROVE  Below(cache[m][id], gc'[m])
      <3>1. cache[m][id] \in Counter /\ gc[m] \in Counter /\ gc'[m] \in Counter
        BY <1>1, <1>5 DEF Inv, Carried, CacheGood, Counter
      <3>2. Below(gc[m], gc'[m])
        BY <1>4 DEF Below
      <3>3. QED
        BY <2>1, <3>1, <3>2, BelowTransitive
    <2>2. QED
      BY <2>1 DEF LocalOp, Inv, CachedIsCounted, Numbers, Cached
  <1>11. QED
    BY <1>6, <1>7, <1>9, <1>10, BoundedSame DEF Inv, LocalOp

LEMMA AddPendingKeeps ==
  ASSUME NEW M \in [Id -> Counter], Inv(M), NEW n \in Node, AddPending(n)
  PROVE  Inv(M)'
  <1>1. Locals /\ Published /\ UNCHANGED <<gc, made, reused, last, cache, queue, recv, inbox, running>>
    BY DEF Inv, AddPending
  <1>2. /\ pending' = [pending EXCEPT ![n] = Join(pending[n], delta[n])]
        /\ delta' = [delta EXCEPT ![n] = Empty] /\ delta[n] # Empty
    BY DEF AddPending
  <1>3. pending[n] \in Counter /\ delta[n] \in Counter /\ gc[n] \in Counter
    BY <1>1 DEF Locals
  <1>4. /\ Join(pending[n], delta[n]) \in Counter
        /\ Below(Join(pending[n], delta[n]), gc[n])
    BY <1>1, <1>3, JoinAbove DEF Published
  <1>5. Locals'
    BY <1>1, <1>2, <1>4, Constants DEF Locals
  <1>6. Published'
    <2>1. \A m \in Node : /\ pending'[m] = IF m = n THEN Join(pending[n], delta[n]) ELSE pending[m]
                          /\ delta'[m] = IF m = n THEN Empty ELSE delta[m]
      BY <1>1, <1>2 DEF Locals
    <2>2. \A m \in Node : Truthful(gc[m])' /\ Below(delta'[m], gc'[m]) /\ Below(pending'[m], gc'[m])
      BY <1>1, <1>3, <1>4, <2>1 DEF Published, Truthful, Below, Empty, Counter
    <2>3. \A m \in Node : made[m] \in Nat /\ gc[m][m] \in Nat
      BY <1>1 DEF Locals, Counter
    <2>4. /\ \A g : Due(g) \in {0, 1}
          /\ Due(Empty) = 0 /\ Due(delta[n]) = 1
      BY <1>2 DEF Due
    <2>5. \A m \in Node : made[m] + Due(pending[m]) + Due(delta[m]) <= gc[m][m] /\ gc[m][m] <= MaxOps[m]
      BY <1>1 DEF Published
    <2>6. \A m \in Node : made[m] + Due(pending'[m]) + Due(delta'[m]) <= gc[m][m]
      BY <2>1, <2>3, <2>4, <2>5
    <2>7. QED
      BY <1>1, <2>2, <2>5, <2>6 DEF Published
  <1>7. QED
    BY <1>1, <1>5, <1>6, Same, BoundedSame DEF Inv, Carried

LEMMA StopKeeps ==
  ASSUME NEW M \in [Id -> Counter], Inv(M), NEW n \in Node, Stop(n)
  PROVE  Inv(M)'
  <1>1. UNCHANGED <<gc, delta, pending, made, reused, last, cache, queue, recv>>
    BY DEF Stop
  <1>2. Locals'
    BY <1>1 DEF Inv, Locals, Stop
  <1>3. InboxGood(M)'
    <2>1. <<>> \in Seq(GoodDatagram(M))
      BY EmptySeq
    <2>2. inbox' \in [Node -> Seq(GoodDatagram(M))]
      BY <2>1 DEF Stop, Inv, Carried, InboxGood
    <2>3. GoodDatagram(M)' = GoodDatagram(M)
      BY <1>1, Same DEF Inv
    <2>4. QED
      BY <2>2, <2>3 DEF InboxGood
  <1>4. Bounded'
    <2>1. \A kind : {i \in DOMAIN <<>> : <<>>[i].kind = kind} = {}
      BY EmptySeq, LenProperties
    <2>2. \A kind : Waiting(<<>>, kind) = 0
      BY <2>1, FS_EmptySet DEF Waiting
    <2>3. \A m \in Node : inbox'[m] = IF m = n THEN <<>> ELSE inbox[m]
      BY DEF Stop, Inv, Carried, InboxGood
    <2>4. QED
      BY <2>2, <2>3, Constants DEF Inv, Bounded
  <1>5. QED
    BY <1>1, <1>2, <1>3, <1>4, Same DEF Inv, Carried

\* A new message: if its number is new, it is given the meaning it has from now
\* on; if not, the number no longer needs to mean one thing.
LEMMA PublishNewKeeps ==
  ASSUME NEW M \in [Id -> Counter], Inv(M), NEW n \in Node, PublishNew(n)
  PROVE  IInv'
  <1>1. /\ gc \in [Node -> Counter] /\ pending \in [Node -> Counter] /\ made \in [Node -> Nat]
        /\ Locals /\ Published /\ MaxOps \in [Node -> Nat]
    BY Constants DEF Inv, Locals
  <1>2. PICK id \in NewIds(n) :
          /\ cache' = [cache EXCEPT ![n][id] = pending[n]]
          /\ queue' = [queue EXCEPT ![n] =
               @ \cup {[id |-> id, payload |-> pending[n], sure |-> TRUE]}]
          /\ last' = [last EXCEPT ![n] = {id}]
          /\ made' = [made EXCEPT ![n] = IF id[2] > @ THEN id[2] ELSE @]
          /\ reused' = IF id[2] > made[n] THEN reused ELSE reused \cup {id}
    BY DEF PublishNew, CacheInsert
  <1>3. /\ pending[n] # Empty /\ pending' = [pending EXCEPT ![n] = Empty]
        /\ UNCHANGED <<gc, delta, recv, inbox, running>>
    BY DEF PublishNew
  <1>4. /\ made[n] + 1 <= gc[n][n] /\ gc[n][n] <= MaxOps[n]
        /\ made[n] + 1 + Due(delta[n]) <= gc[n][n]
    <2>1. /\ made[n] + 1 + Due(delta[n]) <= gc[n][n] /\ gc[n][n] <= MaxOps[n]
      BY <1>1, <1>3 DEF Published, Due
    <2>2. Due(delta[n]) \in {0, 1} /\ gc[n][n] \in Nat /\ made[n] \in Nat
      BY <1>1 DEF Due, Counter
    <2>3. QED
      BY <2>1, <2>2
  <1>5. /\ id[1] = n /\ id[2] \in Nat /\ 1 <= id[2] /\ id[2] <= made[n] + 1
        /\ id = <<n, id[2]>>
    BY <1>1 DEF NewIds
  <1>6. id \in Id
    <2>1. id[2] <= MaxOps[n]
      <3>1. gc[n][n] \in Nat /\ made[n] \in Nat /\ MaxOps[n] \in Nat
        BY <1>1 DEF Counter
      <3>2. QED
        BY <1>4, <1>5, <3>1
    <2>2. QED
      BY <1>5, <2>1, Constants
  <1>p. PICK p \in Counter : p = pending[n]
    BY <1>1
  <1>m. PICK M2 \in [Id -> Counter] : M2 = IF id[2] > made[n] THEN [M EXCEPT ![id] = p] ELSE M
    OBVIOUS
  <1> DEFINE e == [id |-> id, payload |-> p, sure |-> TRUE]
  <1>7. p \in Counter /\ p # Empty /\ M2 \in [Id -> Counter]
    BY <1>3, <1>p
  <1>8. /\ \A m \in Node : made'[m] = IF m = n THEN (IF id[2] > made[n] THEN id[2] ELSE made[n]) ELSE made[m]
        /\ made' \in [Node -> Nat]
    BY <1>1, <1>2, <1>5
  <1>9. Locals'
    <2>1. IsFiniteSet({id}) /\ Cardinality({id}) = 1
      BY FS_Singleton
    <2>2. last' \in [Node -> SUBSET Id] /\ \A m \in Node : Cardinality(last'[m]) <= 1
      BY <1>1, <1>2, <1>6, <2>1 DEF Locals
    <2>3. reused' \subseteq Id
      BY <1>1, <1>2, <1>6 DEF Locals
    <2>4. pending' \in [Node -> Counter]
      BY <1>1, <1>3, Constants
    <2>5. QED
      BY <1>1, <1>3, <1>8, <2>2, <2>3, <2>4 DEF Locals
  <1>10. Grows(M, M2)
    <2>1. ASSUME NEW i \in Id, i[2] <= made[i[1]] PROVE M2[i] = M[i]
      BY <1>1, <1>5, <1>6, <1>m, <2>1
    <2>2. \A k \in Node : gc[k][k] <= gc'[k][k]
      BY <1>1, <1>3 DEF Counter
    <2>3. \A k \in Node : made[k] <= made'[k]
      BY <1>1, <1>5, <1>8
    <2>4. QED
      BY <1>2, <2>1, <2>2, <2>3 DEF Grows
  <1>11. p \in Payload(M2, id)'
    <2>1. Truthful(p)'
      <3>1. \A k \in Node : p[k] <= gc[n][k] /\ gc[n][k] <= gc[k][k]
        BY <1>1, <1>p DEF Published, Below, Truthful
      <3>2. \A k \in Node : p[k] \in Nat /\ gc[n][k] \in Nat /\ gc[k][k] \in Nat
        BY <1>1 DEF Counter
      <3>3. \A k \in Node : p[k] <= gc[k][k]
        BY <3>1, <3>2
      <3>4. QED
        BY <1>3, <3>3 DEF Truthful
    <2>2. id[2] <= made'[id[1]]
      BY <1>1, <1>5, <1>8
    <2>3. id \in reused' \/ p = M2[id]
      BY <1>2, <1>6, <1>m
    <2>4. QED
      BY <1>7, <2>1, <2>2, <2>3 DEF Payload
  <1>12. Published'
    <2>1. pending'[n] = Empty /\ \A m \in Node : m # n => pending'[m] = pending[m]
      BY <1>1, <1>3
    <2>2. \A m \in Node : Truthful(gc[m])' /\ Below(delta'[m], gc'[m])
      BY <1>1, <1>3 DEF Published, Truthful
    <2>3. \A m \in Node : Below(pending'[m], gc'[m])
      BY <1>1, <1>3, <2>1 DEF Published, Below, Empty, Counter
    <2>4. made'[n] + Due(pending'[n]) + Due(delta'[n]) <= gc'[n][n]
      <3>1. made'[n] <= made[n] + 1 /\ made'[n] \in Nat /\ made[n] \in Nat
        BY <1>1, <1>5, <1>8
      <3>2. Due(pending'[n]) = 0 /\ Due(delta[n]) \in {0, 1} /\ gc[n][n] \in Nat
        BY <1>1, <2>1 DEF Due, Counter
      <3>3. made'[n] + Due(pending'[n]) + Due(delta[n]) <= gc[n][n]
        BY <1>4, <3>1, <3>2
      <3>4. QED
        BY <1>3, <3>3
    <2>5. \A m \in Node : m # n => made'[m] + Due(pending'[m]) + Due(delta'[m]) <= gc'[m][m]
      BY <1>1, <1>3, <1>8, <2>1 DEF Published
    <2>6. \A m \in Node : gc'[m][m] <= MaxOps[m]
      BY <1>1, <1>3 DEF Published
    <2>7. QED
      BY <2>2, <2>3, <2>4, <2>5, <2>6 DEF Published
  <1>13. /\ \A i \in Id : Payload(M, i) \subseteq Payload(M2, i)'
         /\ InboxGood(M2)' /\ RecvGood(M2)'
    BY <1>1, <1>3, <1>7, <1>9, <1>10, Grown DEF Inv, Carried
  <1>14. CacheGood(M2)'
    <2>1. /\ cache \in [Node -> [Id -> Counter]]
          /\ \A m \in Node, i \in Id : cache[m][i] \in Payload(M, i) \cup {Empty}
      BY DEF Inv, Carried, CacheGood
    <2>2. cache' \in [Node -> [Id -> Counter]]
      BY <1>2, <1>6, <1>p, <2>1
    <2>3. \A m \in Node, i \in Id :
            cache'[m][i] = IF m = n /\ i = id THEN p ELSE cache[m][i]
      BY <1>2, <1>6, <1>p, <2>1
    <2>4. QED
      BY <1>11, <1>13, <2>1, <2>2, <2>3 DEF CacheGood
  <1>15. QueueGood(M2)'
    <2>1. /\ queue \in [Node -> SUBSET Cast]
          /\ \A m \in Node : \A f \in queue[m] : f.payload \in Payload(M, f.id)
      BY DEF Inv, Carried, QueueGood
    <2>2. e \in Cast /\ e.id = id /\ e.payload = p
      BY <1>6, <1>7 DEF Cast
    <2>3. queue' = [queue EXCEPT ![n] = @ \cup {e}]
      BY <1>2, <1>p
    <2> HIDE DEF e
    <2>4. queue' \in [Node -> SUBSET Cast]
      BY <2>1, <2>2, <2>3
    <2>5. ASSUME NEW m \in Node, NEW f \in queue'[m] PROVE f.payload \in Payload(M2, f.id)'
      <3>1. CASE f = e
        BY <1>11, <2>2, <3>1
      <3>2. CASE f # e
        <4>1. f \in queue[m] /\ f \in Cast
          BY <2>1, <2>3, <3>2
        <4>2. f.id \in Id
          BY <4>1 DEF Cast
        <4>3. QED
          BY <1>13, <2>1, <4>1, <4>2
      <3>3. QED
        BY <3>1, <3>2
    <2>6. QED
      BY <2>4, <2>5 DEF QueueGood
  <1>16. CachedIsCounted'
    <2>1. cache \in [Node -> [Id -> Counter]] /\ CachedIsCounted
      BY DEF Inv, Carried, CacheGood
    <2>2. \A m \in Node, i \in Id :
            cache'[m][i] = IF m = n /\ i = id THEN pending[n] ELSE cache[m][i]
      BY <1>2, <1>6, <2>1
    <2>3. Below(pending[n], gc[n])
      BY <1>1 DEF Published
    <2>4. QED
      BY <1>3, <2>1, <2>2, <2>3 DEF CachedIsCounted, Numbers, Cached
  <1>17. Inv(M2)'
    BY <1>3, <1>9, <1>12, <1>13, <1>14, <1>15, <1>16, BoundedSame DEF Inv, Carried
  <1>18. QED
    BY <1>7, <1>17 DEF IInv

\* Good entries join the queue, and any may leave it.
LEMMA QueueKeeps ==
  ASSUME NEW M, Locals, QueueGood(M), UNCHANGED <<gc, made, reused>>, NEW n \in Node,
         NEW old \in SUBSET queue[n], NEW new \in SUBSET Cast,
         \A e \in new : e.payload \in Payload(M, e.id),
         queue' = [queue EXCEPT ![n] = old \cup new]
  PROVE  QueueGood(M)'
  <1>1. /\ queue \in [Node -> SUBSET Cast]
        /\ \A m \in Node : \A e \in queue[m] : e.payload \in Payload(M, e.id)
    BY DEF QueueGood
  <1>2. queue' \in [Node -> SUBSET Cast]
    BY <1>1
  <1>3. \A m \in Node : \A e \in queue'[m] : e.id \in Id /\ e.payload \in Payload(M, e.id)
    BY <1>1 DEF Cast
  <1>4. QED
    BY <1>2, <1>3, Same DEF QueueGood

LEMMA PublishAgainKeeps ==
  ASSUME NEW M \in [Id -> Counter], Inv(M), NEW n \in Node, PublishAgain(n)
  PROVE  Inv(M)'
  <1>1. UNCHANGED <<gc, delta, pending, made, reused, last, cache, recv, inbox, running>>
    BY DEF PublishAgain
  <1>2. PICK id \in last[n] :
          /\ cache[n][id] # Empty
          /\ queue' = [queue EXCEPT ![n] =
               queue[n] \cup {[id |-> id, payload |-> cache[n][id], sure |-> TRUE]}]
    BY DEF PublishAgain, Cached
  <1>3. id \in Id /\ cache[n][id] \in Counter /\ cache[n][id] \in Payload(M, id)
    BY <1>2 DEF Inv, Locals, Carried, CacheGood
  <1> DEFINE e == [id |-> id, payload |-> cache[n][id], sure |-> TRUE]
  <1>4. e \in Cast /\ e.payload \in Payload(M, e.id)
    BY <1>3 DEF Cast
  <1>5. QueueGood(M)'
    BY <1>1, <1>2, <1>4, QueueKeeps DEF Inv, Carried
  <1>6. QED
    BY <1>1, <1>5, Same, BoundedSame DEF Inv, Carried

LEMMA SendCastKeeps ==
  ASSUME NEW M \in [Id -> Counter], Inv(M), NEW n \in Node, NEW e, NEW heard,
         SendCast(n, e, heard)
  PROVE  Inv(M)'
  <1>1. UNCHANGED <<gc, delta, pending, made, reused, last, cache, recv, running>>
    BY DEF SendCast
  <1>2. /\ queue' = [queue EXCEPT ![n] = queue[n] \ {e}]
        /\ Broadcast(inbox, n, Packet("data", {e.id}, e.payload), heard)
    BY DEF SendCast
  <1>3. e \in Cast /\ e.payload \in Payload(M, e.id)
    BY DEF SendCast, Inv, Carried, QueueGood
  <1> DEFINE old == queue[n] \ {e}
             new == {}
  <1>4. QueueGood(M)'
    <2>1. /\ queue' = [queue EXCEPT ![n] = old \cup new] /\ old \in SUBSET queue[n]
          /\ new \in SUBSET Cast /\ \A g \in new : g.payload \in Payload(M, g.id)
      BY <1>2
    <2> HIDE DEF old, new
    <2>2. QED
      BY <1>1, <2>1, QueueKeeps DEF Inv, Carried
  <1>5. Packet("data", {e.id}, e.payload) \in GoodDatagram(M)
    BY <1>3 DEF Packet, GoodDatagram, Datagram, Kinds, Cast
  <1>6. inbox' \in [Node -> Seq(GoodDatagram(M))] /\ Bounded'
    <2> DEFINE d == Packet("data", {e.id}, e.payload)
               X == GoodDatagram(M)
    <2>1. inbox \in [Node -> Seq(X)] /\ Broadcast(inbox, n, d, heard) /\ d \in X /\ Bounded
      BY <1>2, <1>5 DEF Inv, Carried, InboxGood
    <2> HIDE DEF d, X
    <2>2. inbox' \in [Node -> Seq(X)] /\ Bounded'
      BY <2>1, BroadcastKeeps DEF Bounded
    <2>3. QED
      BY <2>2 DEF X
  <1>7. QED
    BY <1>1, <1>4, <1>6, Same DEF Inv, Carried, InboxGood

LEMMA DeferKeeps ==
  ASSUME NEW M \in [Id -> Counter], Inv(M), NEW n \in Node, NEW e, Defer(n, e)
  PROVE  Inv(M)'
  <1>1. UNCHANGED <<gc, delta, pending, made, reused, last, cache, recv, inbox, running>>
    BY DEF Defer
  <1> DEFINE f == [e EXCEPT !.sure = TRUE]
  <1>2. queue' = [queue EXCEPT ![n] = (queue[n] \ {e}) \cup {f}]
    BY DEF Defer
  <1>3. e \in Cast /\ e.payload \in Payload(M, e.id)
    BY DEF Defer, Inv, Carried, QueueGood
  <1>4. f \in Cast /\ f.id = e.id /\ f.payload = e.payload
    BY <1>3 DEF Cast
  <1> HIDE DEF f
  <1> DEFINE old == queue[n] \ {e}
             new == {f}
  <1>5. QueueGood(M)'
    <2>1. queue' = [queue EXCEPT ![n] = old \cup new] /\ old \in SUBSET queue[n]
      BY <1>2
    <2>2. new \in SUBSET Cast /\ \A g \in new : g.payload \in Payload(M, g.id)
      BY <1>3, <1>4
    <2> HIDE DEF old, new
    <2>3. QED
      BY <1>1, <2>1, <2>2, QueueKeeps DEF Inv, Carried
  <1>6. QED
    BY <1>1, <1>5, Same, BoundedSame DEF Inv, Carried

LEMMA GossipKeeps ==
  ASSUME NEW M \in [Id -> Counter], Inv(M), NEW n \in Node, NEW heard, Gossip(n, heard)
  PROVE  Inv(M)'
  <1>1. UNCHANGED <<gc, delta, pending, made, reused, last, cache, queue, recv, running>>
    BY DEF Gossip
  <1>2. PICK ids \in SUBSET Numbers(n) : Broadcast(inbox, n, Packet("gossip", ids, Empty), heard)
    BY DEF Gossip
  <1>3. Packet("gossip", ids, Empty) \in GoodDatagram(M)
    BY Constants DEF Packet, GoodDatagram, Datagram, Kinds, Numbers
  <1>4. inbox' \in [Node -> Seq(GoodDatagram(M))] /\ Bounded'
    <2> DEFINE d == Packet("gossip", ids, Empty)
               X == GoodDatagram(M)
    <2>1. inbox \in [Node -> Seq(X)] /\ Broadcast(inbox, n, d, heard) /\ d \in X /\ Bounded
      BY <1>2, <1>3 DEF Inv, Carried, InboxGood
    <2> HIDE DEF d, X
    <2>2. inbox' \in [Node -> Seq(X)] /\ Bounded'
      BY <2>1, BroadcastKeeps DEF Bounded
    <2>3. QED
      BY <2>2 DEF X
  <1>5. QED
    BY <1>1, <1>4, Same DEF Inv, Carried, InboxGood

LEMMA ExpireKeeps ==
  ASSUME NEW M \in [Id -> Counter], Inv(M), NEW n \in Node, NEW id \in Id, Expire(n, id)
  PROVE  Inv(M)'
  <1>1. UNCHANGED <<gc, delta, pending, made, reused, last, queue, recv, inbox, running>>
    BY DEF Expire
  <1>2. /\ cache \in [Node -> [Id -> Counter]] /\ CachedIsCounted
        /\ \A m \in Node, i \in Id : cache[m][i] \in Payload(M, i) \cup {Empty}
    BY DEF Inv, Carried, CacheGood
  <1>3. cache' = [cache EXCEPT ![n][id] = Empty]
    BY DEF Expire
  <1>4. /\ cache' \in [Node -> [Id -> Counter]]
        /\ \A m \in Node, i \in Id :
             cache'[m][i] = IF m = n /\ i = id THEN Empty ELSE cache[m][i]
    BY <1>2, <1>3, Constants
  <1>5. CacheGood(M)'
    BY <1>1, <1>2, <1>4, Same DEF Inv, CacheGood
  <1>6. CachedIsCounted'
    BY <1>1, <1>2, <1>4 DEF CachedIsCounted, Numbers, Cached
  <1>7. QED
    BY <1>1, <1>5, <1>6, Same, BoundedSame DEF Inv, Carried

\* recv_loop caches a datagram's message before it joins it.
LEMMA RecvDataKeeps ==
  ASSUME NEW M \in [Id -> Counter], Inv(M), NEW n \in Node, RecvData(n)
  PROVE  Inv(M)'
  <1>1. UNCHANGED <<gc, delta, pending, made, reused, last, queue, running>>
    BY DEF RecvData
  <1> DEFINE d == First(n)
  <1>2. /\ recv[n] = Nothing /\ inbox[n] # <<>> /\ d.kind = "data" /\ inbox' = Taken(n)
    BY DEF RecvData, Receives
  <1>3. /\ d \in GoodDatagram(M)
        /\ inbox' \in [Node -> Seq(GoodDatagram(M))] /\ Bounded'
    BY <1>2, TakenKeeps DEF Inv, Carried, Bounded
  <1>4. InboxGood(M)'
    BY <1>1, <1>3, Same DEF Inv, InboxGood
  <1>5. PICK id \in d.ids :
          \/ UNCHANGED <<cache, recv>>
          \/ /\ cache' = [cache EXCEPT ![n][id] = d.payload]
             /\ recv' = [recv EXCEPT ![n] = d]
    BY DEF RecvData, CacheInsert
  <1>6. CASE UNCHANGED <<cache, recv>>
    BY <1>1, <1>3, <1>4, <1>6, Same DEF Inv, Carried
  <1>7. CASE /\ cache' = [cache EXCEPT ![n][id] = d.payload]
             /\ recv' = [recv EXCEPT ![n] = d]
    <2>1. d.ids = {id} /\ id \in Id /\ d.payload \in Payload(M, id) /\ d.payload \in Counter
      BY <1>2, <1>3, <1>5 DEF GoodDatagram, Datagram
    <2>2. /\ cache \in [Node -> [Id -> Counter]]
          /\ \A m \in Node, i \in Id : cache[m][i] \in Payload(M, i) \cup {Empty}
          /\ recv \in [Node -> GoodDatagram(M) \cup {Nothing}]
      BY DEF Inv, Carried, CacheGood, RecvGood
    <2> HIDE DEF d
    <2>3. \A m \in Node, i \in Id :
            cache'[m][i] = IF m = n /\ i = id THEN d.payload ELSE cache[m][i]
      BY <1>7, <2>1, <2>2
    <2>4. CacheGood(M)'
      <3>1. cache' \in [Node -> [Id -> Counter]]
        BY <1>7, <2>1, <2>2
      <3>2. \A i \in Id : Payload(M, i)' = Payload(M, i)
        BY <1>1, Same DEF Inv
      <3>3. QED
        BY <2>1, <2>2, <2>3, <3>1, <3>2 DEF CacheGood
    <2>5. RecvGood(M)'
      <3>1. recv' \in [Node -> GoodDatagram(M) \cup {Nothing}]
        BY <1>3, <1>7, <2>2
      <3>2. QED
        BY <1>1, <3>1, Same DEF Inv, RecvGood
    <2>6. CachedIsCounted'
      <3>1. recv[n].kind # "data" /\ recv'[n] = d /\ \A m \in Node : m # n => recv'[m] = recv[m]
        BY <1>2, <1>7, <2>2, Constants
      <3>2. CachedIsCounted /\ gc' = gc
        BY <1>1 DEF Inv
      <3>3. ASSUME NEW m \in Node, NEW i \in Id, cache'[m][i] # Empty
            PROVE  \/ Below(cache'[m][i], gc'[m])
                   \/ /\ recv'[m].kind = "data" /\ recv'[m].ids = {i}
                      /\ recv'[m].payload = cache'[m][i]
        <4>1. CASE m = n /\ i = id
          BY <4>1, <1>2, <2>1, <2>3, <3>1
        <4>2. CASE ~(m = n /\ i = id)
          BY <4>2, <2>3, <3>1, <3>2, <3>3 DEF CachedIsCounted, Numbers, Cached
        <4>3. QED
          BY <4>1, <4>2
      <3>4. QED
        BY <3>3 DEF CachedIsCounted, Numbers, Cached
    <2>7. QED
      BY <1>1, <1>3, <1>4, <2>4, <2>5, <2>6, Same DEF Inv, Carried
  <1>8. QED
    BY <1>5, <1>6, <1>7

\* The join makes good on what was cached.
LEMMA ApplyDataKeeps ==
  ASSUME NEW M \in [Id -> Counter], Inv(M), NEW n \in Node, ApplyData(n)
  PROVE  Inv(M)'
  <1> DEFINE d == recv[n]
             g == Join(gc[n], d.payload)
  <1>1. /\ gc \in [Node -> Counter] /\ made \in [Node -> Nat] /\ Locals /\ Published
        /\ UNCHANGED <<delta, pending, made, reused, last, cache, inbox, running>>
        /\ recv \in [Node -> GoodDatagram(M) \cup {Nothing}]
    BY DEF ApplyData, Inv, Locals, Carried, RecvGood
  <1>2. PICK id \in d.ids, ncount \in NeighborCounts(n) :
          /\ gc' = [gc EXCEPT ![n] = g]
          /\ queue' = [queue EXCEPT ![n] =
               queue[n] \cup {[id |-> id, payload |-> d.payload, sure |-> Sure(ncount)]}]
          /\ recv' = [recv EXCEPT ![n] = Nothing] /\ d.kind = "data"
    BY DEF ApplyData
  <1>3. /\ d \in GoodDatagram(M) /\ d.ids = {id} /\ id \in Id
        /\ d.payload \in Counter /\ d.payload \in Payload(M, id) /\ Truthful(d.payload)
    BY <1>1, <1>2, Constants DEF GoodDatagram, Datagram, Payload
  <1>4. /\ g \in Counter /\ Below(gc[n], g) /\ Below(d.payload, g) /\ Truthful(g)
    BY <1>1, <1>3, JoinAbove DEF Published
  <1>p. PICK p \in Counter : p = d.payload
    BY <1>3
  <1>g. PICK h \in Counter : h = g
    BY <1>4
  <1> HIDE DEF g
  <1>5. /\ gc' \in [Node -> Counter]
        /\ \A m \in Node : gc'[m] = IF m = n THEN h ELSE gc[m]
    BY <1>1, <1>2, <1>g
  <1>6. \A m \in Node : Below(gc[m], gc'[m])
    BY <1>1, <1>4, <1>5, <1>g DEF Below, Counter
  <1>7. \A k \in Node : gc'[k][k] = gc[k][k]
    <2>1. h[n] <= gc[n][n] /\ gc[n][n] <= h[n] /\ h[n] \in Nat /\ gc[n][n] \in Nat
      BY <1>1, <1>4, <1>g DEF Truthful, Below, Counter
    <2>2. QED
      BY <1>5, <2>1
  <1>8. Locals'
    BY <1>1, <1>5 DEF Locals
  <1>9. Published'
    <2>1. \A m \in Node : Truthful(gc[m])'
      BY <1>1, <1>4, <1>5, <1>7, <1>g DEF Truthful, Published
    <2>2. \A m \in Node : Below(delta'[m], gc'[m]) /\ Below(pending'[m], gc'[m])
      <3>1. \A m \in Node : /\ delta[m] \in Counter /\ pending[m] \in Counter
                            /\ gc[m] \in Counter /\ gc'[m] \in Counter
        BY <1>1, <1>5 DEF Locals
      <3>2. \A m \in Node : Below(delta[m], gc[m]) /\ Below(pending[m], gc[m])
        BY <1>1 DEF Published
      <3>3. \A m \in Node : Below(delta[m], gc'[m]) /\ Below(pending[m], gc'[m])
        BY <1>6, <3>1, <3>2, BelowTransitive
      <3>4. QED
        BY <1>1, <3>3
    <2>3. \A m \in Node : /\ made'[m] + Due(pending'[m]) + Due(delta'[m]) <= gc'[m][m]
                          /\ gc'[m][m] <= MaxOps[m]
      BY <1>1, <1>7 DEF Published
    <2>4. QED
      BY <2>1, <2>2, <2>3 DEF Published
  <1>10. Grows(M, M)
    BY <1>1, <1>7 DEF Grows, Counter
  <1>11. /\ \A i \in Id : Payload(M, i) \subseteq Payload(M, i)'
         /\ GoodDatagram(M) \subseteq GoodDatagram(M)'
         /\ CacheGood(M)' /\ InboxGood(M)'
         /\ recv \in [Node -> GoodDatagram(M)' \cup {Nothing}]
    BY <1>1, <1>8, <1>10, Grown DEF Inv, Carried
  <1>12. RecvGood(M)'
    BY <1>2, <1>11 DEF RecvGood
  <1>13. QueueGood(M)'
    <2>1. /\ queue \in [Node -> SUBSET Cast]
          /\ \A m \in Node : \A f \in queue[m] : f.payload \in Payload(M, f.id)
      BY DEF Inv, Carried, QueueGood
    <2> DEFINE e == [id |-> id, payload |-> p, sure |-> Sure(ncount)]
    <2>2. e \in Cast /\ e.id = id /\ e.payload = p /\ p \in Payload(M, id)'
      BY <1>3, <1>11, <1>p DEF Cast, Sure
    <2>3. queue' = [queue EXCEPT ![n] = @ \cup {e}]
      BY <1>2, <1>p
    <2> HIDE DEF e
    <2>4. queue' \in [Node -> SUBSET Cast]
      BY <2>1, <2>2, <2>3
    <2>5. ASSUME NEW m \in Node, NEW f \in queue'[m] PROVE f.payload \in Payload(M, f.id)'
      <3>1. CASE f = e
        BY <2>2, <3>1
      <3>2. CASE f # e
        <4>1. f \in queue[m] /\ f \in Cast
          BY <2>1, <2>3, <3>2
        <4>2. f.id \in Id
          BY <4>1 DEF Cast
        <4>3. QED
          BY <1>11, <2>1, <4>1, <4>2
      <3>3. QED
        BY <3>1, <3>2
    <2>6. QED
      BY <2>4, <2>5 DEF QueueGood
  <1>14. CachedIsCounted'
    <2>1. ASSUME NEW m \in Node, NEW i \in Id, cache[m][i] # Empty
          PROVE  \/ Below(cache[m][i], gc'[m])
                 \/ /\ recv'[m].kind = "data" /\ recv'[m].ids = {i}
                    /\ recv'[m].payload = cache[m][i]
      <3>1. cache[m][i] \in Counter /\ gc[m] \in Counter /\ gc'[m] \in Counter
        BY <1>1, <1>5 DEF Inv, Carried, CacheGood
      <3>2. \/ Below(cache[m][i], gc[m])
            \/ recv[m].kind = "data" /\ recv[m].ids = {i} /\ recv[m].payload = cache[m][i]
        BY <2>1 DEF Inv, CachedIsCounted, Numbers, Cached
      <3>3. CASE Below(cache[m][i], gc[m])
        BY <1>6, <3>1, <3>3, BelowTransitive
      <3>4. CASE m = n /\ recv[m].payload = cache[m][i]
        BY <1>4, <1>5, <1>g, <3>4
      <3>5. CASE m # n /\ recv[m].kind = "data" /\ recv[m].ids = {i} /\ recv[m].payload = cache[m][i]
        BY <1>1, <1>2, <3>5
      <3>6. QED
        BY <3>2, <3>3, <3>4, <3>5
    <2>2. QED
      BY <1>1, <2>1 DEF CachedIsCounted, Numbers, Cached
  <1>15. QED
    BY <1>1, <1>8, <1>9, <1>11, <1>12, <1>13, <1>14, BoundedSame DEF Inv, Carried

LEMMA RecvGossipKeeps ==
  ASSUME NEW M \in [Id -> Counter], Inv(M), NEW n \in Node, RecvGossip(n)
  PROVE  Inv(M)'
  <1>1. UNCHANGED <<gc, delta, pending, made, reused, last, cache, queue, running>>
    BY DEF RecvGossip
  <1>2. /\ recv[n] = Nothing /\ inbox[n] # <<>> /\ First(n).kind = "gossip"
        /\ inbox' = Taken(n) /\ recv' = [recv EXCEPT ![n] = First(n)]
    BY DEF RecvGossip, Receives
  <1>3. /\ First(n) \in GoodDatagram(M)
        /\ inbox' \in [Node -> Seq(GoodDatagram(M))] /\ Bounded'
    BY <1>2, TakenKeeps DEF Inv, Carried, Bounded
  <1>4. recv \in [Node -> GoodDatagram(M) \cup {Nothing}]
    BY DEF Inv, Carried, RecvGood
  <1>5. InboxGood(M)' /\ RecvGood(M)'
    <2>1. recv' \in [Node -> GoodDatagram(M) \cup {Nothing}]
      BY <1>2, <1>3, <1>4
    <2>2. QED
      BY <1>1, <1>3, <2>1, Same DEF Inv, InboxGood, RecvGood
  <1>6. CachedIsCounted'
    <2>1. /\ \A m \in Node : m # n => recv'[m] = recv[m]
          /\ recv[n].kind # "data"
      BY <1>2, <1>4, Constants
    <2>2. QED
      BY <1>1, <2>1 DEF Inv, CachedIsCounted, Numbers, Cached
  <1>7. QED
    BY <1>1, <1>3, <1>5, <1>6, Same DEF Inv, Carried

\* A gossip that is gone through stays a gossip.
LEMMA NextHeaderKeeps ==
  ASSUME NEW M \in [Id -> Counter], Inv(M), NEW n \in Node, NEW id, NextHeader(n, id)
  PROVE  RecvGood(M)' /\ CachedIsCounted' /\ id \in Id
  <1>1. UNCHANGED <<gc, delta, pending, made, reused, last, cache, queue, running>>
    BY DEF NextHeader
  <1>2. recv \in [Node -> GoodDatagram(M) \cup {Nothing}]
    BY DEF Inv, Carried, RecvGood
  <1>3. recv[n].kind = "gossip" /\ id \in recv[n].ids /\ recv[n] \in GoodDatagram(M)
    BY <1>2, Constants DEF NextHeader
  <1> DEFINE left == recv[n].ids \ {id}
             rest == IF left = {} THEN Nothing ELSE [recv[n] EXCEPT !.ids = left]
  <1>4. recv' = [recv EXCEPT ![n] = rest]
    BY DEF NextHeader
  <1>5. rest \in GoodDatagram(M) \cup {Nothing} /\ rest.kind # "data" /\ id \in Id
    BY <1>3, Constants DEF GoodDatagram, Datagram
  <1> HIDE DEF rest
  <1>6. recv' \in [Node -> GoodDatagram(M) \cup {Nothing}]
    BY <1>2, <1>4, <1>5
  <1>7. /\ \A m \in Node : m # n => recv'[m] = recv[m]
        /\ recv[n].kind # "data"
    BY <1>2, <1>3, <1>4
  <1>8. CachedIsCounted'
    BY <1>1, <1>7 DEF Inv, CachedIsCounted, Numbers, Cached
  <1>9. QED
    BY <1>1, <1>5, <1>6, <1>8, Same DEF Inv, RecvGood

LEMMA SkipHeaderKeeps ==
  ASSUME NEW M \in [Id -> Counter], Inv(M), NEW n \in Node, NEW id, SkipHeader(n, id)
  PROVE  Inv(M)'
  <1>1. UNCHANGED <<gc, delta, pending, made, reused, last, cache, queue, inbox, running>>
    BY DEF SkipHeader, NextHeader
  <1>2. RecvGood(M)' /\ CachedIsCounted'
    BY NextHeaderKeeps DEF SkipHeader
  <1>3. QED
    BY <1>1, <1>2, Same, BoundedSame DEF Inv, Carried

LEMMA RequestHeaderKeeps ==
  ASSUME NEW M \in [Id -> Counter], Inv(M), NEW n \in Node, NEW id, NEW heard,
         RequestHeader(n, id, heard)
  PROVE  Inv(M)'
  <1>1. UNCHANGED <<gc, delta, pending, made, reused, last, cache, queue, running>>
    BY DEF RequestHeader, NextHeader
  <1>2. RecvGood(M)' /\ CachedIsCounted' /\ id \in Id
    BY NextHeaderKeeps DEF RequestHeader
  <1>3. inbox' \in [Node -> Seq(GoodDatagram(M))] /\ Bounded'
    <2> DEFINE d == Packet("request", {id}, Empty)
               X == GoodDatagram(M)
    <2>1. d \in X
      BY <1>2, Constants DEF Packet, GoodDatagram, Datagram, Kinds
    <2>2. inbox \in [Node -> Seq(X)] /\ Broadcast(inbox, n, d, heard) /\ Bounded
      BY DEF RequestHeader, Inv, Carried, InboxGood
    <2> HIDE DEF d, X
    <2>3. inbox' \in [Node -> Seq(X)] /\ Bounded'
      BY <2>1, <2>2, BroadcastKeeps DEF Bounded
    <2>4. QED
      BY <2>3 DEF X
  <1>4. QED
    BY <1>1, <1>2, <1>3, Same DEF Inv, Carried, InboxGood

\* The answer to a request is what the cache holds under the number.
LEMMA RecvRequestKeeps ==
  ASSUME NEW M \in [Id -> Counter], Inv(M), NEW n \in Node, NEW heard, RecvRequest(n, heard)
  PROVE  Inv(M)'
  <1>1. UNCHANGED <<gc, delta, pending, made, reused, last, cache, queue, recv, running>>
    BY DEF RecvRequest
  <1>2. inbox[n] # <<>> /\ First(n).kind = "request"
    BY DEF RecvRequest, Receives
  <1> DEFINE X == GoodDatagram(M)
  <1>3. /\ First(n) \in X /\ Taken(n) \in [Node -> Seq(X)]
        /\ \A m \in Node, kind \in Kinds : Waiting(Taken(n)[m], kind) <= Buffer
    BY <1>2, TakenKeeps DEF Inv, Carried
  <1>4. PICK id \in First(n).ids :
          \/ /\ Cached(n, id)
             /\ Broadcast(Taken(n), n, Packet("data", {id}, cache[n][id]), heard)
          \/ inbox' = Taken(n)
    BY DEF RecvRequest
  <1>5. inbox' \in [Node -> Seq(X)] /\ Bounded'
    <2>1. CASE inbox' = Taken(n)
      BY <1>3, <2>1 DEF Bounded
    <2>2. CASE /\ Cached(n, id)
               /\ Broadcast(Taken(n), n, Packet("data", {id}, cache[n][id]), heard)
      <3> DEFINE d == Packet("data", {id}, cache[n][id])
      <3>1. id \in Id
        BY <1>3, <1>4 DEF GoodDatagram, Datagram
      <3>2. cache[n][id] \in Payload(M, id) /\ cache[n][id] \in Counter
        BY <2>2, <3>1 DEF Cached, Inv, Carried, CacheGood
      <3>3. d \in X
        BY <3>1, <3>2 DEF Packet, GoodDatagram, Datagram, Kinds
      <3> HIDE DEF X
      <3>4. PICK sockets \in [Node -> Seq(X)] : sockets = Taken(n)
        BY <1>3
      <3>5. QED
        BY <1>3, <2>2, <3>3, <3>4, BroadcastKeeps
    <2>3. QED
      BY <1>4, <2>1, <2>2
  <1>6. QED
    BY <1>1, <1>5, Same DEF Inv, Carried, InboxGood

LEMMA NextIInv == IInv /\ [Next]_vars => IInv'
  <1> SUFFICES ASSUME NEW M \in [Id -> Counter], Inv(M), [Next]_vars PROVE IInv'
    BY DEF IInv
  <1>1. ASSUME NEW n \in Node, MainStep(n) PROVE Inv(M)'
    BY <1>1, LocalOpKeeps, AddPendingKeeps, StopKeeps DEF MainStep
  <1>2. ASSUME NEW n \in Node, LocalStep(n) PROVE IInv' \/ Inv(M)'
    BY <1>2, PublishNewKeeps, PublishAgainKeeps DEF LocalStep
  <1>3. ASSUME NEW n \in Node, GossipStep(n) PROVE Inv(M)'
    BY <1>3, GossipKeeps DEF GossipStep
  <1>4. ASSUME NEW n \in Node, RecvStep(n) PROVE Inv(M)'
    BY <1>4, ApplyDataKeeps, RecvDataKeeps, RecvGossipKeeps, RecvRequestKeeps, SkipHeaderKeeps,
       RequestHeaderKeeps DEF RecvStep
  <1>5. ASSUME NEW n \in Node, NEW e, CastStep(n, e) PROVE Inv(M)'
    BY <1>5, DeferKeeps, SendCastKeeps DEF CastStep
  <1>6. ASSUME NEW n \in Node, NEW id \in Id, Expire(n, id) PROVE Inv(M)'
    BY <1>6, ExpireKeeps
  <1>7. ASSUME UNCHANGED vars PROVE IInv'
    <2>1. UNCHANGED <<gc, delta, pending, made, reused, last, cache, queue, recv, inbox, running>>
      BY <1>7 DEF vars
    <2>2. Carried(M)' /\ Locals' /\ Published' /\ CachedIsCounted'
      BY <2>1, Same DEF Inv, Carried
    <2>3. QED
      BY <2>1, <2>2, BoundedSame DEF Inv, IInv
  <1>8. Inv(M)' => IInv'
    BY DEF IInv
  <1>9. QED
    BY <1>1, <1>2, <1>3, <1>4, <1>5, <1>6, <1>7, <1>8 DEF Next

\* The invariant holds in every reachable state.
LEMMA IInvariant == Spec => []IInv
  BY InitIInv, NextIInv, PTL DEF Spec

-----------------------------------------------------------------------------
(* The theorems.                                                           *)

\* Every variable keeps its type: in particular gen_id never gives out more
\* numbers than there are increments, and no socket holds more datagrams than
\* its buffer does.
THEOREM TypeCorrect == Spec => []TypeOK
  <1>1. IInv => TypeOK
    <2> SUFFICES ASSUME NEW M \in [Id -> Counter], Inv(M) PROVE TypeOK
      BY DEF IInv
    <2>1. GoodDatagram(M) \subseteq Datagram
      BY DEF GoodDatagram
    <2>2. recv \in [Node -> Datagram \cup {Nothing}]
      BY <2>1 DEF Inv, Carried, RecvGood
    <2>3. inbox \in [Node -> Seq(Datagram)]
      <3>1. \A box \in Seq(GoodDatagram(M)) : box \in Seq(Datagram)
        BY <2>1, SeqMonotonic
      <3>2. QED
        BY <3>1 DEF Inv, Carried, InboxGood
    <2>4. ASSUME NEW n \in Node PROVE made[n] \in 0 .. MaxOps[n]
      <3>1. /\ made[n] \in Nat /\ gc[n][n] \in Nat /\ MaxOps[n] \in Nat
            /\ Due(pending[n]) \in {0, 1} /\ Due(delta[n]) \in {0, 1}
        BY Constants DEF Inv, Locals, Counter, Due
      <3>2. made[n] + Due(pending[n]) + Due(delta[n]) <= gc[n][n] /\ gc[n][n] <= MaxOps[n]
        BY DEF Inv, Published
      <3>3. QED
        BY <3>1, <3>2
    <2>5. QED
      BY <2>2, <2>3, <2>4 DEF Inv, Locals, Carried, CacheGood, QueueGood, Bounded, TypeOK
  <1>2. QED
    BY <1>1, IInvariant, PTL

\* Dropping a message that is cached is safe, whoever numbered it: at every
\* moment what a node caches is counted, or is about to be.
THEOREM CachedCounted == Spec => []CachedIsCounted
  <1>1. IInv => CachedIsCounted
    BY DEF IInv, Inv
  <1>2. QED
    BY <1>1, IInvariant, PTL

\* A number gen_id gave out once means one payload wherever it turns up.
THEOREM NumbersMeanOne == Spec => []OneMeaning
  <1>1. IInv => OneMeaning
    <2> SUFFICES ASSUME NEW M \in [Id -> Counter], Inv(M), NEW id \in Id \ reused
                 PROVE  Cardinality(Meanings(id) \ {Empty}) <= 1
      BY DEF IInv, OneMeaning
    <2>1. \A p \in Payload(M, id) : p = M[id]
      BY DEF Payload
    <2>2. \A n \in Node : cache[n][id] \in {M[id], Empty}
      BY <2>1 DEF Inv, Carried, CacheGood
    <2>3. \A n \in Node : \A e \in queue[n] : e.id = id => e.payload = M[id]
      BY <2>1 DEF Inv, Carried, QueueGood
    <2>4. \A n \in Node : \A d \in Range(inbox[n]) :
            d.kind = "data" /\ d.ids = {id} => d.payload = M[id]
      <3>1. ASSUME NEW n \in Node PROVE Range(inbox[n]) \in SUBSET GoodDatagram(M)
        BY RangeOfSeq DEF Inv, Carried, InboxGood
      <3>2. QED
        BY <2>1, <3>1 DEF GoodDatagram
    <2>5. Meanings(id) \ {Empty} \in SUBSET {M[id]}
      BY <2>2, <2>3, <2>4 DEF Meanings
    <2>6. IsFiniteSet({M[id]}) /\ Cardinality({M[id]}) = 1
      BY FS_Singleton
    <2>7. IsFiniteSet(Meanings(id) \ {Empty})
          /\ Cardinality(Meanings(id) \ {Empty}) <= Cardinality({M[id]})
      BY <2>5, <2>6, FS_Subset
    <2>8. QED
      BY <2>6, <2>7
  <1>2. QED
    BY <1>1, IInvariant, PTL

\* Flooding with deduplication, gossip, repair by request, expiry and loss is
\* still the replicated grow-only counter that ReplicatedCounter specifies.
THEOREM Refinement == Spec => ImplementsCounter
  <1>1. Init => Abstract!Init
    BY DEF Init, Abstract!Init, Empty
  <1>2. IInv /\ [Next]_vars => [Abstract!Next]_gc
    <2> SUFFICES ASSUME NEW M \in [Id -> Counter], Inv(M), [Next]_vars PROVE [Abstract!Next]_gc
      BY DEF IInv
    <2>1. ASSUME NEW n \in Node, LocalOp(n) PROVE Abstract!Increment(n)
      <3>1. gc \in [Node -> [Node -> Nat]]
        BY DEF Inv, Locals, Counter
      <3>2. QED
        BY <2>1, <3>1 DEF LocalOp, Incremented, Abstract!Increment
    <2>2. ASSUME NEW n \in Node, ApplyData(n) PROVE Abstract!Learn(n)
      <3>1. /\ gc \in [Node -> Counter] /\ Published /\ MaxOps \in [Node -> Nat]
            /\ recv[n] \in GoodDatagram(M) \cup {Nothing}
        BY Constants DEF Inv, Locals, Carried, RecvGood
      <3>2. recv[n].payload \in Counter /\ Truthful(recv[n].payload)
        BY <2>2, <3>1, Constants DEF ApplyData, GoodDatagram, Datagram, Payload
      <3> DEFINE g == Join(gc[n], recv[n].payload)
      <3>3. g \in Counter /\ Below(gc[n], g) /\ Truthful(g)
        BY <3>1, <3>2, JoinAbove DEF Published
      <3>4. gc' = [gc EXCEPT ![n] = g]
        BY <2>2 DEF ApplyData
      <3> HIDE DEF g
      <3>5. \A k \in Node : /\ gc[n][k] <= g[k] /\ g[k] <= gc[k][k] /\ gc[k][k] <= MaxOps[k]
                            /\ g[k] \in Nat /\ gc[k][k] \in Nat /\ MaxOps[k] \in Nat
        BY <3>1, <3>3 DEF Below, Truthful, Published, Counter
      <3>6. g \in [Node -> UNION {0 .. MaxOps[k] : k \in Node}]
        <4>1. \A k \in Node : g[k] \in 0 .. MaxOps[k]
          BY <3>5
        <4>2. g = [k \in Node |-> g[k]]
          BY <3>3 DEF Counter
        <4>3. QED
          BY <4>1, <4>2
      <3>7. QED
        BY <3>4, <3>5, <3>6 DEF Abstract!Learn
    <2>3. ASSUME NEW n \in Node,
                 \/ AddPending(n) \/ Stop(n) \/ LocalStep(n) \/ GossipStep(n)
                 \/ RecvData(n) \/ RecvGossip(n)
                 \/ \E heard \in SUBSET Hears[n] : RecvRequest(n, heard)
                 \/ \E id \in recv[n].ids : SkipHeader(n, id)
                 \/ \E id \in recv[n].ids, heard \in SUBSET Hears[n] : RequestHeader(n, id, heard)
                 \/ \E e \in queue[n] : CastStep(n, e)
                 \/ \E id \in Id : Expire(n, id)
          PROVE  UNCHANGED gc
      BY <2>3 DEF AddPending, Stop, LocalStep, PublishNew, PublishAgain, GossipStep, Gossip,
                  RecvData, RecvGossip, RecvRequest, SkipHeader, RequestHeader, NextHeader,
                  CastStep, Defer, SendCast, Expire
    <2>4. QED
      BY <2>1, <2>2, <2>3 DEF Next, MainStep, RecvStep, vars, Abstract!Next
  <1>3. QED
    BY <1>1, <1>2, IInvariant, PTL DEF Spec, ImplementsCounter, Abstract!Spec
=============================================================================
