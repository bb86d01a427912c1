---------------------------- MODULE TrickleProofs ----------------------------
(* Proofs about Trickle, for every set of nodes, radio topology and bound. *)
EXTENDS Trickle, SequenceTheorems, TLAPS

-----------------------------------------------------------------------------
(* Counters.                                                               *)

\* join yields a counter that holds, under every key, the larger of the two
\* values: the pointwise maximum of gcounter::join.
LEMMA JoinIsMaximum ==
  ASSUME NEW g \in Counter, NEW h \in Counter
  PROVE  /\ Join(g, h) \in Counter
         /\ \A k \in Node : Join(g, h)[k] = IF g[k] >= h[k] THEN g[k] ELSE h[k]
  BY DEF Counter, Join, Larger

\* Merging is insensitive to duplication and to order: gcounter::join is
\* idempotent, commutative and associative.
THEOREM JoinIsSemilattice ==
  ASSUME NEW f \in Counter, NEW g \in Counter, NEW h \in Counter
  PROVE  /\ Join(g, g) = g
         /\ Join(g, h) = Join(h, g)
         /\ Join(f, Join(g, h)) = Join(Join(f, g), h)
  BY DEF Counter, Join, Larger

\* join is the least upper bound of the order Below, and so never forgets.
THEOREM JoinIsLeastUpperBound ==
  ASSUME NEW f \in Counter, NEW g \in Counter, NEW h \in Counter
  PROVE  /\ Below(g, Join(g, h)) /\ Below(h, Join(g, h))
         /\ Below(g, f) /\ Below(h, f) => Below(Join(g, h), f)
  BY DEF Counter, Join, Larger, Below

-----------------------------------------------------------------------------
(* The controller.                                                         *)

\* A controller whose interval has taken its decision exactly when it is past
\* its tx tick (OneDecision, for one controller).
Decided(c) ==
  /\ c.elapsed < c.interval
  /\ c.tx \in TxTicks(c.interval)
  /\ c.sent <=> c.elapsed > c.tx

\* reset_locked and advance_locked leave a controller at the start of an
\* undecided interval.
LEMMA FreshController ==
  ASSUME NEW i \in Imin .. Imax, NEW c \in Fresh(i)
  PROVE  c \in Controller /\ Decided(c)
  <1>1. PICK t \in TxTicks(i) :
          c = [interval |-> i, elapsed |-> 0, tx |-> t, count |-> 0, sent |-> FALSE]
    BY DEF Fresh
  <1>2. i \in Nat /\ 1 <= i /\ t \in Nat /\ t < i /\ 0 <= t
    BY ControllerAssumption DEF TxTicks, Imin
  <1>3. c \in Controller
    BY <1>1, <1>2, ControllerAssumption DEF Controller
  <1>4. QED
    BY <1>1, <1>2, <1>3 DEF Decided

\* note_new_information restarts with the smallest interval.
LEMMA ResetController ==
  ASSUME NEW c \in Reset
  PROVE  c \in Controller /\ Decided(c)
  BY FreshController, ControllerAssumption DEF Reset, Imin

\* tick() keeps the controller well formed, inside an interval and across its
\* end.
LEMMA TickedController ==
  ASSUME NEW c \in Controller, Decided(c), NEW e \in Ticked(c)
  PROVE  e \in Controller /\ Decided(e)
  <1> DEFINE d == [c EXCEPT !.sent = IF Decides(c) THEN TRUE ELSE @, !.elapsed = @ + 1]
  <1>1. /\ d.interval = c.interval /\ d.elapsed = c.elapsed + 1 /\ d.tx = c.tx
        /\ Decides(c) => d.sent = TRUE
        /\ ~Decides(c) => d.sent = c.sent
    <2>1. CASE Decides(c)
      BY <2>1 DEF Controller
    <2>2. CASE ~Decides(c)
      BY <2>2 DEF Controller
    <2>3. QED
      BY <2>1, <2>2
  <1>2. d \in Controller
    <2>1. CASE Decides(c)
      <3>1. d = [c EXCEPT !.sent = TRUE, !.elapsed = @ + 1]
        BY <2>1
      <3>2. [c EXCEPT !.sent = TRUE] \in Controller
        BY DEF Controller
      <3>3. \A x \in Controller : [x EXCEPT !.elapsed = @ + 1] \in Controller
        BY DEF Controller
      <3>4. d = [[c EXCEPT !.sent = TRUE] EXCEPT !.elapsed = @ + 1]
        BY <3>1 DEF Controller
      <3> HIDE DEF d
      <3>5. QED
        BY <3>2, <3>3, <3>4
    <2>2. CASE ~Decides(c)
      <3>1. d = [c EXCEPT !.elapsed = @ + 1]
        BY <2>2 DEF Controller
      <3> HIDE DEF d
      <3>2. QED
        BY <3>1 DEF Controller
    <2>3. QED
      BY <2>1, <2>2
  <1>3. CASE d.elapsed >= d.interval
    <2>1. Doubled(d.interval) \in Imin .. Imax
      BY <1>2, ControllerAssumption DEF Controller, Doubled, Imin
    <2>2. e \in Fresh(Doubled(d.interval))
      BY <1>3 DEF Ticked, Advance
    <2>3. QED
      BY <2>1, <2>2, FreshController
  <1>4. CASE ~(d.elapsed >= d.interval)
    <2>1. e = d
      BY <1>4 DEF Ticked
    <2>2. c.elapsed \in Nat /\ c.tx \in Nat /\ c.interval \in Nat
      BY DEF Controller, Imin
    <2>3. d.sent <=> c.elapsed >= c.tx
      BY <1>1, <2>2 DEF Decides, Decided
    <2>4. Decided(d)
      BY <1>1, <1>4, <2>2, <2>3 DEF Decided
    <2>5. QED
      BY <1>2, <2>1, <2>4
  <1>5. QED
    BY <1>3, <1>4

\* note_consistent_summary only counts.
LEMMA NotedController ==
  ASSUME NEW c \in Controller
  PROVE  /\ NotedConsistent(c) \in Controller
         /\ Decided(c) => Decided(NotedConsistent(c))
  BY ControllerAssumption DEF Controller, NotedConsistent, Decided

-----------------------------------------------------------------------------
(* The network.                                                            *)

\* Taking a datagram out of a buffer leaves only datagrams that were in it.
LEMMA RemoveAtKeeps ==
  ASSUME NEW X, NEW s \in Seq(X), NEW i \in DOMAIN s
  PROVE  RemoveAt(s, i) \in Seq(X)
  <1>1. /\ Len(s) \in Nat /\ i \in 1 .. Len(s) /\ i \in Int
        /\ \A j \in 1 .. Len(s) : s[j] \in X
    BY ElementOfSeq, LenProperties
  <1>2. SubSeq(s, 1, i - 1) \in Seq(X)
    BY <1>1, SubSeqProperties
  <1>3. SubSeq(s, i + 1, Len(s)) \in Seq(X)
    BY <1>1, SubSeqProperties
  <1>4. QED
    BY <1>2, <1>3, ConcatProperties DEF RemoveAt

\* A broadcast adds only its own datagram to the buffers it reaches.
LEMMA BroadcastAdds ==
  ASSUME NEW X, inbox \in [Node -> Seq(X)], NEW n, NEW kind, NEW e, NEW heard,
         [from |-> n, kind |-> kind, entries |-> e] \in X,
         Broadcast(n, kind, e, heard)
  PROVE  inbox' \in [Node -> Seq(X)]
  <1> DEFINE d == [from |-> n, kind |-> kind, entries |-> e]
  <1>1. \A m \in Node : Append(inbox[m], d) \in Seq(X)
    BY AppendProperties
  <1> HIDE DEF d
  <1>2. inbox' = [m \in Node |-> IF m \in heard THEN Append(inbox[m], d) ELSE inbox[m]]
    BY DEF Broadcast, d
  <1>3. QED
    BY <1>1, <1>2

\* Receiving adds no datagram to any buffer, and the one received was there.
LEMMA TakeKeeps ==
  ASSUME NEW X, inbox \in [Node -> Seq(X)], NEW n \in Node, NEW i \in DOMAIN inbox[n],
         Take(n, i)
  PROVE  inbox' \in [Node -> Seq(X)] /\ inbox[n][i] \in X
  <1>1. inbox[n] \in Seq(X) /\ inbox[n][i] \in X
    BY ElementOfSeq, LenProperties
  <1>2. RemoveAt(inbox[n], i) \in Seq(X)
    BY <1>1, RemoveAtKeeps
  <1>3. QED
    BY <1>1, <1>2 DEF Take

-----------------------------------------------------------------------------
(* Type correctness.                                                       *)

\* The inductive form of the type invariant: the controllers also decide
\* exactly once per interval.
TypeInv == TypeOK /\ OneDecision

\* A step that replaces one controller by a well-formed one keeps them all.
LEMMA ControllerStep ==
  ASSUME TypeInv, NEW n \in Node, NEW c \in Controller, Decided(c),
         ctl' = [ctl EXCEPT ![n] = c]
  PROVE  ctl' \in [Node -> Controller] /\ OneDecision'
  BY DEF TypeInv, TypeOK, OneDecision, Decided

\* A step that leaves every controller alone keeps its decision.
LEMMA ControllerKept ==
  ASSUME TypeInv, UNCHANGED ctl
  PROVE  ctl' \in [Node -> Controller] /\ OneDecision'
  BY DEF TypeInv, TypeOK, OneDecision

\* The places the comparison of two summaries leads to.
LEMMA AfterCompareType ==
  ASSUME NEW a \in Counter, NEW b \in Counter
  PROVE  AfterCompare(a, b) \in RecvPlaces
  BY DEF AfterCompare, RecvPlaces

\* A program that has just started is well typed.
LEMMA InitTypeInv == Init => TypeInv
  <1> SUFFICES ASSUME Init PROVE TypeInv
    OBVIOUS
  <1>1. Empty \in Counter
    BY DEF Empty, Counter
  <1>2. Idle \in [at : RecvPlaces, repair : Counter]
    BY <1>1 DEF Idle, Thread, RecvPlaces
  <1>3. inbox \in [Node -> Seq(Datagram)]
    BY EmptySeq DEF Init
  <1>4. ctl \in [Node -> Controller] /\ OneDecision
    BY FreshController, ControllerAssumption DEF Init, Initial, Imin, OneDecision, Decided
  <1>5. TypeOK
    BY <1>1, <1>2, <1>3, <1>4 DEF Init, TypeOK
  <1>6. QED
    BY <1>4, <1>5 DEF TypeInv

\* Every step of every thread keeps the types.
LEMMA NextTypeInv == TypeInv /\ [Next]_vars => TypeInv'
  <1> SUFFICES ASSUME TypeInv, [Next]_vars PROVE TypeInv'
    OBVIOUS
  <1> USE DEF TypeInv
  <1>t. /\ Empty \in Counter
        /\ \A place \in RecvPlaces : Thread(place) \in [at : RecvPlaces, repair : Counter]
        /\ \A n \in Node : known[n] \in Counter /\ gc[n] \in Counter
    BY DEF Empty, Counter, Thread, TypeOK
  <1>i. Idle \in [at : RecvPlaces, repair : Counter]
    BY <1>t DEF Idle, RecvPlaces
  <1>1. ASSUME NEW n \in Node, LocalOp(n) PROVE TypeInv'
    <2>1. gc' = [gc EXCEPT ![n] = Incremented(gc[n], n, 1)]
      BY <1>1 DEF LocalOp
    <2>2. Incremented(gc[n], n, 1) \in Counter
      BY <1>t DEF Incremented, Counter
    <2>3. gc' \in [Node -> Counter] /\ gc'[n][n] \in Nat
      BY <2>1, <2>2 DEF TypeOK, Counter
    <2>4. known' \in [Node -> Counter]
      BY <1>1, <2>3, <1>t DEF LocalOp, TypeOK, Counter
    <2>5. OneDecision'
      BY <1>1, ControllerKept DEF LocalOp
    <2>6. QED
      BY <1>1, <2>3, <2>4, <2>5 DEF LocalOp, TypeOK
  <1>2. ASSUME NEW n \in Node, ResetAfterOp(n) PROVE TypeInv'
    <2>1. PICK c \in Reset : ctl' = [ctl EXCEPT ![n] = c]
      BY <1>2 DEF ResetAfterOp
    <2>2. ctl' \in [Node -> Controller] /\ OneDecision'
      BY <2>1, ResetController, ControllerStep
    <2>3. QED
      BY <1>2, <2>2 DEF ResetAfterOp, TypeOK
  <1>3. ASSUME NEW n \in Node, Stop(n) PROVE TypeInv'
    <2>1. <<>> \in Seq(Datagram)
      BY EmptySeq
    <2>2. OneDecision'
      BY <1>3, ControllerKept DEF Stop
    <2>3. QED
      BY <1>3, <2>1, <2>2 DEF Stop, TypeOK
  <1>4. ASSUME NEW n \in Node, Tick(n) PROVE TypeInv'
    <2>1. PICK c \in Ticked(ctl[n]) : ctl' = [ctl EXCEPT ![n] = c]
      BY <1>4 DEF Tick
    <2>2. ctl[n] \in Controller /\ Decided(ctl[n])
      BY DEF TypeOK, OneDecision, Decided
    <2>3. ctl' \in [Node -> Controller] /\ OneDecision'
      BY <2>1, <2>2, TickedController, ControllerStep
    <2>4. QED
      BY <1>4, <2>3 DEF Tick, TypeOK
  <1>5. ASSUME NEW n \in Node, NEW heard, SendPeriodic(n, heard) PROVE TypeInv'
    <2>1. [from |-> n, kind |-> "summary", entries |-> known[n]] \in Datagram
      BY <1>t DEF Datagram, Kinds
    <2>2. inbox' \in [Node -> Seq(Datagram)]
      BY <1>5, <2>1, BroadcastAdds DEF SendPeriodic, TypeOK
    <2>3. OneDecision'
      BY <1>5, ControllerKept DEF SendPeriodic
    <2>4. QED
      BY <1>5, <2>2, <2>3 DEF SendPeriodic, TypeOK
  <1>6. ASSUME NEW n \in Node, NEW i \in DOMAIN inbox[n], RecvSummary(n, i) PROVE TypeInv'
    <2>1. inbox' \in [Node -> Seq(Datagram)] /\ inbox[n][i] \in Datagram
      BY <1>6, TakeKeeps DEF RecvSummary, TypeOK
    <2> DEFINE remote == inbox[n][i].entries
    <2>2. remote \in Counter
      BY <2>1 DEF Datagram
    <2>3. RepairEntries(known[n], remote) \in Counter
      BY <1>t, <2>2 DEF RepairEntries, Counter
    <2>4. AfterCompare(known[n], remote) \in RecvPlaces
      BY <1>t, <2>2, AfterCompareType
    <2>5. recv' = [recv EXCEPT ![n] = [at |-> AfterCompare(known[n], remote),
                                       repair |-> RepairEntries(known[n], remote)]]
      BY <1>6 DEF RecvSummary
    <2> HIDE DEF remote
    <2>6. recv' \in [Node -> [at : RecvPlaces, repair : Counter]]
      BY <2>3, <2>4, <2>5 DEF TypeOK
    <2>7. OneDecision'
      BY <1>6, ControllerKept DEF RecvSummary
    <2>8. QED
      BY <1>6, <2>1, <2>6, <2>7 DEF RecvSummary, TypeOK
  <1>7. ASSUME NEW n \in Node, NoteConsistent(n) PROVE TypeInv'
    <2>1. ctl[n] \in Controller /\ Decided(ctl[n])
      BY DEF TypeOK, OneDecision, Decided
    <2>2. ctl' = [ctl EXCEPT ![n] = NotedConsistent(ctl[n])]
      BY <1>7 DEF NoteConsistent
    <2>3. ctl' \in [Node -> Controller] /\ OneDecision'
      BY <2>1, <2>2, NotedController, ControllerStep
    <2>4. QED
      BY <1>7, <1>i, <2>3 DEF NoteConsistent, TypeOK
  <1>8. ASSUME NEW n \in Node, NEW heard, SendRepair(n, heard) PROVE TypeInv'
    <2>1. recv[n].repair \in Counter
      BY DEF TypeOK
    <2>2. [from |-> n, kind |-> "repair", entries |-> recv[n].repair] \in Datagram
      BY <2>1 DEF Datagram, Kinds
    <2>3. inbox' \in [Node -> Seq(Datagram)]
      BY <1>8, <2>2, BroadcastAdds DEF SendRepair, TypeOK
    <2>4. Thread("reset_then_request") \in [at : RecvPlaces, repair : Counter]
      BY <1>t DEF RecvPlaces
    <2>5. OneDecision'
      BY <1>8, ControllerKept DEF SendRepair
    <2>6. QED
      BY <1>8, <1>i, <2>3, <2>4, <2>5 DEF SendRepair, TypeOK
  <1>9. ASSUME NEW n \in Node, ResetOnSummary(n) PROVE TypeInv'
    <2>1. PICK c \in Reset : ctl' = [ctl EXCEPT ![n] = c]
      BY <1>9 DEF ResetOnSummary
    <2>2. ctl' \in [Node -> Controller] /\ OneDecision'
      BY <2>1, ResetController, ControllerStep
    <2>3. Thread("request") \in [at : RecvPlaces, repair : Counter]
      BY <1>t DEF RecvPlaces
    <2>4. QED
      BY <1>9, <2>2, <2>3 DEF ResetOnSummary, TypeOK
  <1>10. ASSUME NEW n \in Node, NEW heard, SendRequest(n, heard) PROVE TypeInv'
    <2>1. [from |-> n, kind |-> "summary", entries |-> known[n]] \in Datagram
      BY <1>t DEF Datagram, Kinds
    <2>2. inbox' \in [Node -> Seq(Datagram)]
      BY <1>10, <2>1, BroadcastAdds DEF SendRequest, TypeOK
    <2>3. OneDecision'
      BY <1>10, ControllerKept DEF SendRequest
    <2>4. QED
      BY <1>10, <1>i, <2>2, <2>3 DEF SendRequest, TypeOK
  <1>11. ASSUME NEW n \in Node, NEW i \in DOMAIN inbox[n], ApplyRepair(n, i) PROVE TypeInv'
    <2> DEFINE entries == inbox[n][i].entries
               news == News(n, entries)
               taken == [k \in Node |-> IF k \in news THEN entries[k] ELSE 0]
    <2>1. inbox' \in [Node -> Seq(Datagram)] /\ inbox[n][i] \in Datagram
      BY <1>11, TakeKeeps DEF ApplyRepair, TypeOK
    <2>2. entries \in Counter
      BY <2>1 DEF Datagram
    <2>3. taken \in Counter
      BY <2>2 DEF Counter
    <2>4. Join(gc[n], taken) \in Counter
      BY <1>t, <2>3, JoinIsMaximum
    <2>5. [k \in Node |-> IF k \in news THEN entries[k] ELSE known[n][k]] \in Counter
      BY <1>t, <2>2 DEF Counter
    <2>6. /\ known' = [known EXCEPT ![n] =
                         [k \in Node |-> IF k \in news THEN entries[k] ELSE known[n][k]]]
          /\ gc' = [gc EXCEPT ![n] = Join(gc[n], taken)]
          /\ recv' = [recv EXCEPT ![n] = IF news = {} THEN Idle ELSE Thread("reset")]
          /\ UNCHANGED <<ctl, op, timer, running>>
      BY <1>11 DEF ApplyRepair
    <2>7. Thread("reset") \in [at : RecvPlaces, repair : Counter]
      BY <1>t DEF RecvPlaces
    <2>8. OneDecision'
      BY <2>6, ControllerKept
    <2> HIDE DEF entries, news, taken
    <2>9. recv' \in [Node -> [at : RecvPlaces, repair : Counter]]
      BY <1>i, <2>6, <2>7 DEF TypeOK
    <2>10. QED
      BY <2>1, <2>4, <2>5, <2>6, <2>8, <2>9 DEF TypeOK
  <1>12. ASSUME NEW n \in Node, ResetAfterRepair(n) PROVE TypeInv'
    <2>1. PICK c \in Reset : ctl' = [ctl EXCEPT ![n] = c]
      BY <1>12 DEF ResetAfterRepair
    <2>2. ctl' \in [Node -> Controller] /\ OneDecision'
      BY <2>1, ResetController, ControllerStep
    <2>3. QED
      BY <1>12, <1>i, <2>2 DEF ResetAfterRepair, TypeOK
  <1>13. CASE UNCHANGED vars
    BY <1>13, ControllerKept DEF vars, TypeOK
  <1>14. QED
    BY <1>1, <1>2, <1>3, <1>4, <1>5, <1>6, <1>7, <1>8, <1>9, <1>10, <1>11, <1>12, <1>13
       DEF Next, MainStep, TimerStep, RecvStep, Handle

\* Every reachable state is well typed.
LEMMA TypeInvariant == Spec => []TypeInv
  BY InitTypeInv, NextTypeInv, PTL DEF Spec

\* Type correctness of every node's state at all times.
THEOREM TypeCorrect == Spec => []TypeOK
  BY TypeInvariant, PTL DEF TypeInv

\* TrickleController's tick() decides once per interval, whatever resets
\* (note_new_information) the main and receive threads interleave with it.
THEOREM DecidesOnce == Spec => []OneDecision
  BY TypeInvariant, PTL DEF TypeInv

-----------------------------------------------------------------------------
(* Nothing invented, nothing forgotten.                                    *)

\* A counter that claims no increment its origin has not performed.
Truthful(g) == \A k \in Node : g[k] <= known[k][k]

TruthfulDatagram == {d \in Datagram : Truthful(d.entries)}

\* The inductive invariant: NothingInvented, with what is in flight written as
\* membership in a set that only grows, the agreement of the two records a
\* node keeps, and the bound on increments.
SafeInv ==
  /\ TypeInv
  /\ \A n \in Node : Truthful(known[n])
  /\ inbox \in [Node -> Seq(TruthfulDatagram)]
  /\ \A n \in Node : Truthful(recv[n].repair)
  /\ CounterAgrees
  /\ \A n \in Node : known[n][n] <= MaxOps[n]

\* The invariant contains what the two safety properties state.
LEMMA SafeInvImplies == SafeInv => NothingInvented /\ CounterAgrees
  <1> SUFFICES ASSUME SafeInv, NEW n \in Node, NEW i \in DOMAIN inbox[n]
               PROVE  inbox[n][i] \in TruthfulDatagram
    BY DEF SafeInv, NothingInvented, Truthful, TruthfulDatagram
  <1>1. inbox[n] \in Seq(TruthfulDatagram)
    BY DEF SafeInv
  <1>2. QED
    BY <1>1, ElementOfSeq, LenProperties

\* A program that has just started knows nothing, truthfully.
LEMMA InitSafeInv == Init => SafeInv
  <1> SUFFICES ASSUME Init PROVE SafeInv
    OBVIOUS
  <1>1. inbox \in [Node -> Seq(TruthfulDatagram)]
    BY EmptySeq DEF Init
  <1>2. QED
    BY <1>1, InitTypeInv, TrickleAssumption
       DEF Init, SafeInv, Truthful, CounterAgrees, Empty, Idle, Thread

\* What is true of a counter stays true while no node's own entry shrinks.
LEMMA TruthStays ==
  ASSUME TypeOK, TypeOK', \A k \in Node : known[k][k] <= known'[k][k]
  PROVE  /\ \A g \in Counter : Truthful(g) => Truthful(g)'
         /\ inbox \in [Node -> Seq(TruthfulDatagram)]
              => inbox \in [Node -> Seq(TruthfulDatagram')]
  <1>1. ASSUME NEW g \in Counter, Truthful(g) PROVE Truthful(g)'
    <2> SUFFICES ASSUME NEW k \in Node PROVE g[k] <= known'[k][k]
      BY DEF Truthful
    <2>1. g[k] \in Nat /\ known[k][k] \in Nat /\ known'[k][k] \in Nat
      BY DEF TypeOK, Counter
    <2>2. QED
      BY <1>1, <2>1 DEF Truthful
  <1>2. TruthfulDatagram \subseteq TruthfulDatagram'
    BY <1>1 DEF TruthfulDatagram, Datagram
  <1>3. Seq(TruthfulDatagram) \subseteq Seq(TruthfulDatagram')
    BY <1>2, SeqMonotonic
  <1>4. QED
    BY <1>1, <1>3

\* What one step does to what the nodes know: one node performs an increment,
\* or one node takes over truthful entries above its own, or nothing.
Learns(n) ==
  \E entries \in Counter :
    /\ Truthful(entries)
    /\ known' = [known EXCEPT ![n] =
                   [k \in Node |-> IF entries[k] > known[n][k] THEN entries[k] ELSE known[n][k]]]

KnownStep ==
  \/ \E n \in Node : LocalOp(n) /\ known' = [known EXCEPT ![n][n] = @ + 1]
  \/ \E n \in Node : Learns(n)
  \/ UNCHANGED known

\* A local increment adds one to the node's own entry of both records.
LEMMA LocalOpKnown ==
  ASSUME SafeInv, NEW n \in Node, LocalOp(n)
  PROVE  /\ known' = [known EXCEPT ![n][n] = @ + 1]
         /\ gc' = [gc EXCEPT ![n][n] = @ + 1]
  <1>1. gc' = [gc EXCEPT ![n] = Incremented(gc[n], n, 1)]
    BY DEF LocalOp
  <1>2. gc[n] \in Counter /\ gc \in [Node -> Counter]
    BY DEF SafeInv, TypeInv, TypeOK
  <1>3. gc' = [gc EXCEPT ![n] = [gc[n] EXCEPT ![n] = gc[n][n] + 1]]
    BY <1>1 DEF Incremented
  <1>4. gc'[n][n] = gc[n][n] + 1
    BY <1>2, <1>3 DEF Counter
  <1>5. gc[n][n] = known[n][n]
    BY DEF SafeInv, CounterAgrees
  <1>6. QED
    BY <1>3, <1>4, <1>5 DEF LocalOp

\* A repair teaches the node entries that are true.
LEMMA ApplyRepairKnown ==
  ASSUME SafeInv, NEW n \in Node, NEW i \in DOMAIN inbox[n], ApplyRepair(n, i)
  PROVE  Learns(n)
  <1>1. inbox[n][i] \in TruthfulDatagram
    BY TakeKeeps DEF ApplyRepair, SafeInv
  <1> DEFINE e == inbox[n][i].entries
  <1>2. e \in Counter /\ Truthful(e)
    BY <1>1 DEF TruthfulDatagram, Datagram
  <1>3. known' = [known EXCEPT ![n] =
                    [k \in Node |-> IF e[k] > known[n][k] THEN e[k] ELSE known[n][k]]]
    BY DEF ApplyRepair, News
  <1> HIDE DEF e
  <1>4. QED
    BY <1>2, <1>3 DEF Learns

\* Every step is one of the three.
LEMMA NextKnown == SafeInv /\ [Next]_vars => KnownStep
  <1> SUFFICES ASSUME SafeInv, [Next]_vars PROVE KnownStep
    OBVIOUS
  <1>1. ASSUME NEW n \in Node, LocalOp(n) PROVE KnownStep
    BY <1>1, LocalOpKnown DEF KnownStep
  <1>2. ASSUME NEW n \in Node, NEW i \in DOMAIN inbox[n], ApplyRepair(n, i) PROVE KnownStep
    BY <1>2, ApplyRepairKnown DEF KnownStep
  <1>3. ASSUME NEW n \in Node,
               \/ ResetAfterOp(n) \/ Stop(n) \/ TimerStep(n) \/ Handle(n)
               \/ \E i \in DOMAIN inbox[n] : RecvSummary(n, i)
        PROVE  UNCHANGED known
    BY <1>3 DEF ResetAfterOp, Stop, TimerStep, Tick, SendPeriodic, Handle, NoteConsistent,
                ResetOnSummary, ResetAfterRepair, SendRepair, SendRequest, RecvSummary
  <1>4. QED
    BY <1>1, <1>2, <1>3 DEF Next, MainStep, RecvStep, KnownStep, vars

\* No step lowers an entry, and every entry stays truthful.
LEMMA KnownStepMonotone ==
  ASSUME SafeInv, TypeOK', KnownStep
  PROVE  /\ \A n \in Node : \A k \in Node : known[n][k] <= known'[n][k]
         /\ \A n \in Node : Truthful(known[n])'
         /\ \A n \in Node : known'[n][n] <= MaxOps[n]
  <1> USE DEF Counter
  <1>t. /\ known \in [Node -> Counter]
        /\ \A m \in Node : \A k \in Node :
             known[m][k] \in Nat /\ known[m][k] <= known[k][k]
        /\ \A m \in Node : known[m][m] <= MaxOps[m]
    BY DEF SafeInv, TypeInv, TypeOK, Truthful
  <1>1. CASE \E n \in Node : LocalOp(n) /\ known' = [known EXCEPT ![n][n] = @ + 1]
    <2>1. PICK n \in Node : LocalOp(n) /\ known' = [known EXCEPT ![n][n] = @ + 1]
      BY <1>1
    <2>2. \A m \in Node : \A k \in Node :
            known'[m][k] = IF m = n /\ k = n THEN known[m][k] + 1 ELSE known[m][k]
      BY <1>t, <2>1
    <2>3. known[n][n] < MaxOps[n] /\ MaxOps[n] \in Nat
      BY <2>1, TrickleAssumption DEF LocalOp
    <2>4. QED
      BY <1>t, <2>2, <2>3 DEF Truthful
  <1>2. CASE \E n \in Node : Learns(n)
    <2>1. PICK n \in Node : Learns(n)
      BY <1>2
    <2>2. PICK e \in Counter :
            /\ Truthful(e)
            /\ known' = [known EXCEPT ![n] =
                 [k \in Node |-> IF e[k] > known[n][k] THEN e[k] ELSE known[n][k]]]
      BY <2>1 DEF Learns
    <2>3. \A m \in Node : \A k \in Node :
            known'[m][k] = IF m = n /\ e[k] > known[m][k] THEN e[k] ELSE known[m][k]
      BY <1>t, <2>2
    <2>4. \A k \in Node : e[k] \in Nat /\ e[k] <= known[k][k]
      BY <2>2 DEF Truthful
    <2>5. \A k \in Node : known'[k][k] = known[k][k]
      BY <1>t, <2>3, <2>4
    <2>6. QED
      BY <1>t, <2>3, <2>4, <2>5 DEF Truthful
  <1>3. CASE UNCHANGED known
    BY <1>t, <1>3 DEF Truthful
  <1>4. QED
    BY <1>1, <1>2, <1>3 DEF KnownStep

\* In every action the repair to be sent, and the datagrams added, are copies
\* of a state of the node: truthful when taken, and truthful ever after.
LEMMA NextSafeInv == SafeInv /\ [Next]_vars => SafeInv'
  <1> SUFFICES ASSUME SafeInv, [Next]_vars PROVE SafeInv'
    OBVIOUS
  <1>t. TypeInv /\ TypeInv' /\ TypeOK /\ TypeOK'
    BY NextTypeInv DEF SafeInv, TypeInv
  <1>k. /\ \A n \in Node : \A k \in Node : known[n][k] <= known'[n][k]
        /\ \A n \in Node : Truthful(known[n])'
        /\ \A n \in Node : known'[n][n] <= MaxOps[n]
    BY <1>t, NextKnown, KnownStepMonotone
  <1>g. /\ \A g \in Counter : Truthful(g) => Truthful(g)'
        /\ inbox \in [Node -> Seq(TruthfulDatagram')]
    BY <1>t, <1>k, TruthStays DEF SafeInv
  <1>e. Truthful(Empty)'
    BY <1>t DEF Truthful, Empty, TypeOK, Counter
  <1>s. \A n \in Node : [from |-> n, kind |-> "summary", entries |-> known[n]] \in TruthfulDatagram'
    <2>1. \A n \in Node : known[n] \in Counter /\ Truthful(known[n])
      BY <1>t DEF TypeOK, SafeInv
    <2>2. ASSUME NEW n \in Node, NEW g \in Counter, Truthful(g)
          PROVE  [from |-> n, kind |-> "summary", entries |-> g] \in TruthfulDatagram'
      BY <1>g, <2>2 DEF TruthfulDatagram, Datagram, Kinds
    <2>3. QED
      BY <2>1, <2>2
  <1>r. \A n \in Node : [from |-> n, kind |-> "repair", entries |-> recv[n].repair] \in TruthfulDatagram'
    <2>1. \A n \in Node : recv[n].repair \in Counter /\ Truthful(recv[n].repair)
      BY <1>t DEF TypeOK, SafeInv
    <2>2. ASSUME NEW n \in Node, NEW g \in Counter, Truthful(g)
          PROVE  [from |-> n, kind |-> "repair", entries |-> g] \in TruthfulDatagram'
      BY <1>g, <2>2 DEF TruthfulDatagram, Datagram, Kinds
    <2>3. QED
      BY <2>1, <2>2
  <1>1. inbox' \in [Node -> Seq(TruthfulDatagram')]
    <2>1. ASSUME NEW n \in Node, NEW heard, SendPeriodic(n, heard) \/ SendRequest(n, heard)
          PROVE  inbox' \in [Node -> Seq(TruthfulDatagram')]
      BY <1>g, <1>s, <2>1, BroadcastAdds DEF SendPeriodic, SendRequest
    <2>2. ASSUME NEW n \in Node, NEW heard, SendRepair(n, heard)
          PROVE  inbox' \in [Node -> Seq(TruthfulDatagram')]
      BY <1>g, <1>r, <2>2, BroadcastAdds DEF SendRepair
    <2>3. ASSUME NEW n \in Node, NEW i \in DOMAIN inbox[n], RecvSummary(n, i) \/ ApplyRepair(n, i)
          PROVE  inbox' \in [Node -> Seq(TruthfulDatagram')]
      BY <1>g, <2>3, TakeKeeps DEF RecvSummary, ApplyRepair
    <2>4. ASSUME NEW n \in Node, Stop(n)
          PROVE  inbox' \in [Node -> Seq(TruthfulDatagram')]
      <3>1. <<>> \in Seq(TruthfulDatagram')
        BY EmptySeq
      <3>2. QED
        BY <1>g, <2>4, <3>1 DEF Stop
    <2>5. ASSUME NEW n \in Node,
                 \/ LocalOp(n) \/ ResetAfterOp(n) \/ Tick(n)
                 \/ NoteConsistent(n) \/ ResetOnSummary(n) \/ ResetAfterRepair(n)
          PROVE  UNCHANGED inbox
      BY <2>5 DEF LocalOp, ResetAfterOp, Tick, NoteConsistent, ResetOnSummary, ResetAfterRepair
    <2>6. CASE UNCHANGED vars
      BY <1>g, <2>6 DEF vars
    <2>7. QED
      BY <1>g, <2>1, <2>2, <2>3, <2>4, <2>5, <2>6
         DEF Next, MainStep, TimerStep, RecvStep, Handle
  <1>2. \A m \in Node : Truthful(recv[m].repair)'
    <2>k. \A m \in Node : recv[m].repair \in Counter /\ Truthful(recv[m].repair)
      BY <1>t DEF TypeOK, SafeInv
    <2>u. ASSUME UNCHANGED recv PROVE \A m \in Node : Truthful(recv[m].repair)'
      BY <1>g, <2>k, <2>u DEF Truthful
    <2>i. ASSUME NEW n \in Node, NEW place, recv' = [recv EXCEPT ![n] = Thread(place)]
          PROVE  \A m \in Node : Truthful(recv[m].repair)'
      BY <1>t, <1>e, <1>g, <2>k, <2>i DEF Truthful, Thread, TypeOK
    <2>1. ASSUME NEW n \in Node, NEW i \in DOMAIN inbox[n], RecvSummary(n, i)
          PROVE  \A m \in Node : Truthful(recv[m].repair)'
      <3> DEFINE repair == RepairEntries(known[n], inbox[n][i].entries)
      <3>1. /\ recv'[n].repair = repair
            /\ \A m \in Node \ {n} : recv'[m] = recv[m]
        BY <1>t, <2>1 DEF RecvSummary, TypeOK
      <3>2. \A k \in Node : known[n][k] <= known[k][k] /\ known[k][k] \in Nat
        BY <1>t DEF SafeInv, Truthful, TypeOK, Counter
      <3>3. inbox[n][i] \in Datagram
        BY <1>t, <2>1, TakeKeeps DEF RecvSummary, TypeOK
      <3> DEFINE remote == inbox[n][i].entries
      <3>a. \A k \in Node : known[n][k] \in Nat /\ remote[k] \in Nat
        BY <1>t, <3>3 DEF TypeOK, Counter, Datagram
      <3>b. \A k \in Node : repair[k] = IF known[n][k] > remote[k] THEN known[n][k] ELSE 0
        BY DEF RepairEntries
      <3>c. repair = [k \in Node |-> repair[k]]
        BY DEF RepairEntries
      <3> HIDE DEF repair, remote
      <3>d. \A k \in Node : repair[k] \in Nat /\ repair[k] <= known[k][k]
        BY <3>2, <3>a, <3>b
      <3>4. repair \in Counter /\ Truthful(repair)
        BY <3>c, <3>d DEF Truthful, Counter
      <3> HIDE DEF repair
      <3>5. QED
        BY <1>g, <2>k, <3>1, <3>4 DEF Truthful
    <2>2. ASSUME NEW n \in Node,
                 \/ NoteConsistent(n) \/ ResetOnSummary(n) \/ ResetAfterRepair(n)
                 \/ \E heard : SendRequest(n, heard) \/ SendRepair(n, heard)
                 \/ \E i \in DOMAIN inbox[n] : ApplyRepair(n, i)
          PROVE  \E place : recv' = [recv EXCEPT ![n] = Thread(place)]
      BY <2>2 DEF NoteConsistent, ResetOnSummary, ResetAfterRepair, SendRequest, SendRepair,
                  ApplyRepair, Idle
    <2>3. ASSUME NEW n \in Node, MainStep(n) \/ TimerStep(n) PROVE UNCHANGED recv
      BY <2>3 DEF MainStep, TimerStep, LocalOp, ResetAfterOp, Stop, Tick, SendPeriodic
    <2>4. CASE UNCHANGED vars
      BY <2>4, <2>u DEF vars
    <2>5. QED
      BY <2>u, <2>i, <2>1, <2>2, <2>3, <2>4 DEF Next, RecvStep, Handle
  <1>3. CounterAgrees'
    <2>1. ASSUME NEW n \in Node, LocalOp(n) PROVE CounterAgrees'
      <3>1. /\ known' = [known EXCEPT ![n][n] = @ + 1]
            /\ gc' = [gc EXCEPT ![n][n] = @ + 1]
        BY <2>1, LocalOpKnown
      <3>2. known \in [Node -> [Node -> Nat]] /\ gc \in [Node -> [Node -> Nat]]
        BY <1>t DEF TypeOK, Counter
      <3>3. \A m \in Node : \A k \in Node :
              known'[m][k] = IF m = n /\ k = n THEN known[m][k] + 1 ELSE known[m][k]
        BY <3>1, <3>2
      <3>4. \A m \in Node : \A k \in Node :
              gc'[m][k] = IF m = n /\ k = n THEN gc[m][k] + 1 ELSE gc[m][k]
        BY <3>1, <3>2
      <3>5. QED
        BY <3>3, <3>4 DEF SafeInv, CounterAgrees
    <2>2. ASSUME NEW n \in Node, NEW i \in DOMAIN inbox[n], ApplyRepair(n, i)
          PROVE  CounterAgrees'
      <3> DEFINE e == inbox[n][i].entries
                 news == News(n, e)
                 taken == [k \in Node |-> IF k \in news THEN e[k] ELSE 0]
      <3>1. inbox[n][i] \in Datagram
        BY <1>t, <2>2, TakeKeeps DEF ApplyRepair, TypeOK
      <3>2. e \in Counter /\ taken \in Counter /\ gc[n] \in Counter /\ known[n] \in Counter
        BY <1>t, <3>1 DEF Datagram, Counter, TypeOK
      <3>3. /\ known' = [known EXCEPT ![n] = [k \in Node |-> IF k \in news THEN e[k] ELSE known[n][k]]]
            /\ gc' = [gc EXCEPT ![n] = Join(gc[n], taken)]
        BY <2>2 DEF ApplyRepair
      <3>4. \A k \in Node : gc[n][k] = known[n][k]
        BY DEF SafeInv, CounterAgrees
      <3>5. \A k \in Node : k \in news <=> e[k] > known[n][k]
        BY DEF News
      <3>6. \A k \in Node : taken[k] = IF k \in news THEN e[k] ELSE 0
        OBVIOUS
      <3>7. \A k \in Node : Join(gc[n], taken)[k] = IF gc[n][k] >= taken[k] THEN gc[n][k] ELSE taken[k]
        BY <3>2, JoinIsMaximum
      <3> HIDE DEF e, news, taken
      <3>8. \A k \in Node : Join(gc[n], taken)[k] = IF k \in news THEN e[k] ELSE known[n][k]
        BY <3>2, <3>4, <3>5, <3>6, <3>7 DEF Counter
      <3>9. /\ \A k \in Node : gc'[n][k] = known'[n][k]
            /\ \A m \in Node \ {n} : gc'[m] = gc[m] /\ known'[m] = known[m]
        BY <1>t, <3>3, <3>8 DEF TypeOK
      <3>10. QED
        BY <3>9 DEF SafeInv, CounterAgrees
    <2>3. ASSUME NEW n \in Node,
                 \/ ResetAfterOp(n) \/ Stop(n) \/ TimerStep(n) \/ Handle(n)
                 \/ \E i \in DOMAIN inbox[n] : RecvSummary(n, i)
          PROVE  UNCHANGED nodeVars
      BY <2>3 DEF ResetAfterOp, Stop, TimerStep, Tick, SendPeriodic, Handle, NoteConsistent,
                  ResetOnSummary, ResetAfterRepair, SendRepair, SendRequest, RecvSummary, nodeVars
    <2>4. ASSUME UNCHANGED nodeVars PROVE CounterAgrees'
      BY <2>4 DEF SafeInv, CounterAgrees, nodeVars
    <2>5. QED
      BY <2>1, <2>2, <2>3, <2>4 DEF Next, MainStep, RecvStep, vars, nodeVars
  <1>4. QED
    BY <1>t, <1>k, <1>1, <1>2, <1>3 DEF SafeInv

\* The invariant holds in every reachable state.
LEMMA SafeInvariant == Spec => []SafeInv
  BY InitSafeInv, NextSafeInv, PTL DEF Spec

\* No replica, datagram or repair of recv_loop counts an increment its origin
\* has not performed, in any topology and under loss, delay and disorder.
THEOREM InventsNothing == Spec => []NothingInvented
  BY SafeInvariant, SafeInvImplies, PTL

\* _known_state and gc agree whenever _gc_mutex is free.
THEOREM CountersAgree == Spec => []CounterAgrees
  BY SafeInvariant, SafeInvImplies, PTL

\* No repair, however late, makes a node forget an increment.
THEOREM ForgetsNothing == Spec => NeverForgets
  <1>1. SafeInv /\ SafeInv' /\ [Next]_vars
          => [\A n \in Node : \A k \in Node : known'[n][k] >= known[n][k]]_vars
    <2> SUFFICES ASSUME SafeInv, SafeInv', [Next]_vars,
                        NEW n \in Node, NEW k \in Node
                 PROVE  known'[n][k] >= known[n][k]
      OBVIOUS
    <2>1. known[n][k] <= known'[n][k]
      BY NextKnown, KnownStepMonotone DEF SafeInv, TypeInv
    <2>2. known[n][k] \in Nat /\ known'[n][k] \in Nat
      BY DEF SafeInv, TypeInv, TypeOK, Counter
    <2>3. QED
      BY <2>1, <2>2
  <1>2. QED
    BY <1>1, SafeInvariant, PTL DEF Spec, NeverForgets

-----------------------------------------------------------------------------
(* Refinement.                                                             *)

\* Taking over truthful entries is a Learn step of the abstract counter.
LEMMA LearnsIsLearn ==
  ASSUME SafeInv, NEW n \in Node, Learns(n)
  PROVE  Abstract!Learn(n)
  <1>1. PICK e \in Counter :
          /\ Truthful(e)
          /\ known' = [known EXCEPT ![n] =
               [k \in Node |-> IF e[k] > known[n][k] THEN e[k] ELSE known[n][k]]]
    BY DEF Learns
  <1> DEFINE g == [k \in Node |-> IF e[k] > known[n][k] THEN e[k] ELSE known[n][k]]
  <1>2. \A k \in Node : /\ e[k] \in Nat /\ known[n][k] \in Nat /\ known[k][k] \in Nat
                        /\ e[k] <= known[k][k] /\ known[n][k] <= known[k][k]
                        /\ known[k][k] <= MaxOps[k] /\ MaxOps[k] \in Nat
    <2>1. /\ known \in [Node -> [Node -> Nat]] /\ MaxOps \in [Node -> Nat]
          /\ e \in [Node -> Nat]
      BY TrickleAssumption DEF SafeInv, TypeInv, TypeOK, Counter
    <2>2. \A k \in Node : /\ e[k] <= known[k][k] /\ known[n][k] <= known[k][k]
                          /\ known[k][k] <= MaxOps[k]
      BY <1>1 DEF Truthful, SafeInv
    <2>3. QED
      BY <2>1, <2>2
  <1>3. \A k \in Node : g[k] = IF e[k] > known[n][k] THEN e[k] ELSE known[n][k]
    OBVIOUS
  <1>4. g = [k \in Node |-> g[k]]
    OBVIOUS
  <1> HIDE DEF g
  <1>5. \A k \in Node : known[n][k] <= g[k] /\ g[k] <= known[k][k] /\ g[k] \in 0 .. MaxOps[k]
    BY <1>2, <1>3
  <1>6. g \in [Node -> UNION {0 .. MaxOps[k] : k \in Node}]
    BY <1>4, <1>5
  <1>7. known' = [known EXCEPT ![n] = g]
    BY <1>1 DEF g
  <1>8. QED
    BY <1>5, <1>6, <1>7 DEF Abstract!Learn

\* What the nodes know, taken alone, behaves as the replicated grow-only
\* counter that ReplicatedCounter specifies.
THEOREM Refinement == Spec => ImplementsCounter
  <1>1. Init => Abstract!Init
    BY DEF Init, Abstract!Init, Empty
  <1>2. SafeInv /\ [Next]_vars => [Abstract!Next]_known
    <2> SUFFICES ASSUME SafeInv, KnownStep PROVE [Abstract!Next]_known
      BY NextKnown
    <2>1. ASSUME NEW n \in Node, LocalOp(n), known' = [known EXCEPT ![n][n] = @ + 1]
          PROVE  Abstract!Increment(n)
      BY <2>1 DEF LocalOp, Abstract!Increment
    <2>2. QED
      BY <2>1, LearnsIsLearn DEF KnownStep, Abstract!Next
  <1>3. QED
    BY <1>1, <1>2, SafeInvariant, PTL DEF Spec, ImplementsCounter, Abstract!Spec
=============================================================================
