------------------------------- MODULE Trickle -------------------------------
(***************************************************************************)
(* apps/crdt/trickle/crdt_trickle.cpp: replicas of one grow-only counter   *)
(* that advertise summaries of what they know under a Trickle timer and    *)
(* repair one another when a summary reveals a difference.                 *)
(*                                                                         *)
(* Every node runs three threads that matter: main (run_random_mode, the   *)
(* local increments), trickle_timer_loop and recv_loop.  They share gc and *)
(* _known_state under _gc_mutex and the controller under its own mu_, so   *)
(* the steps below are cut where a thread holds neither lock; a thread's   *)
(* place between two of its locked sections is its entry in op, timer or   *)
(* recv.  Datagrams are UDP broadcasts: each copy is lost on the air or    *)
(* arrives in the receiver's socket buffer; with Disorder they are also    *)
(* overtaken and duplicated on the way.                                    *)
(*                                                                         *)
(* Operators introduced as a slip are wrong on purpose: the properties are *)
(* shown to notice each of them.                                           *)
(***************************************************************************)
EXTENDS GCounter, TrickleController, SequencesExt

CONSTANTS
  Hears,      \* Hears[n]: the nodes within radio range of n's broadcasts
  MaxOps,     \* bound: MaxOps[n] increments are performed by node n
  Buffer,     \* bound: datagrams of each kind from one sender that fit into a
              \* node's socket buffer; the next one is dropped
  Disorder,   \* may datagrams be overtaken and duplicated?
  Stoppers    \* the nodes whose duration and cooldown may elapse

Kinds == {"summary", "repair"}

ASSUME TrickleAssumption ==
  /\ Hears \in [Node -> SUBSET Node]
  /\ \A n \in Node : n \notin Hears[n]   \* recv_loop drops a node's own packets
  /\ MaxOps \in [Node -> Nat]
  /\ Buffer \in [Kinds -> Nat \ {0}]
  /\ Disorder \in BOOLEAN
  /\ Stoppers \subseteq Node

VARIABLES
  known,      \* _known_state of each node
  gc,         \* the node's gcounter
  ctl,        \* its TrickleController
  op,         \* main thread: "idle", or "reset" between increment and reset
  timer,      \* timer thread: "idle", or "send" once tick() said transmit
  recv,       \* receive thread: where it is, and the repair it is about to send
  inbox,      \* datagrams waiting in the node's socket
  running     \* g_running, and the socket still open

nodeVars == <<known, gc>>
vars == <<known, gc, ctl, op, timer, recv, inbox, running>>

\* A summary carries the whole vector.  A repair carries some of its entries;
\* an entry it does not carry is 0, which is news to nobody.
Datagram == [from : Node, kind : Kinds, entries : Counter]

Thread(place) == [at |-> place, repair |-> Empty]
Idle == Thread("recvfrom")

RecvPlaces ==
  {"recvfrom", "equal", "repair", "repair_then_reset", "reset_then_request",
   "request", "reset"}

TypeOK ==
  /\ known \in [Node -> Counter]
  /\ gc \in [Node -> Counter]
  /\ ctl \in [Node -> Controller]
  /\ op \in [Node -> {"idle", "reset"}]
  /\ timer \in [Node -> {"idle", "send"}]
  /\ recv \in [Node -> [at : RecvPlaces, repair : Counter]]
  /\ inbox \in [Node -> Seq(Datagram)]
  /\ running \in [Node -> BOOLEAN]

Init ==
  /\ known = [n \in Node |-> Empty]
  /\ gc = [n \in Node |-> Empty]
  /\ ctl \in [Node -> Initial]
  /\ op = [n \in Node |-> "idle"]
  /\ timer = [n \in Node |-> "idle"]
  /\ recv = [n \in Node |-> Idle]
  /\ inbox = [n \in Node |-> <<>>]
  /\ running = [n \in Node |-> TRUE]

-----------------------------------------------------------------------------
(* Comparing and repairing.                                                *)

Newer(a, b) == \E k \in Node : a[k] > b[k]

\* Slip: a summary that is ahead of the local state counts as consistent.
AfterCompareOneSided(local, remote) ==
  IF ~Newer(local, remote) THEN "equal"
  ELSE IF Newer(remote, local) THEN "repair_then_reset" ELSE "repair"

\* compare_summaries, and where recv_loop goes with each of its results.
AfterCompare(local, remote) ==
  CASE ~Newer(local, remote) /\ ~Newer(remote, local) -> "equal"
    [] Newer(local, remote) /\ ~Newer(remote, local)  -> "repair"
    [] ~Newer(local, remote) /\ Newer(remote, local)  -> "reset_then_request"
    [] Newer(local, remote) /\ Newer(remote, local)   -> "repair_then_reset"

\* build_repair_entries: the entries the sender of the summary is behind in.
RepairEntries(local, remote) ==
  [k \in Node |-> IF local[k] > remote[k] THEN local[k] ELSE 0]

\* Slip: whatever a repair carries is taken over, newer or not.
NewsUnchecked(n, entries) == {k \in Node : entries[k] > 0}

\* The entries of a repair that tell node n something.
News(n, entries) == {k \in Node : entries[k] > known[n][k]}

-----------------------------------------------------------------------------
(* The network.                                                            *)

HasRoom(m, kind, n) ==
  Cardinality({i \in DOMAIN inbox[n] : inbox[n][i].from = m /\ inbox[n][i].kind = kind})
    < Buffer[kind]

\* The nodes a broadcast of n can reach: in range, their socket open and not
\* full.  sendto fails on the closed socket of a stopped node.
InReach(n, kind) ==
  {m \in Hears[n] : running[n] /\ running[m] /\ HasRoom(n, kind, m)}

\* sendto the broadcast address; the nodes of heard receive it, for the others
\* it is lost.
Broadcast(n, kind, entries, heard) ==
  inbox' = [m \in Node |->
              IF m \in heard
              THEN Append(inbox[m], [from |-> n, kind |-> kind, entries |-> entries])
              ELSE inbox[m]]

\* recvfrom takes the i-th waiting datagram; a duplicate may follow it.
Take(n, i) ==
  /\ i = 1 \/ Disorder
  /\ \/ inbox' = [inbox EXCEPT ![n] = RemoveAt(@, i)]
     \/ Disorder /\ UNCHANGED inbox

-----------------------------------------------------------------------------
(* main: run_random_mode, and the shutdown that follows the cooldown.      *)

\* Under _gc_mutex: gc.inc(1), and the node's own entry follows gc.local().
LocalOp(n) ==
  /\ running[n] /\ op[n] = "idle"
  /\ known[n][n] < MaxOps[n]
  /\ gc' = [gc EXCEPT ![n] = Incremented(@, n, 1)]
  /\ known' = [known EXCEPT ![n][n] = gc'[n][n]]
  /\ op' = [op EXCEPT ![n] = "reset"]
  /\ UNCHANGED <<ctl, timer, recv, inbox, running>>

\* note_new_information, after the event log entries.
ResetAfterOp(n) ==
  /\ op[n] = "reset"
  /\ \E c \in Reset : ctl' = [ctl EXCEPT ![n] = c]
  /\ op' = [op EXCEPT ![n] = "idle"]
  /\ UNCHANGED <<known, gc, timer, recv, inbox, running>>

\* g_running.store(false); shutdown; close: what waits in the socket is gone.
Stop(n) ==
  /\ n \in Stoppers /\ running[n] /\ op[n] = "idle"
  /\ running' = [running EXCEPT ![n] = FALSE]
  /\ inbox' = [inbox EXCEPT ![n] = <<>>]
  /\ UNCHANGED <<known, gc, ctl, op, timer, recv>>

-----------------------------------------------------------------------------
(* trickle_timer_loop.                                                     *)

Tick(n) ==
  /\ running[n] /\ timer[n] = "idle"
  /\ \E c \in Ticked(ctl[n]) : ctl' = [ctl EXCEPT ![n] = c]
  /\ timer' = [timer EXCEPT ![n] = IF Action(ctl[n]) = "transmit" THEN "send" ELSE "idle"]
  /\ UNCHANGED <<known, gc, op, recv, inbox, running>>

\* send_summary("periodic"): the snapshot is taken now, not when tick decided.
SendPeriodic(n, heard) ==
  /\ timer[n] = "send"
  /\ heard \subseteq InReach(n, "summary")
  /\ Broadcast(n, "summary", known[n], heard)
  /\ timer' = [timer EXCEPT ![n] = "idle"]
  /\ UNCHANGED <<known, gc, ctl, op, recv, running>>

-----------------------------------------------------------------------------
(* recv_loop.                                                              *)

\* MT_SUMMARY: snapshot_known_state, compare and, from the same copy, the
\* repair; the lock is released again before anything is done about it.
RecvSummary(n, i) ==
  /\ running[n] /\ recv[n].at = "recvfrom"
  /\ i \in DOMAIN inbox[n] /\ inbox[n][i].kind = "summary"
  /\ Take(n, i)
  /\ LET remote == inbox[n][i].entries IN
       recv' = [recv EXCEPT ![n] = [at     |-> AfterCompare(known[n], remote),
                                    repair |-> RepairEntries(known[n], remote)]]
  /\ UNCHANGED <<known, gc, ctl, op, timer, running>>

\* REL_EQUAL: note_consistent_summary.
NoteConsistent(n) ==
  /\ recv[n].at = "equal"
  /\ ctl' = [ctl EXCEPT ![n] = NotedConsistent(@)]
  /\ recv' = [recv EXCEPT ![n] = Idle]
  /\ UNCHANGED <<known, gc, op, timer, inbox, running>>

\* REL_LOCAL_NEWER, and the first half of REL_CONCURRENT: send_repair.
SendRepair(n, heard) ==
  /\ recv[n].at \in {"repair", "repair_then_reset"}
  /\ heard \subseteq InReach(n, "repair")
  /\ Broadcast(n, "repair", recv[n].repair, heard)
  /\ recv' = [recv EXCEPT ![n] = IF @.at = "repair" THEN Idle
                                 ELSE Thread("reset_then_request")]
  /\ UNCHANGED <<known, gc, ctl, op, timer, running>>

\* REL_REMOTE_NEWER and REL_CONCURRENT: note_new_information ...
ResetOnSummary(n) ==
  /\ recv[n].at = "reset_then_request"
  /\ \E c \in Reset : ctl' = [ctl EXCEPT ![n] = c]
  /\ recv' = [recv EXCEPT ![n] = Thread("request")]
  /\ UNCHANGED <<known, gc, op, timer, inbox, running>>

\* ... and send_summary("implicit_request"), with a fresh snapshot.
SendRequest(n, heard) ==
  /\ recv[n].at = "request"
  /\ heard \subseteq InReach(n, "summary")
  /\ Broadcast(n, "summary", known[n], heard)
  /\ recv' = [recv EXCEPT ![n] = Idle]
  /\ UNCHANGED <<known, gc, ctl, op, timer, running>>

\* MT_REPAIR: under _gc_mutex the entries above the local ones are taken over
\* in _known_state and, as a gcounter of just those entries, joined into gc.
ApplyRepair(n, i) ==
  /\ running[n] /\ recv[n].at = "recvfrom"
  /\ i \in DOMAIN inbox[n] /\ inbox[n][i].kind = "repair"
  /\ Take(n, i)
  /\ LET entries == inbox[n][i].entries
         news    == News(n, entries)
     IN
       /\ known' = [known EXCEPT ![n] = [k \in Node |-> IF k \in news THEN entries[k] ELSE @[k]]]
       /\ gc' = [gc EXCEPT ![n] = Join(@, [k \in Node |-> IF k \in news THEN entries[k] ELSE 0])]
       /\ recv' = [recv EXCEPT ![n] = IF news = {} THEN Idle ELSE Thread("reset")]
  /\ UNCHANGED <<ctl, op, timer, running>>

\* note_new_information, after the lock was released and op_apply logged.
ResetAfterRepair(n) ==
  /\ recv[n].at = "reset"
  /\ \E c \in Reset : ctl' = [ctl EXCEPT ![n] = c]
  /\ recv' = [recv EXCEPT ![n] = Idle]
  /\ UNCHANGED <<known, gc, op, timer, inbox, running>>

-----------------------------------------------------------------------------
MainStep(n)  == LocalOp(n) \/ ResetAfterOp(n) \/ Stop(n)
TimerStep(n) == Tick(n) \/ \E heard \in SUBSET Node : SendPeriodic(n, heard)
Handle(n) ==
  \/ NoteConsistent(n) \/ ResetOnSummary(n) \/ ResetAfterRepair(n)
  \/ \E heard \in SUBSET Node : SendRepair(n, heard) \/ SendRequest(n, heard)
RecvStep(n) ==
  \/ \E i \in DOMAIN inbox[n] : RecvSummary(n, i) \/ ApplyRepair(n, i)
  \/ Handle(n)

Next == \E n \in Node : MainStep(n) \/ TimerStep(n) \/ RecvStep(n)

Spec == Init /\ [][Next]_vars

(***************************************************************************)
(* Fairness.  The scheduler runs every thread, so what a thread is ready   *)
(* to do it eventually does; how often main increments is nobody's         *)
(* promise.  A link loses datagrams, but not all of a kind: if m keeps     *)
(* sending n datagrams of a kind, n keeps hearing some.                    *)
(***************************************************************************)
Heard(m, n, kind) ==
  \E heard \in SUBSET Node :
    /\ n \in heard
    /\ IF kind = "summary" THEN SendPeriodic(m, heard) \/ SendRequest(m, heard)
       ELSE SendRepair(m, heard)

Fairness ==
  \A n \in Node :
    /\ WF_vars(ResetAfterOp(n)) /\ WF_vars(TimerStep(n)) /\ WF_vars(RecvStep(n))
    /\ \A m \in Node : m \in Hears[n] =>
         SF_vars(Heard(n, m, "summary")) /\ SF_vars(Heard(n, m, "repair"))

FairSpec == Spec /\ Fairness

-----------------------------------------------------------------------------
(* Properties.                                                             *)

\* No replica, no datagram in flight and no repair being prepared counts an
\* increment of a node that the node has not performed: snapshots are sent
\* late, repairs are built from copies and datagrams overtake each other, but
\* what they carry is never more than the origin's own entry.
NothingInvented ==
  \A k \in Node :
    /\ \A n \in Node : known[n][k] <= known[k][k]
    /\ \A n \in Node : \A i \in DOMAIN inbox[n] : inbox[n][i].entries[k] <= known[k][k]
    /\ \A n \in Node : recv[n].repair[k] <= known[k][k]

\* The two records a node keeps, _known_state (what it advertises) and gc
\* (what it counts), never disagree outside _gc_mutex.
CounterAgrees ==
  \A n \in Node : \A k \in Node : gc[n][k] = known[n][k]

\* A node never forgets: a late or duplicated repair, built from an older
\* state of its sender, lowers no entry.
NeverForgets ==
  [][\A n \in Node : \A k \in Node : known'[n][k] >= known[n][k]]_vars

\* Every interval takes exactly one decision, in its second half: an interval
\* past its tx tick has taken it and one that is not past it has not, whatever
\* resets hit it from the other threads.
OneDecision ==
  \A n \in Node :
    /\ ctl[n].elapsed < ctl[n].interval
    /\ ctl[n].tx \in TxTicks(ctl[n].interval)
    /\ ctl[n].sent <=> ctl[n].elapsed > ctl[n].tx

\* Once the increments stop, all replicas that hear one another become and
\* stay equal, in spite of loss, reordering and suppression.
Convergence == <>[](\A n, m \in Node : known[n] = known[m])

\* The system is a replicated grow-only counter: every step increments one
\* node's own entry or lets one node learn of increments that happened.
Abstract == INSTANCE ReplicatedCounter WITH view <- known
ImplementsCounter == Abstract!Spec
=============================================================================
