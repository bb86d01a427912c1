----------------------------- MODULE Membership -----------------------------
(***************************************************************************)
(* The neighbour list of one node: class Local of                          *)
(* classes/membership/membership_sockets.py (App = FALSE) and the          *)
(* stand-alone class Neighbourhood of apps/membership/membership.py        *)
(* (App = TRUE).  Two threads share the Python list visible without a      *)
(* lock: the listener, which handles one hello after the other             *)
(* (_packet_handler), and the job _sendHello, which ends by sweeping the   *)
(* list (_update_visible).  Every evaluation of visible[...] is a step, so *)
(* a row may be deleted between the comparison and the refresh of it.      *)
(*                                                                         *)
(* Time is the age of things in simulation seconds, counted up to one more *)
(* than the timeout: no test of the code tells greater ages apart.         *)
(***************************************************************************)
EXTENDS Integers, Sequences, SequencesExt

CONSTANTS
  Neighbour,  \* the other nodes
  Self,       \* this node: it hears its own broadcasts
  Timeout,    \* visible_timeout
  App         \* TRUE: Neighbourhood, FALSE: Local

ASSUME MembershipAssumption ==
  /\ Self \notin Neighbour
  /\ Timeout \in Nat
  /\ App \in BOOLEAN

VARIABLES
  visible,    \* visible: rows [ip, heard], heard being the age of the timestamp
  clock,      \* simulation_seconds
  near,       \* the nodes whose hellos can arrive: in range, or already in the socket
  place,      \* the listener's place in its code
  src,        \* and the sender of the hello it handles,
  element,    \* the index and
  length,     \* the end of its scan
  sweep,      \* the sweep's place,
  member,     \* index and
  bound,      \* end
  lock,       \* Node.lock (running, in Neighbourhood)
  jobs        \* the scheduler runs

listener == <<place, src, element, length>>
sweeper == <<sweep, member, bound>>
vars == <<visible, clock, near, place, src, element, length, sweep, member,
          bound, lock, jobs>>

Age == 0 .. Timeout + 1
Older(age) == IF age > Timeout THEN age ELSE age + 1

Row == [ip : Neighbour, heard : Age]
Ips == {visible[i].ip : i \in DOMAIN visible}

Places == {"recv", "scan", "refresh", "load", "append", "closed", "dead"}

TypeOK ==
  /\ visible \in Seq(Row)
  /\ clock \in Age
  /\ near \subseteq Neighbour
  /\ place \in Places
  /\ src \in Neighbour \cup {Self}
  /\ element \in Nat /\ length \in Nat
  /\ sweep \in {"idle", "scan", "delete"}
  /\ member \in Nat /\ bound \in Nat
  /\ lock \in BOOLEAN /\ jobs \in BOOLEAN

Init ==
  /\ visible = <<>> /\ clock = 0 /\ near = {}
  /\ place = "recv" /\ src = Self /\ element = 0 /\ length = 0
  /\ sweep = "idle" /\ member = 0 /\ bound = 0
  /\ lock = TRUE /\ jobs = TRUE

-----------------------------------------------------------------------------
(* The listener.                                                           *)

\* while self.Node.lock: the loop's test after a hello is handled.
Looped == IF lock THEN "recv" ELSE "closed"

\* IndexError: nothing in Local catches it and the thread ends, UdpInterface.run
\* catches it and goes on with the next datagram.
Raised == IF App THEN Looped ELSE "dead"

\* A hello of this node itself, or the "bye" that
\* ends Neighbourhood's listener: nothing but the loop's test.
HearOwn ==
  /\ place = "recv"
  /\ place' = Looped
  /\ UNCHANGED <<visible, clock, near, src, element, length, sweeper, lock, jobs>>

\* A neighbour's hello (node != self.Node.fulltag): for element in range(len(self.visible)).
Hear(q) ==
  /\ place = "recv" /\ q \in near \cup {Self}
  /\ q # Self
  /\ src' = q /\ element' = 1 /\ length' = Len(visible)
  /\ place' = IF visible = <<>> THEN "append" ELSE "scan"
  /\ UNCHANGED <<visible, clock, near, sweeper, lock, jobs>>

\* Slip: the last row is not compared, for element in range(len(...) - 1).
CompareAllButLast ==
  /\ place = "scan"
  /\ IF element >= length THEN place' = "append" /\ UNCHANGED element
     ELSE IF element > Len(visible) THEN place' = Raised /\ UNCHANGED element
     ELSE IF visible[element].ip = src THEN place' = "refresh" /\ UNCHANGED element
     ELSE place' = "scan" /\ element' = element + 1
  /\ UNCHANGED <<visible, clock, near, src, length, sweeper, lock, jobs>>

\* Slip: a node is new only to an empty list.
CompareNeverNew ==
  /\ place = "scan"
  /\ IF element > Len(visible) THEN place' = Raised /\ UNCHANGED element
     ELSE IF visible[element].ip = src THEN place' = "refresh" /\ UNCHANGED element
     ELSE /\ place' = IF element = length THEN Looped ELSE "scan"
          /\ element' = element + 1
  /\ UNCHANGED <<visible, clock, near, src, length, sweeper, lock, jobs>>

\* sender_ip == self.visible[element][0]
Compare ==
  /\ place = "scan"
  /\ IF element > Len(visible) THEN place' = Raised /\ UNCHANGED element
     ELSE IF visible[element].ip = src THEN place' = "refresh" /\ UNCHANGED element
     ELSE /\ place' = IF element = length THEN "append" ELSE "scan"
          /\ element' = element + 1
  /\ UNCHANGED <<visible, clock, near, src, length, sweeper, lock, jobs>>

\* self.visible[element][3] = self.Node.simulation_seconds, in Neighbourhood
\* self.visible[element][2].
Refresh ==
  /\ place = "refresh"
  /\ IF element > Len(visible) THEN place' = Raised /\ UNCHANGED visible
     ELSE /\ visible' = [visible EXCEPT ![element].heard = 0]
          /\ place' = IF App THEN Looped ELSE "load"
  /\ UNCHANGED <<clock, near, src, element, length, sweeper, lock, jobs>>

\* self.visible[element][2] = processor: the index is evaluated again.
Load ==
  /\ place = "load"
  /\ place' = IF element > Len(visible) THEN Raised ELSE Looped
  /\ UNCHANGED <<visible, clock, near, src, element, length, sweeper, lock, jobs>>

\* self.visible.append([...])
AppendRow ==
  /\ place = "append"
  /\ visible' = Append(visible, [ip |-> src, heard |-> 0])
  /\ place' = Looped
  /\ UNCHANGED <<clock, near, src, element, length, sweeper, lock, jobs>>

-----------------------------------------------------------------------------
(* The job _sendHello.                                                     *)

\* The broadcast, then for member in range(len(self.visible)).
StartSweep ==
  /\ sweep = "idle" /\ jobs
  /\ visible # <<>>
  /\ sweep' = "scan" /\ member' = 1 /\ bound' = Len(visible)
  /\ UNCHANGED <<visible, clock, near, listener, lock, jobs>>

\* simulation_seconds - self.visible[member][3] > self.visible_timeout.  Element
\* 3 is the timestamp in Local; in Neighbourhood it stays 0.
Expired(row) == (IF App THEN clock ELSE row.heard) > Timeout

\* Slip: the loop is left after its first turn.
CheckFirst ==
  /\ sweep = "scan"
  /\ sweep' = IF Expired(visible[member]) THEN "delete" ELSE "idle"
  /\ UNCHANGED <<visible, clock, near, listener, member, bound, lock, jobs>>

Check ==
  /\ sweep = "scan"
  /\ IF Expired(visible[member]) THEN sweep' = "delete" /\ UNCHANGED member
     ELSE /\ sweep' = IF member = bound THEN "idle" ELSE "scan"
          /\ member' = IF member = bound THEN member ELSE member + 1
  /\ UNCHANGED <<visible, clock, near, listener, bound, lock, jobs>>

\* del self.visible[member]; break
Delete ==
  /\ sweep = "delete"
  /\ visible' = RemoveAt(visible, member)
  /\ sweep' = "idle"
  /\ UNCHANGED <<clock, near, listener, member, bound, lock, jobs>>

-----------------------------------------------------------------------------
(* The rest of the node and the world.                                     *)

\* task2 of main.py counts while the lock is held, increment_time of
\* Neighbourhood while its scheduler runs.
Tick ==
  /\ IF App THEN jobs ELSE lock
  /\ clock' = Older(clock)
  /\ visible' = [i \in DOMAIN visible |->
       [visible[i] EXCEPT !.heard = Older(@)]]
  /\ UNCHANGED <<near, listener, sweeper, lock, jobs>>

\* The time limit of the run.
EndRun ==
  /\ lock /\ lock' = FALSE
  /\ UNCHANGED <<visible, clock, near, listener, sweeper, jobs>>

\* shutdown: the scheduler waits for the job that runs.
Shutdown ==
  /\ ~lock /\ jobs /\ sweep = "idle"
  /\ jobs' = FALSE
  /\ UNCHANGED <<visible, clock, near, listener, sweeper, lock>>

\* Nodes move, start and crash.
Move(set) ==
  /\ near' = set
  /\ UNCHANGED <<visible, clock, listener, sweeper, lock, jobs>>

-----------------------------------------------------------------------------
Handle == Compare \/ Refresh \/ Load \/ AppendRow
Sweep == StartSweep \/ Check \/ Delete

Next ==
  \/ HearOwn \/ \E q \in Neighbour \cup {Self} : Hear(q)
  \/ Handle \/ Sweep
  \/ Tick \/ EndRun \/ Shutdown
  \/ \E set \in SUBSET Neighbour : Move(set)

Spec == Init /\ [][Next]_vars

\* The threads run and time passes; a neighbour that stays in range is not
\* silenced by loss for ever.
Fairness ==
  /\ WF_vars(Handle) /\ WF_vars(Tick)
  /\ WF_vars(StartSweep) /\ WF_vars(Check) /\ WF_vars(Delete)
  /\ \A q \in Neighbour : SF_vars(Hear(q))

FairSpec == Spec /\ Fairness

-----------------------------------------------------------------------------
(* Properties.                                                             *)

\* A neighbour has one row at most, although rows move under the scan that
\* decides whether its hello is the first: a scan that lost rows to the sweep
\* ends in an IndexError, never in an append.
OneRow ==
  \A i, j \in DOMAIN visible : visible[i].ip = visible[j].ip => i = j

\* The sweep itself never indexes beyond the list: it alone deletes, and it
\* stops at its first deletion.
SweepInBounds == sweep # "idle" => member \in DOMAIN visible

\* A hello that reaches a row keeps it for a while ("refresh timestamp"): a row is
\* given up only if the last hello credited to it is older than the timeout when
\* the sweep looks at it.  For Neighbourhood, whose hellos write one element and
\* whose sweep reads another; in Local both are the same element.
KeptWhileHeard ==
  [][sweep = "scan" /\ sweep' = "delete" => visible[member].heard > Timeout]_vars

\* "It runs in infinite loop as long as the node is up" (_listener).
ListenerRuns == lock => place \notin {"closed", "dead"}

\* While the node is up, a neighbour that is not heard any more leaves the list
\* in the end, wherever in it the refreshes of others and the deletions put it.
Dropped ==
  \A q \in Neighbour : <>[](lock /\ q \notin near) => <>[](q \notin Ips)

\* A neighbour that stays in range enters the list again and again, unless the
\* listener has died of an IndexError.
Found ==
  \A q \in Neighbour :
    <>[](lock /\ q \in near) => []<>(q \in Ips \/ place = "dead")
=============================================================================
