----------------------------- MODULE Convergence -----------------------------
(* evaluation/parse_convergence.py over the logs that two or more nodes of    *)
(* the broadcast application leave: their event logs, in which an increment   *)
(* is logged after the counter's mutex was left, and the lines of the         *)
(* monitors.  All the nodes are on one host and have its clock, which is the  *)
(* number of lines logged so far.                                             *)
EXTENDS Integers, Sequences, FiniteSets, FiniteSetsExt, SequencesExt

CONSTANTS
  Node,
  MaxCount,   \* bound: increments of a node
  MaxLines    \* bound: lines of a node's event log

VARIABLES
  seen,       \* gc: seen[n][m] is what n knows of m
  creating,   \* the total read with an increment that is not logged yet
  applying,   \* the total read with a join that is not logged yet
  sent,       \* the own count a node's sender has taken from delta_buffer
  buffered,   \* the own count in delta_buffer or sent
  events,     \* node_<n>.log.events
  monitor,    \* the last line of node_<n>.log
  clock,
  stopped,
  report      \* what parse_convergence returns

vars == <<seen, creating, applying, sent, buffered, events, monitor, clock, stopped, report>>

\* No total is waiting for its line; there is no line; nothing is parsed yet.
Idle == 0
NoLine == [local |-> -1, total |-> -1]
Unparsed == [status |-> "unparsed"]
Total(n) == SumFunction(seen[n])

Init ==
  /\ seen = [n \in Node |-> [m \in Node |-> 0]]
  /\ creating = [n \in Node |-> Idle] /\ applying = [n \in Node |-> Idle]
  /\ sent = [n \in Node |-> 0] /\ buffered = [n \in Node |-> 0]
  /\ events = [n \in Node |-> << >>] /\ monitor = [n \in Node |-> NoLine]
  /\ clock = 0 /\ stopped = FALSE /\ report = Unparsed

-----------------------------------------------------------------------------
\* Slip: the delta is buffered with the increment, before its lines.
IncrementBuffered(n) ==
  /\ ~stopped /\ creating[n] = Idle /\ seen[n][n] < MaxCount
  /\ seen' = [seen EXCEPT ![n][n] = @ + 1]
  /\ creating' = [creating EXCEPT ![n] = Total(n) + 1]
  /\ buffered' = [buffered EXCEPT ![n] = seen[n][n] + 1]
  /\ UNCHANGED <<applying, sent, events, monitor, clock, stopped, report>>

\* run_random_mode: the increment under the mutex, and its two lines after it.
Increment(n) ==
  /\ ~stopped /\ creating[n] = Idle /\ seen[n][n] < MaxCount
  /\ seen' = [seen EXCEPT ![n][n] = @ + 1]
  /\ creating' = [creating EXCEPT ![n] = Total(n) + 1]
  /\ UNCHANGED <<applying, sent, buffered, events, monitor, clock, stopped, report>>

\* The two lines, and the delta, which the sender's thread sees only now.
LogCreate(n) ==
  /\ creating[n] # Idle
  /\ events' = [events EXCEPT ![n] = @ \o
       <<[event |-> "op_create", ts |-> clock],
         [event |-> "op_apply", ts |-> clock + 1, total |-> creating[n]]>>]
  /\ clock' = clock + 2
  /\ buffered' = [buffered EXCEPT ![n] = seen[n][n]]
  /\ creating' = [creating EXCEPT ![n] = Idle]
  /\ UNCHANGED <<seen, applying, sent, monitor, stopped, report>>

Send(n) ==
  /\ ~stopped /\ sent[n] < buffered[n]
  /\ sent' = [sent EXCEPT ![n] = buffered[n]]
  /\ UNCHANGED <<seen, creating, applying, buffered, events, monitor, clock, stopped, report>>

\* recv_loop: a datagram of m, now, later, again or never.
Receive(n, m) ==
  /\ ~stopped /\ n # m /\ applying[n] = Idle /\ Len(events[n]) < MaxLines
  /\ \E c \in 1 .. sent[m] :
       /\ seen' = [seen EXCEPT ![n][m] = Max({@, c})]
       /\ applying' = [applying EXCEPT ![n] = SumFunction(seen'[n])]
  /\ UNCHANGED <<creating, sent, buffered, events, monitor, clock, stopped, report>>

LogApply(n) ==
  /\ applying[n] # Idle
  /\ events' = [events EXCEPT ![n] =
       Append(@, [event |-> "op_apply", ts |-> clock, total |-> applying[n]])]
  /\ clock' = clock + 1
  /\ applying' = [applying EXCEPT ![n] = Idle]
  /\ UNCHANGED <<seen, creating, sent, buffered, monitor, stopped, report>>

\* The monitor reads local() and then read(); a line with an increment of the node
\* between the two is not Complete below.
MonitorLine(n) ==
  /\ ~stopped
  /\ monitor' = [monitor EXCEPT ![n] = [local |-> seen[n][n], total |-> Total(n)]]
  /\ monitor' # monitor
  /\ UNCHANGED <<seen, creating, applying, sent, buffered, events, clock, stopped, report>>

\* g_running is cleared; the threads finish the lines they have begun.
Stop ==
  /\ ~stopped /\ stopped' = TRUE
  /\ UNCHANGED <<seen, creating, applying, sent, buffered, events, monitor, clock, report>>

-----------------------------------------------------------------------------
(* parse_convergence *)

Lines(n, e) == {i \in DOMAIN events[n] : events[n][i].event = e}
Creates == UNION {{events[n][i].ts : i \in Lines(n, "op_create")} : n \in Node}
Monitored == {n \in Node : monitor[n] # NoLine}
GroundTruth == SumFunction([n \in Monitored |-> monitor[n].local])
FinalTotals == [n \in Monitored |-> monitor[n].total]

\* The nodes that reached a percentage of the ground truth, and when first.
Reached(percent) ==
  [n \in {n \in Node : \E i \in Lines(n, "op_apply") :
                         events[n][i].total * 100 >= percent * GroundTruth}
     |-> events[n][Min({i \in Lines(n, "op_apply") :
                          events[n][i].total * 100 >= percent * GroundTruth})].ts]

\* The time as a set of one, {} where another number of nodes got there than
\* has a final total.
AggTime(percent) ==
  LET times == Reached(percent) IN
  IF Cardinality(DOMAIN times) # Cardinality(Monitored) THEN {}
  ELSE {Max({times[n] : n \in DOMAIN times}) - Max(Creates)}

\* The rows of coverage_nodes.csv: a total over the ground truth.
Coverage == [n \in Monitored |-> <<FinalTotals[n], GroundTruth>>]
AbsErrors == {Max({GroundTruth - FinalTotals[n], FinalTotals[n] - GroundTruth}) : n \in Monitored}

Result ==
  IF Creates = {} \/ Monitored = {} THEN [status |-> "nothing"]
  ELSE [status |-> "report", last_op_create |-> Max(Creates), final_total |-> GroundTruth,
        coverage |-> Coverage, max_abs_error |-> Max(AbsErrors),
        time_to_90pct |-> AggTime(90), time_to_95pct |-> AggTime(95),
        time_to_99pct |-> AggTime(99),
        converged |-> \A n \in Monitored : FinalTotals[n] = GroundTruth,
        convergence_time |-> AggTime(100)]

ParseConvergence ==
  /\ stopped /\ report = Unparsed
  /\ \A n \in Node : creating[n] = Idle /\ applying[n] = Idle
  /\ report' = Result
  /\ UNCHANGED <<seen, creating, applying, sent, buffered, events, monitor, clock, stopped>>

Next ==
  \/ \E n \in Node : \/ Increment(n) \/ LogCreate(n) \/ Send(n) \/ LogApply(n) \/ MonitorLine(n)
                     \/ \E m \in Node : Receive(n, m)
  \/ Stop \/ ParseConvergence

-----------------------------------------------------------------------------
\* Every monitor's last line came after the node's last increment.
Complete == \A n \in Node : monitor[n] # NoLine /\ monitor[n].local = seen[n][n]

\* From complete logs: a run that converged has a convergence time, and no
\* convergence is timed before the last increment, although a node may log a
\* total ahead of the increment that is part of it.
ConvergenceMeasured ==
  report.status = "report" /\ Complete =>
    /\ report.converged => report.convergence_time # {}
    /\ \A t \in report.convergence_time : t >= 0
==============================================================================
