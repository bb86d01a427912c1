-------------------------------- MODULE Startup --------------------------------
(* A run of the older runner: Runner.run of classes/runner/runner.py and the   *)
(* programs it starts (main.py, classes/node.py), with the bus of each         *)
(* (classes/bus/bus.py).  The runner tells every node the time at which all of *)
(* them begin, over a socket that each opens when it has booted.  The nodes    *)
(* are those of createNodesCore: what createNodes starts ends at its           *)
(* arguments, of which the fifth is to be an IP protocol, and leaves the       *)
(* runner backing off for ever.                                                *)
(*                                                                             *)
(* Later it would wait for the files that the nodes leave when they end, but   *)
(* no node does: Node makes its Bus with itself for a tag, of which the bus    *)
(* makes the name of its socket, and a string and a Node are not added.  The   *)
(* bus's thread ends with its start, its shutdown raises, and with it          *)
(* Node.shutdown.  The node goes on, the runner waits for ever, and what       *)
(* follows an end in either of them is never reached.                          *)
EXTENDS Integers, Sequences, FiniteSets, SequencesExt

CONSTANTS
  Nodes,      \* the number of nodes, called 0 .. Nodes - 1
  StartDelay, \* seconds from the runner's reading of the clock to the start
  TimeLimit   \* seconds of a node's run

Node == 0 .. Nodes - 1
Later == StartDelay + 1  \* any time after the start

VARIABLES
  clock,       \* seconds since the runner read it
  runner,      \* "starting", "waiting" or "exited"
  nodesToStart, next, \* the list and the loop's index
  state,       \* each node: "booting", "listening", "told", "running", "killed"
  seconds,     \* simulation_seconds
  lock,        \* Node.lock
  task         \* Node.shutdown in task1: "idle" or "failed"

startupVars == <<clock, runner, nodesToStart, next, state, seconds, lock, task>>
ofRunner == <<runner, nodesToStart, next>>
ofNodes == <<seconds, lock, task>>

Init ==
  /\ clock = 0
  /\ runner = "starting" /\ nodesToStart = [i \in 1 .. Nodes |-> i - 1] /\ next = 1
  /\ state = [n \in Node |-> "booting"]
  /\ seconds = [n \in Node |-> 0] /\ lock = [n \in Node |-> TRUE]
  /\ task = [n \in Node |-> "idle"]

-----------------------------------------------------------------------------
\* main.py up to startup(): the node listens under its number.
Boot(n) ==
  /\ state[n] = "booting" /\ runner # "exited"
  /\ state' = [state EXCEPT ![n] = "listening"]
  /\ UNCHANGED <<ofRunner, clock, ofNodes>>

\* It answers the runner, which takes it out of the list it goes through: the
\* loop's next node is the one after the next.
Told(n) ==
  /\ state' = [state EXCEPT ![n] = "told"]
  /\ nodesToStart' = RemoveAt(nodesToStart, next)
  /\ next' = IF next + 1 > Len(nodesToStart) - 1 THEN 1 ELSE next + 1
  /\ UNCHANGED runner

\* A node that cannot be reached ends the pass (backoff).
Unreached ==
  /\ next' = 1 /\ UNCHANGED <<runner, nodesToStart, state>>

\* Slip: startup() answers OK whatever the time.
StartNodeLate ==
  /\ runner = "starting" /\ nodesToStart # <<>>
  /\ LET n == nodesToStart[next] IN
     IF state[n] = "listening" THEN Told(n) ELSE Unreached
  /\ UNCHANGED <<clock, ofNodes>>

\* startNodes: the node that is next in the list.  One that is told too late ends
\* the run, and all nodes.
StartNode ==
  /\ runner = "starting" /\ nodesToStart # <<>>
  /\ LET n == nodesToStart[next] IN
       \/ state[n] # "listening" /\ Unreached
       \/ state[n] = "listening" /\ clock <= StartDelay /\ Told(n)
       \/ /\ state[n] = "listening" /\ clock > StartDelay
          /\ runner' = "exited" /\ state' = [m \in Node |-> "killed"]
          /\ UNCHANGED <<nodesToStart, next>>
  /\ UNCHANGED <<clock, ofNodes>>

\* Slip: one pass of startNodes.
AllStartedAtOnce ==
  /\ runner = "starting" /\ next = 1 /\ Len(nodesToStart) < Nodes /\ runner' = "waiting"
  /\ UNCHANGED <<nodesToStart, next, clock, state, ofNodes>>

\* while (len(self.nodes_to_start) > 0)
AllStarted ==
  /\ runner = "starting" /\ nodesToStart = <<>> /\ runner' = "waiting"
  /\ UNCHANGED <<nodesToStart, next, clock, state, ofNodes>>

-----------------------------------------------------------------------------
\* while float(start) > time.time(): pass; then control and Node.start.
Begin(n) ==
  /\ state[n] = "told" /\ clock >= StartDelay
  /\ state' = [state EXCEPT ![n] = "running"]
  /\ UNCHANGED <<ofRunner, clock, ofNodes>>

\* task2: when the limit is passed the node is to end.
CountSecond(n) ==
  /\ state[n] = "running" /\ lock[n]
  /\ seconds' = [seconds EXCEPT ![n] = @ + 1]
  /\ lock' = [lock EXCEPT ![n] = seconds[n] + 1 <= TimeLimit]
  /\ UNCHANGED <<ofRunner, clock, state, task>>

\* task1 calls Node.shutdown, which stops Mobility, Application, Membership,
\* FaultDetector and Battery and raises in Bus.shutdown: Node.stop stays FALSE,
\* no file is written, and every later second it is tried again in vain.
NodeShutdown(n) ==
  /\ state[n] = "running" /\ ~lock[n] /\ task[n] = "idle"
  /\ task' = [task EXCEPT ![n] = "failed"]
  /\ UNCHANGED <<ofRunner, clock, state, seconds, lock>>

-----------------------------------------------------------------------------
Tick ==
  /\ clock < Later /\ clock' = clock + 1
  /\ UNCHANGED <<ofRunner, state, ofNodes>>

NodeStep(n) == Boot(n) \/ Begin(n) \/ CountSecond(n) \/ NodeShutdown(n)

Runner == StartNode \/ AllStarted

Next == Runner \/ Tick \/ \E n \in Node : NodeStep(n)

\* The processes run, and time passes.
Fairness ==
  /\ WF_startupVars(Runner) /\ WF_startupVars(Tick)
  /\ \A n \in Node : WF_startupVars(NodeStep(n))

Spec == Init /\ [][Next]_startupVars /\ Fairness

\* The runner never runs a part of the nodes: when one has begun and the runner
\* still has nodes to tell, it gives the run up and ends those that have begun.
AllOrNone ==
  ((\E n \in Node : state[n] = "running") /\ nodesToStart # <<>> /\ clock > StartDelay)
    ~> (runner = "exited")

\* The runner goes on to wait for the nodes' ends only when it has told each of
\* them to start, although a pass of startNodes leaves out the node after each
\* one it removes, and is broken off by a node that does not listen yet.
NobodyPassedOver ==
  runner = "waiting" => \A n \in Node : state[n] \notin {"booting", "listening"}
=============================================================================
