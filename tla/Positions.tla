------------------------------ MODULE Positions ------------------------------
(* Where a node is: the mobility thread moves CORE's node, the node itself    *)
(* and its virtual GPS, one after another (node_mobility.py, gen_node.py);    *)
(* the GPS answers over a UNIX socket (virtual_gps.py), a logger in the node  *)
(* asks it again and again (evaluation/gps_logger.py), and the operator's     *)
(* page drags CORE's nodes.  A position is the number of the mobility step it *)
(* comes from, 0 the one of the scenario.                                     *)
EXTENDS Integers, FiniteSets

CONSTANTS
  Nodes,      \* mace_nodes are 1 .. Nodes
  Logger,     \* the nodes whose function starts a logger
  MaxSteps,   \* bound: steps of the mobility model
  Retries,    \* RETRIES
  MaxPolls    \* bound: rows of a logger

VARIABLES
  model,      \* "random", "attraction" or "paparazzi"
  moving,     \* Mobility.lock: its thread runs
  at,         \* the node whose turn it is in a step, and what is next for it
  mstep,      \* the steps made
  corePos, nodePos, gpsPos,
  before,     \* a node's position before its present one
  page,       \* the operator has a page open
  listener,   \* the GPS thread: "new", "listening" or "closed"
  enabled,    \* VirtualGPS.state
  poll,       \* a logger's poll: its phase, the tries left, and what nodePos and
              \* before were as it began
  rows,       \* how many rows a logger has written
  row         \* its last row

vars == <<model, moving, at, mstep, corePos, nodePos, gpsPos, before,
          page, listener, enabled, poll, rows, row>>

Node == 1 .. Nodes
Unset == -1        \* position = [], of which the logger makes ok = 0
Dragged == -2
NoTurn == [node |-> 0, next |-> "none"]
NoPoll == [phase |-> "idle", tries |-> 0, from |-> Unset, since |-> Unset]
NoRow == [ok |-> 0, pos |-> Unset, from |-> Unset, since |-> Unset, answered |-> FALSE]

Init ==
  /\ model \in {"random", "attraction", "paparazzi"}
  /\ moving = FALSE /\ at = NoTurn /\ mstep = 0
  /\ corePos = [n \in Node |-> 0] /\ nodePos = [n \in Node |-> Unset]
  /\ gpsPos = [n \in Node |-> Unset] /\ before = [n \in Node |-> Unset]
  /\ page \in BOOLEAN
  /\ listener = [n \in Node |-> "new"] /\ enabled = [n \in Node |-> FALSE]
  /\ poll = [n \in Node |-> NoPoll] /\ rows = [n \in Node |-> 0]
  /\ row = [n \in Node |-> NoRow]

sockVars == <<listener, enabled, page>>
logVars == <<poll, rows, row>>
posVars == <<corePos, nodePos, gpsPos, before>>

-----------------------------------------------------------------------------
(* The scenario starts each node's GPS and gives it its first position.  The  *)
(* threads of those that nobody asks are not followed.                       *)

StartGps(n) ==
  /\ n \in Logger /\ ~enabled[n] /\ listener[n] = "new" /\ nodePos[n] = Unset
  /\ \A m \in 1 .. n - 1 : nodePos[m] # Unset
  /\ enabled' = [enabled EXCEPT ![n] = TRUE]
  /\ UNCHANGED <<model, moving, at, mstep, posVars, listener, page, logVars>>

FirstPosition(n) ==
  /\ nodePos[n] = Unset /\ (n \in Logger => enabled[n])
  /\ \A m \in 1 .. n - 1 : nodePos[m] # Unset
  /\ nodePos' = [nodePos EXCEPT ![n] = 0] /\ gpsPos' = [gpsPos EXCEPT ![n] = 0]
  /\ UNCHANGED <<model, moving, at, mstep, corePos, before, sockVars, logVars>>

\* Autopilots drive without a thread of Mobility.
StartMobility ==
  /\ ~moving /\ mstep = 0 /\ at = NoTurn /\ \A n \in Node : nodePos[n] # Unset
  /\ model # "paparazzi" /\ moving' = TRUE
  /\ UNCHANGED <<model, at, mstep, posVars, sockVars, logVars>>

-----------------------------------------------------------------------------
(* mobility_update and pymace_mobility_update                                *)

NextPositions ==
  /\ moving /\ at = NoTurn /\ mstep < MaxSteps
  /\ mstep' = mstep + 1 /\ at' = [node |-> 1, next |-> "core"]
  /\ UNCHANGED <<model, moving, posVars, sockVars, logVars>>

NextNode == IF at.node < Nodes THEN [node |-> at.node + 1, next |-> "core"] ELSE NoTurn

\* A random model sets the node and its GPS; an attraction goes on to the trace.
SetCore ==
  /\ at.next = "core"
  /\ corePos' = [corePos EXCEPT ![at.node] = mstep]
  /\ at' = [at EXCEPT !.next = IF model = "random" THEN "node" ELSE "trace"]
  /\ UNCHANGED <<model, moving, mstep, nodePos, gpsPos, before, sockVars, logVars>>

\* CORE refuses: the step is over for the nodes that follow as well.  In
\* pymace_mobility_update nothing catches the error and the thread ends.
CoreRaises ==
  /\ at.next = "core" /\ at' = NoTurn
  /\ moving' = (moving /\ model = "random")
  /\ UNCHANGED <<model, mstep, posVars, sockVars, logVars>>

SetNode ==
  /\ at.next = "node"
  /\ nodePos' = [nodePos EXCEPT ![at.node] = mstep]
  /\ before' = [before EXCEPT ![at.node] = nodePos[at.node]]
  /\ at' = [at EXCEPT !.next = "gps"]
  /\ UNCHANGED <<model, moving, mstep, corePos, gpsPos, sockVars, logVars>>

\* Slip: the node's GPS is not told, as in pymace_mobility_update.
SetGpsNot ==
  /\ at.next = "gps" /\ at' = [at EXCEPT !.next = "trace"]
  /\ UNCHANGED <<model, moving, mstep, posVars, sockVars, logVars>>

SetGps ==
  /\ at.next = "gps" /\ at' = [at EXCEPT !.next = "trace"]
  /\ gpsPos' = [gpsPos EXCEPT ![at.node] = mstep]
  /\ UNCHANGED <<model, moving, mstep, corePos, nodePos, before, sockVars, logVars>>

\* update_position: only inside of max_position.  The tracer's file is left out.
UpdatePosition ==
  /\ at.next = "trace" /\ at' = NextNode
  /\ nodePos' = [nodePos EXCEPT ![at.node] = mstep] \/ UNCHANGED nodePos
  /\ UNCHANGED <<model, moving, mstep, corePos, gpsPos, before, sockVars, logVars>>

\* paparazzi_mobility_update: a message of the autopilot moves CORE's node.
AutopilotMoves(n) ==
  /\ model = "paparazzi" /\ nodePos[n] # Unset /\ mstep < MaxSteps
  /\ mstep' = mstep + 1 /\ corePos' = [corePos EXCEPT ![n] = mstep + 1]
  /\ UNCHANGED <<model, moving, at, nodePos, gpsPos, before, sockVars, logVars>>

\* The thread ends when it comes to the end of its step.
ShutdownMobility ==
  /\ moving /\ moving' = FALSE
  /\ UNCHANGED <<model, at, mstep, posVars, sockVars, logVars>>

-----------------------------------------------------------------------------
(* The page of the operator                                                  *)

UpdatePos(n) ==
  /\ page /\ corePos[n] # Dragged
  /\ corePos' = [corePos EXCEPT ![n] = Dragged]
  /\ UNCHANGED <<model, moving, at, mstep, nodePos, gpsPos, before, sockVars, logVars>>

ResetPos ==
  /\ page
  /\ corePos' = [n \in Node |-> 0]
  /\ UNCHANGED <<model, moving, at, mstep, nodePos, gpsPos, before, sockVars, logVars>>

-----------------------------------------------------------------------------
(* VirtualGPS                                                                *)

Listen(n) ==
  /\ enabled[n] /\ listener[n] = "new"
  /\ listener' = [listener EXCEPT ![n] = "listening"]
  /\ UNCHANGED <<model, moving, at, mstep, posVars, enabled, page, logVars>>

\* The position is read for the answer, not for the question.
Answer(n) ==
  /\ listener[n] = "listening" /\ poll[n].phase = "asked"
  /\ row' = [row EXCEPT ![n] = [ok |-> IF gpsPos[n] = Unset THEN 0 ELSE 1, pos |-> gpsPos[n],
                                from |-> poll[n].from, since |-> poll[n].since, answered |-> TRUE]]
  /\ rows' = [rows EXCEPT ![n] = @ + 1] /\ poll' = [poll EXCEPT ![n] = NoPoll]
  /\ UNCHANGED <<model, moving, at, mstep, posVars, sockVars>>

ShutdownGps(n) ==
  /\ enabled[n] /\ nodePos[n] # Unset
  /\ enabled' = [enabled EXCEPT ![n] = FALSE]
  /\ UNCHANGED <<model, moving, at, mstep, posVars, listener, page, logVars>>

\* The wake-up or the timeout of accept lets the thread see its state.
Close(n) ==
  /\ ~enabled[n] /\ nodePos[n] # Unset /\ listener[n] # "closed"
  /\ listener' = [listener EXCEPT ![n] = "closed"]
  /\ UNCHANGED <<model, moving, at, mstep, posVars, enabled, page, logVars>>

-----------------------------------------------------------------------------
(* GPSBridge                                                                 *)

PollOnce(n) ==
  /\ n \in Logger /\ poll[n].phase = "idle" /\ rows[n] < MaxPolls
  /\ poll' = [poll EXCEPT ![n] = [phase |-> "try", tries |-> Retries,
                               from |-> nodePos[n], since |-> before[n]]]
  /\ UNCHANGED <<model, moving, at, mstep, posVars, sockVars, rows, row>>

Ask(n) ==
  /\ poll[n].phase = "try" /\ poll[n].tries > 0 /\ listener[n] = "listening"
  /\ poll' = [poll EXCEPT ![n].phase = "asked"]
  /\ UNCHANGED <<model, moving, at, mstep, posVars, sockVars, rows, row>>

\* No socket, no answer in time, or a connection that is cut.
TryFails(n) ==
  /\ \/ poll[n].phase = "try" /\ poll[n].tries > 0 /\ listener[n] # "listening"
     \/ poll[n].phase = "asked"
  /\ poll' = [poll EXCEPT ![n].phase = "try", ![n].tries = @ - 1]
  /\ UNCHANGED <<model, moving, at, mstep, posVars, sockVars, rows, row>>

\* After the last try the row has the coordinates -1 and ok = 0.
NoPosition(n) ==
  /\ poll[n].phase = "try" /\ poll[n].tries = 0
  /\ row' = [row EXCEPT ![n] = [ok |-> 0, pos |-> Unset, from |-> poll[n].from,
                                since |-> poll[n].since, answered |-> FALSE]]
  /\ rows' = [rows EXCEPT ![n] = @ + 1] /\ poll' = [poll EXCEPT ![n] = NoPoll]
  /\ UNCHANGED <<model, moving, at, mstep, posVars, sockVars>>

Next ==
  \/ StartMobility \/ NextPositions \/ SetCore \/ CoreRaises \/ SetNode \/ SetGps
  \/ UpdatePosition \/ ShutdownMobility \/ ResetPos
  \/ \E n \in Node :
       \/ StartGps(n) \/ FirstPosition(n) \/ AutopilotMoves(n) \/ UpdatePos(n)
       \/ Listen(n) \/ Answer(n) \/ ShutdownGps(n) \/ Close(n)
       \/ PollOnce(n) \/ Ask(n) \/ TryFails(n) \/ NoPosition(n)

-----------------------------------------------------------------------------
\* In a random model a logged position is not older than the one before that
\* which the node had when the question was begun, through retries and steps
\* that break off, and a GPS never tells that a node which had a position has
\* none.
GpsFollows ==
  model = "random" =>
    \A n \in Logger :
      /\ row[n].ok = 1 => row[n].pos >= row[n].since /\ row[n].pos <= mstep
      /\ row[n].answered /\ row[n].from # Unset => row[n].ok = 1
==============================================================================
