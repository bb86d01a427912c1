----------------------------- MODULE ProgramSuite -----------------------------
(* The programs and classes that run apart from each other, side by side.  A  *)
(* behaviour is one of those in Programs; the others stay in an initial       *)
(* state.  The constants of the programs that are proved about are            *)
(* parameters, those of the others are the small instance TLC checks.         *)
EXTENDS Integers, Sequences, FiniteSets

CONSTANTS
  Programs,    \* the programs a run looks at
  Server, Turbine, Fallback, Instances, MaxOutages,       \* UtmServer
  Client, Buffer,                                         \* Transport
  Job, Count,                                             \* Traffic
  Fleet, Heading, Divisor, MaxRounds,                     \* SwarmConsensus
  Cloudlet, Sizes, Rep, Partitions, MaxCuts,              \* Offloading
  Loads, Runtime, MaxRuns,                                \* Emulation
  OldNodes, OldDelay, TimeLimit,                          \* Startup
  Visitor, VisibleTimeout, MaxLosses,                     \* Visibility
  Nodes, Logger, MaxSteps, Retries, MaxPolls,             \* Positions
  Pcap, Sorted, Contents, MaxStarts,                      \* Pcaps
  Base, Experiments, Kinds, CampaignSizes, MaxCampaigns,  \* Results
  K, Imax,                                                \* TrickleTimer
  MaxCount, MaxLines,                                     \* Convergence
  Vertices, Place, RangeM,                                \* Degrees
  Host, Duration, Cooldown                                \* Convergence, Harness

\* Names of servers and of turbines are no status of a record.
ASSUME UtmAssumption == "none" \notin Server \cup Turbine /\ "pending" \notin Server

\* A socket holds a datagram at least.
ASSUME BufferAssumption == Buffer \in Nat \ {0}

ASSUME TrafficAssumption == Count \in Nat \ {0}

\* A direction is no negative number.
ASSUME SwarmAssumption ==
  IsFiniteSet(Fleet) /\ Heading \in [Fleet -> Nat] /\ Divisor \in Nat \ {0}

ASSUME OffloadingAssumption == IsFiniteSet(Cloudlet) /\ Sizes \subseteq Nat \ {0} /\ Rep \subseteq Nat \ {0}

ASSUME LoadsAssumption == Loads \in Nat

ASSUME OldAssumption == OldNodes \in Nat

ASSUME PositionsAssumption == Nodes \in Nat /\ Logger \subseteq 1 .. Nodes /\ Retries \in Nat

\* A run has captures, and no two have the same name.
ASSUME PcapAssumption ==
  /\ Pcap # {} /\ Sorted \in [Pcap -> Nat]
  /\ \A p, q \in Pcap : Sorted[p] = Sorted[q] => p = q

ASSUME TimerAssumption == K \in Nat \ {0} /\ Imax \in Nat \ {0}

ASSUME HostAssumption == IsFiniteSet(Host)

ASSUME VerticesAssumption == Vertices \in Nat

ASSUME HarnessAssumption == Duration \in Nat /\ Cooldown \in Nat

VARIABLES
  program,
  position, uavFound, bank, job, listed, over, store, events, reach, outages,
  class, socketRuns, thread, open, stopping, queue, connections, payload, delivered, outcome,
  kind, status, sent, scheduled, sender, cancel, listening, trafficLock,
  direction, heard, air, iterating, rounds, swarmLock,
  started, neighbours, campaign, mode, rep, partition, turn, size, todo, reps,
  sending, up, server, cuts, offloadLock,
  daemon, serving, created, scenario, running, shut, elapsed, timer, setUp, live,
  orphan, run, runs, sthread, iosocket,
  clock, runner, nodesToStart, next, state, seconds, lock, task,
  visible, everVisible, visibilityLost, losses, analysis, member, ever, bound, found,
  model, moving, at, mstep, corePos, nodePos, gpsPos, before, page, listener, enabled,
  poll, rows, row,
  file, delete, pcapsTodo, pcapsStep, tmp, csv, jsonl, pcapsSummary, netlog, rc, starts,
  seen, creating, applying, logSent, buffered, logEvents, monitor, logClock, stopped, report,
  step, pos, edges, parent, treeSize, table, ecdf,
  phase, grouping, campaigns, shell, results, all, cap, out,
  ctl, equal, news,
  stage, now, script, appUntil, capture, capUntil, frames, missed, log, nodeNet, reports,
  failed, verdict

utmVars == <<position, uavFound, bank, job, listed, over, store, events, reach, outages>>
socketsVars == <<class, socketRuns, thread, open, stopping, queue, connections, payload, delivered, outcome>>
trafficVars == <<kind, status, sent, scheduled, sender, cancel, listening, trafficLock>>
swarmVars == <<direction, heard, air, iterating, rounds, swarmLock>>
offloadingVars == <<started, neighbours, campaign, mode, rep, partition, turn, size, todo, reps,
  sending, up, server, cuts, offloadLock>>
emulationVars == <<daemon, serving, created, scenario, running, shut, elapsed, timer, setUp, live,
  orphan, run, runs, sthread, iosocket>>
startupVars == <<clock, runner, nodesToStart, next, state, seconds, lock, task>>
visibilityVars == <<visible, everVisible, visibilityLost, losses, analysis, member, ever, bound, found>>

positionsVars == <<model, moving, at, mstep, corePos, nodePos, gpsPos, before, page, listener,
  enabled, poll, rows, row>>
pcapsVars == <<file, delete, pcapsTodo, pcapsStep, tmp, csv, jsonl, pcapsSummary, netlog, rc, starts>>
convergenceVars == <<seen, creating, applying, logSent, buffered, logEvents, monitor, logClock,
  stopped, report>>
degreesVars == <<step, pos, edges, parent, treeSize, table, ecdf>>
resultsVars == <<phase, grouping, campaigns, shell, results, all, cap, out>>
timerVars == <<ctl, equal, news>>
harnessVars == <<stage, now, script, appUntil, capture, capUntil, frames, missed, log, nodeNet,
  reports, failed, verdict>>

Utm == INSTANCE UtmServer WITH found <- uavFound

Sockets == INSTANCE Transport WITH running <- socketRuns, serving <- connections

Generator == INSTANCE Traffic WITH lock <- trafficLock

FirstOf(i) == Heading[i]
Swarm == INSTANCE SwarmConsensus WITH
  Node <- Fleet, First <- FirstOf, neighbours <- heard, lock <- swarmLock

Drone == INSTANCE Offloading WITH lock <- offloadLock

Mace == INSTANCE Emulation WITH Scenario <- 1 .. Loads, seconds <- elapsed

Old == INSTANCE Startup WITH Nodes <- OldNodes, StartDelay <- OldDelay

Pprz == INSTANCE Visibility WITH
  Peer <- Visitor, Timeout <- VisibleTimeout

Where == INSTANCE Positions

Captures == INSTANCE Pcaps WITH
  todo <- pcapsTodo, step <- pcapsStep, summary <- pcapsSummary

Times == INSTANCE Convergence WITH
  Node <- Host, sent <- logSent, events <- logEvents, clock <- logClock

Graph == INSTANCE Degrees WITH Nodes <- Vertices, size <- treeSize

Figures == INSTANCE Results WITH
  Run <- CampaignSizes, kind <- grouping, script <- shell

Timer == INSTANCE TrickleTimer WITH c <- ctl

Experiment == INSTANCE Harness WITH Node <- Host, netlog <- nodeNet, rc <- failed

-----------------------------------------------------------------------------
\* A program that is not run stays in one initial state: Transport, Traffic,
\* Emulation, Positions, Pcaps, Results and Harness have several.  The page
\* that drags nodes is open where autopilots move them.
Init ==
  /\ program \in Programs
  /\ Utm!Init /\ Sockets!Init /\ Generator!Init /\ Swarm!Init /\ Drone!Init
  /\ Mace!Init /\ Old!Init /\ Pprz!Init
  /\ Where!Init /\ Captures!Init /\ Times!Init /\ Graph!Init /\ Figures!Init
  /\ Timer!TimerInit /\ Experiment!Init
  /\ program = "sockets" \/ class = "udp"
  /\ program = "traffic" \/ kind = [j \in Job |-> "udp"]
  /\ program = "emulation" \/ daemon
  /\ IF program = "positions" THEN page => model = "paparazzi" ELSE model = "random" /\ ~page
  /\ program = "pcaps" \/ file = [p \in Pcap |-> "good"]
  /\ program = "results" \/ grouping = "density"
  /\ program = "harness" \/ reports = {}

\* The variables of the other programs stay as they are.
Others ==
  /\ UNCHANGED program
  /\ IF program = "utm" THEN TRUE ELSE UNCHANGED utmVars
  /\ IF program = "sockets" THEN TRUE ELSE UNCHANGED socketsVars
  /\ IF program = "traffic" THEN TRUE ELSE UNCHANGED trafficVars
  /\ IF program = "swarm" THEN TRUE ELSE UNCHANGED swarmVars
  /\ IF program = "offloading" THEN TRUE ELSE UNCHANGED offloadingVars
  /\ IF program = "emulation" THEN TRUE ELSE UNCHANGED emulationVars
  /\ IF program = "startup" THEN TRUE ELSE UNCHANGED startupVars
  /\ IF program = "visibility" THEN TRUE ELSE UNCHANGED visibilityVars
  /\ IF program = "positions" THEN TRUE ELSE UNCHANGED positionsVars
  /\ IF program = "pcaps" THEN TRUE ELSE UNCHANGED pcapsVars
  /\ IF program = "convergence" THEN TRUE ELSE UNCHANGED convergenceVars
  /\ IF program = "degrees" THEN TRUE ELSE UNCHANGED degreesVars
  /\ IF program = "results" THEN TRUE ELSE UNCHANGED resultsVars
  /\ IF program = "timer" THEN TRUE ELSE UNCHANGED timerVars
  /\ IF program = "harness" THEN TRUE ELSE UNCHANGED harnessVars

Next ==
  \/ program = "utm" /\ Utm!Next /\ Others
  \/ program = "sockets" /\ Sockets!Next /\ Others
  \/ program = "traffic" /\ Generator!Next /\ Others
  \/ program = "swarm" /\ Swarm!Next /\ Others
  \/ program = "offloading" /\ Drone!Next /\ Others
  \/ program = "emulation" /\ Mace!Next /\ Others
  \/ program = "startup" /\ Old!Next /\ Others
  \/ program = "visibility" /\ Pprz!Next /\ Others
  \/ program = "positions" /\ Where!Next /\ Others
  \/ program = "pcaps" /\ Captures!Next /\ Others
  \/ program = "convergence" /\ Times!Next /\ Others
  \/ program = "degrees" /\ Graph!Next /\ Others
  \/ program = "results" /\ Figures!Next /\ Others
  \/ program = "timer" /\ Timer!TimerNext /\ Others
  \/ program = "harness" /\ Experiment!Next /\ Others

vars == <<program, utmVars, socketsVars, trafficVars, swarmVars, offloadingVars,
          emulationVars, startupVars, visibilityVars, positionsVars,
          pcapsVars, convergenceVars, degreesVars, resultsVars, timerVars,
          harnessVars>>

Spec == Init /\ [][Next]_vars

-----------------------------------------------------------------------------
(* The properties of the modules; a program's fairness is assumed where it   *)
(* is needed.                                                                *)

SyncedIsStored == Utm!SyncedIsStored
ImplementsInspections == Utm!ImplementsInspections
Synchronized == program = "utm" /\ Utm!Fairness => Utm!Synchronized
NeverStranded == Sockets!NeverStranded
StopEndsThread == program = "sockets" /\ Sockets!Fairness => Sockets!StopEndsThread
JobCounts == Generator!JobCounts
Enclosed == Swarm!Enclosed
SerialComplete == Drone!SerialComplete
CampaignEnds == program = "offloading" /\ Drone!Fairness => Drone!CampaignEnds
EmulationEnds == program = "emulation" /\ Mace!Fairness => Mace!EmulationEnds
NothingLeftRunning == program = "emulation" /\ Mace!Fairness => Mace!NothingLeftRunning
NobodyPassedOver == Old!NobodyPassedOver
AllOrNone == program = "startup" /\ Old!Fairness => Old!AllOrNone
LossesPaired == Pprz!LossesPaired
GpsFollows == Where!GpsFollows
OverheadWhole == Captures!OverheadWhole
ConvergenceMeasured == Times!ConvergenceMeasured
ComponentsRight == Graph!ComponentsRight
OneCampaignEach == Figures!OneCampaignEach
NewsDecidesNext == Timer!NewsDecidesNext
CapturedToTheEnd == Experiment!CapturedToTheEnd
AnalyzableHasLogs == Experiment!AnalyzableHasLogs
=============================================================================
