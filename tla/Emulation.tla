------------------------------ MODULE Emulation ------------------------------
(* One mace process: the daemon's requests (interfaces/daemon_socket.py,      *)
(* pymace.py), the run of an emulation (runner/emulator.py), its interface    *)
(* (interfaces/emulation_interface.py) and the scenario with its timer and    *)
(* nodes (scenario/scenario.py).  The nodes of a scenario are taken together; *)
(* one RUN is served at a time.                                               *)
EXTENDS Integers

CONSTANTS
  Scenario, \* the scenarios a LOAD may create, one after the other: 1 .. n
  Runtime,  \* seconds of a scenario
  MaxRuns   \* RUNs served (a bound)

None == 0

\* The resources of a scenario's nodes.
Part == {"gps", "mobility", "tracer", "time"}

VARIABLES
  daemon,    \* started with --daemon
  serving,   \* the daemon's socket answers
  created,   \* the number of Scenario objects
  scenario,  \* Emulator.scenario, None after an emulation of the daemon
  running, shut, seconds, timer, \* Scenario: running, how far _shutdown_nodes is, ...
  setUp,     \* its nodes have their core nodes, gps and tracer
  live,      \* what runs or is open, by scenario
  orphan,    \* a mobility model whose only reference was overwritten still runs
  run,       \* where the emulation's thread is
  runs,
  sthread,   \* server_thread: "none", "starting", "ended"
  iosocket   \* the interface: "none", "serving", "down"

scenarioVars == <<running, shut, seconds, timer, setUp, live, orphan>>
runVars == <<run, runs, sthread>>
emulationVars == <<daemon, serving, created, scenario, scenarioVars, runVars, iosocket>>

Init ==
  /\ daemon \in BOOLEAN /\ serving = TRUE
  /\ created = 0 /\ scenario = None
  /\ running = [s \in Scenario |-> FALSE] /\ shut = [s \in Scenario |-> "no"]
  /\ seconds = [s \in Scenario |-> 0] /\ timer = [s \in Scenario |-> "none"]
  /\ setUp = [s \in Scenario |-> FALSE]
  /\ live = [s \in Scenario |-> {}] /\ orphan = [s \in Scenario |-> FALSE]
  /\ run = "idle" /\ runs = 0 /\ sthread = "none" /\ iosocket = "none"

\* The process is over, and with it every thread: the daemon's socket has stopped
\* and no emulation runs.
Exited == ~serving /\ run = "idle"

-----------------------------------------------------------------------------
\* LOAD, or the scenario of the command line: Emulator.setup replaces the
\* scenario at any time, and a new one says that it is running.
Load ==
  /\ serving /\ created + 1 \in Scenario
  /\ created' = created + 1 /\ scenario' = created + 1
  /\ running' = [running EXCEPT ![created + 1] = TRUE]
  /\ UNCHANGED <<daemon, serving, shut, seconds, timer, setUp, live, orphan, runVars, iosocket>>

\* RUN, refused before the first LOAD; afterwards run() returns at once when the
\* last emulation has taken the scenario away.
Start ==
  /\ serving /\ created > 0 /\ scenario # None /\ run = "idle" /\ runs < MaxRuns
  /\ run' = "core" /\ runs' = runs + 1
  /\ UNCHANGED <<daemon, serving, created, scenario, scenarioVars, sthread, iosocket>>

\* The daemon's shutdown stops its socket; nobody reads emulator.running.
ShutdownDaemon ==
  /\ serving /\ serving' = FALSE
  /\ UNCHANGED <<daemon, created, scenario, scenarioVars, runVars, iosocket>>

-----------------------------------------------------------------------------
\* Slip: the timer of the scenario is not started.
SetupNodesUntimed(s) ==
  /\ setUp' = [setUp EXCEPT ![s] = TRUE]
  /\ live' = [live EXCEPT ![s] = @ \cup {"gps"}]
  /\ UNCHANGED timer

\* Scenario.setup_nodes starts each gps and at the end the scenario's timer.
SetupNodes(s) ==
  /\ setUp' = [setUp EXCEPT ![s] = TRUE]
  /\ live' = [live EXCEPT ![s] = @ \cup {"gps"}]
  /\ timer' = [timer EXCEPT ![s] = "counting"]

SetupCore ==
  /\ run = "core" /\ SetupNodes(scenario) /\ run' = "mobility"
  /\ UNCHANGED <<daemon, serving, created, scenario, running, shut, seconds, orphan, runs, sthread, iosocket>>

\* An exception ends the emulation's thread, or main() when that is the thread.
Raise == run' = "idle" /\ serving' \in {serving, serving /\ daemon}

\* Mobility.configure_mobility: whatever the model, it runs from now on.
MobilityStarts(s) ==
  /\ live' = [live EXCEPT ![s] = @ \cup {"mobility"}]
  /\ orphan' = [orphan EXCEPT ![s] = @ \/ "mobility" \in live[s]]

\* Scenario.configure_mobility gives the nodes a new model and starts it, whether
\* or not they have been shut down already; Paparazzi's raises without its extras.
ConfigureMobility ==
  /\ run = "mobility"
  /\ \/ MobilityStarts(scenario) /\ run' = "interface" /\ UNCHANGED serving
     \/ Raise /\ UNCHANGED <<live, orphan>>
  /\ UNCHANGED <<daemon, created, scenario, running, shut, seconds, timer, setUp, runs, sthread, iosocket>>

StartInterface ==
  /\ run = "interface" /\ sthread' = "starting" /\ run' = "applications"
  /\ UNCHANGED <<daemon, serving, created, scenario, scenarioVars, runs, iosocket>>

\* The interface's three threads run, and its handler of "stop" takes the place
\* of the one before.
OpenInterface == iosocket' = "serving"

\* It raises when LOAD has brought nodes that were never set up.
ServerThread ==
  /\ ~Exited /\ sthread = "starting" /\ sthread' = "ended"
  /\ IF scenario # None /\ setUp[scenario] THEN OpenInterface ELSE UNCHANGED iosocket
  /\ UNCHANGED <<daemon, serving, created, scenario, scenarioVars, run, runs>>

\* start_routing and start_applications open the tracers and start the nodes'
\* clocks, which stop at once if the nodes were stopped.  Both raise when LOAD has
\* brought nodes that were never set up, and when etcd has no disk before it.
StartApplications ==
  /\ run = "applications"
  /\ \/ /\ setUp[scenario]
        /\ live' = [live EXCEPT ![scenario] = @ \cup
             IF shut[scenario] \in {"no", "mobility", "stop"} THEN {"tracer", "time"} ELSE {"tracer"}]
        /\ run' = "watch" /\ UNCHANGED serving
     \/ Raise /\ UNCHANGED live
  /\ UNCHANGED <<daemon, created, scenario, running, shut, seconds, timer, setUp, orphan, runs, sthread, iosocket>>

\* while self.scenario.running: of the scenario of the day.
Watch ==
  /\ run = "watch" /\ ~running[scenario] /\ run' = "ending"
  /\ UNCHANGED <<daemon, serving, created, scenario, scenarioVars, runs, sthread, iosocket>>

-----------------------------------------------------------------------------
\* Slip: the timer's end stops the scenario and leaves the nodes to the run.
CheckRuntimeOnly(s) ==
  /\ ~Exited /\ timer[s] = "counting"
  /\ IF Runtime >= seconds[s] /\ running[s]
     THEN seconds' = [seconds EXCEPT ![s] = @ + 1] /\ UNCHANGED <<running, timer>>
     ELSE /\ running' = [running EXCEPT ![s] = FALSE]
          /\ timer' = [timer EXCEPT ![s] = "ended"] /\ UNCHANGED seconds
  /\ UNCHANGED <<daemon, serving, created, scenario, shut, setUp, live, orphan, runVars, iosocket>>

\* Scenario.check_runtime
CheckRuntime(s) ==
  /\ ~Exited /\ timer[s] = "counting"
  /\ IF Runtime >= seconds[s] /\ running[s]
     THEN seconds' = [seconds EXCEPT ![s] = @ + 1] /\ UNCHANGED <<running, shut, timer>>
     ELSE /\ running' = [running EXCEPT ![s] = FALSE]
          /\ shut' = [shut EXCEPT ![s] = IF @ = "no" THEN "mobility" ELSE @]
          /\ timer' = [timer EXCEPT ![s] = "ended"] /\ UNCHANGED seconds
  /\ UNCHANGED <<daemon, serving, created, scenario, setUp, live, orphan, runVars, iosocket>>

\* Emulator.stop, through Scenario.stop, of the scenario of the day.
StopScenario(s) ==
  /\ running' = [running EXCEPT ![s] = FALSE]
  /\ shut' = [shut EXCEPT ![s] = IF @ = "no" THEN "mobility" ELSE @]

\* "stop" of the front end: the interface ends its threads, once, and stops the
\* emulation; with no scenario the call raises.
StopRequest ==
  /\ serving /\ iosocket = "serving" /\ iosocket' = "down"
  /\ IF scenario # None THEN StopScenario(scenario) ELSE UNCHANGED <<running, shut>>
  /\ UNCHANGED <<daemon, serving, created, scenario, seconds, timer, setUp, live, orphan, runVars>>

\* The thread that claimed _shutdown_nodes goes through mobility model, clock,
\* gps and tracer; what was never started is passed over by the excepts.
ShutPart(s, here, then, part) ==
  /\ shut[s] = here /\ shut' = [shut EXCEPT ![s] = then]
  /\ live' = [live EXCEPT ![s] = @ \ {part}]

ShutdownMobility(s) == ShutPart(s, "mobility", "stop", "mobility")
StopNode(s) == ShutPart(s, "stop", "gps", "time")
ShutdownGps(s) == ShutPart(s, "gps", "tracer", "gps")
ShutdownTracer(s) == ShutPart(s, "tracer", "done", "tracer")
ShutdownNodes(s) == ShutdownMobility(s) \/ StopNode(s) \/ ShutdownGps(s) \/ ShutdownTracer(s)

RunShutdown(s) ==
  /\ ~Exited /\ ShutdownNodes(s)
  /\ UNCHANGED <<daemon, serving, created, scenario, running, seconds, timer, setUp, orphan, runVars, iosocket>>

-----------------------------------------------------------------------------
\* The end of run() from the command line: the interface stops (and through it the
\* scenario), the session and core end, and main() stops the socket.
EndByItself ==
  /\ run = "ending" /\ ~daemon
  /\ iosocket' = IF iosocket = "serving" THEN "down" ELSE iosocket
  /\ IF iosocket = "serving" THEN StopScenario(scenario) ELSE UNCHANGED <<running, shut>>
  /\ run' = "idle" /\ serving' = FALSE
  /\ UNCHANGED <<daemon, created, scenario, seconds, timer, setUp, live, orphan, runs, sthread>>

\* In the daemon it waits for server_thread, ends core and forgets the scenario,
\* also one that was loaded while it waited; the interface goes on.
EndInDaemon ==
  /\ run = "ending" /\ daemon /\ sthread = "ended"
  /\ run' = "idle" /\ scenario' = None
  /\ UNCHANGED <<daemon, serving, created, scenarioVars, runs, sthread, iosocket>>

-----------------------------------------------------------------------------
Run ==
  \/ SetupCore \/ ConfigureMobility \/ StartInterface \/ StartApplications
  \/ Watch \/ EndByItself \/ EndInDaemon

Next ==
  \/ Load \/ Start \/ ShutdownDaemon \/ Run \/ ServerThread \/ StopRequest
  \/ \E s \in Scenario : CheckRuntime(s) \/ RunShutdown(s)

\* The threads of an emulation and of its scenarios run on; nobody has to LOAD,
\* RUN or stop anything.
Fairness ==
  /\ WF_emulationVars(Run) /\ WF_emulationVars(ServerThread)
  /\ \A s \in Scenario : WF_emulationVars(CheckRuntime(s)) /\ WF_emulationVars(RunShutdown(s))

Spec == Init /\ [][Next]_emulationVars /\ Fairness

\* An emulation ends: by its timer, a stop, or because it fails.  Only a LOAD while
\* it runs takes its end away, since the loop then watches the new scenario, whose
\* timer nobody has started.
EmulationEnds ==
  (run # "idle") ~> (run = "idle" \/ (scenario # None /\ ~setUp[scenario]))

\* An emulation that came to its loop before anybody stopped it leaves nothing
\* running, however its end, a stop and a LOAD interleave with the shutdown of
\* its nodes, of which the loop is not told.
NothingLeftRunning ==
  \A s \in Scenario :
    (run = "watch" /\ scenario = s /\ shut[s] = "no" /\ ~orphan[s])
      ~> (Exited \/ (live[s] = {} /\ ~orphan[s]))
=============================================================================
