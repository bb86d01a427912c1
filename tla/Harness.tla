------------------------------- MODULE Harness -------------------------------
(* One run of an experiment: evaluation/run_scenario.sh, the script that      *)
(* evaluation/generate_scenario.py gives to every node, the logs brought      *)
(* together by evaluation/collect_logs.py and the verdict in run_status.json. *)
(* The script of a node starts a capture with a time limit in the background, *)
(* runs its application and waits for the capture.                            *)
(*                                                                            *)
(* Between the two it would sleep until PYMACE_START_TS, which                *)
(* start_applications hands to all scripts; but the dollar of                 *)
(* "${PYMACE_START_TS:-}" is not escaped like the others of the script, the   *)
(* shell around the script's own puts its empty value there, and no script    *)
(* ever sleeps.  Time is in seconds from the beginning of the scripts.        *)
EXTENDS Integers, FiniteSets

CONSTANTS
  Node,
  Duration,    \* seconds of an application with increments,
  Cooldown     \* and without

VARIABLES
  stage,    \* STAGE, of which "configure" is the second half of "setup"
  now,
  script,   \* each node: "none", "begun", "app", "waiting", "done" or "killed"
  appUntil, \* when its application will have ended
  capture,  \* its tcpdump: "none", "starting", "running", or the file it left:
            \* "whole", "cut", "empty"
  capUntil, \* and when the time limit ends it
  frames,   \* the capture has frames of the application
  missed,   \* the application has sent frames after the capture's end
  log,      \* node_<id>.log: "none", "own", or "stray" from another run
  netlog,   \* the nodes that have a node_<id>.net.log
  reports,  \* the nodes whose logs of another run lie in reports/
  rc,       \* PYMACE_RC # 0
  verdict   \* run_status.json: [status, analyzable]

harnessVars == <<stage, now, script, appUntil, capture, capUntil, frames, missed,
                 log, netlog, reports, rc, verdict>>
scriptVars == <<script, appUntil, capture, capUntil, frames, missed, log, netlog>>

\* Slip: without the second for the script's own lines.
CaptureSecTight == Duration + Cooldown

\* CAPTURE_SEC, from the beginning of the script.
CaptureSec == Duration + Cooldown + 1

\* A new run directory; reports/ is as other runs have left it.
Init ==
  /\ stage = "setup" /\ now = 0
  /\ script = [n \in Node |-> "none"] /\ appUntil = [n \in Node |-> 0]
  /\ capture = [n \in Node |-> "none"] /\ capUntil = [n \in Node |-> 0]
  /\ frames = [n \in Node |-> FALSE] /\ missed = [n \in Node |-> FALSE]
  /\ log = [n \in Node |-> "none"] /\ netlog = {}
  /\ reports \in SUBSET Node /\ rc = FALSE
  /\ verdict = [status |-> "running", analyzable |-> FALSE]

-----------------------------------------------------------------------------
\* fail_setup
SetUpFails ==
  /\ stage' = "setup_failed"
  /\ verdict' = [status |-> "setup_failed", analyzable |-> FALSE]

\* The scenario's file, the binary and mace.json with the script of each node ...
GenerateScenario ==
  /\ stage = "setup"
  /\ \/ SetUpFails
     \/ stage' = "configure" /\ UNCHANGED verdict
  /\ UNCHANGED <<now, scriptVars, reports, rc>>

\* ... then node_config.json, which sends the applications' logs to the run directory.
GenerateNodeConfig ==
  /\ stage = "configure"
  /\ \/ SetUpFails
     \/ stage' = "execution" /\ UNCHANGED verdict
  /\ UNCHANGED <<now, scriptVars, reports, rc>>

\* custom_application: the beginning of a node's script.
CustomApplication(n) ==
  /\ stage = "execution" /\ script[n] = "none" /\ now = 0
  /\ script' = [script EXCEPT ![n] = "begun"]
  /\ netlog' = netlog \cup {n}
  /\ capture' = [capture EXCEPT ![n] = "starting"]
  /\ capUntil' = [capUntil EXCEPT ![n] = now + CaptureSec]
  /\ UNCHANGED <<stage, now, appUntil, frames, missed, log, reports, rc, verdict>>

\* tcpdump has opened the interface, before or after the application begins.
Listens(n) ==
  /\ capture[n] = "starting" /\ capture' = [capture EXCEPT ![n] = "running"]
  /\ UNCHANGED <<stage, now, script, appUntil, capUntil, frames, missed, log, netlog, reports, rc, verdict>>

\* The test of START_TS fails, and the application begins.
BeginApp(n) ==
  /\ script[n] = "begun"
  /\ script' = [script EXCEPT ![n] = "app"]
  /\ appUntil' = [appUntil EXCEPT ![n] = now + Duration + Cooldown]
  /\ UNCHANGED <<stage, now, capture, capUntil, frames, missed, log, netlog, reports, rc, verdict>>

Send(n) ==
  /\ script[n] = "app" /\ now < appUntil[n]
  /\ frames' = [frames EXCEPT ![n] = @ \/ capture[n] = "running"]
  /\ missed' = [missed EXCEPT ![n] = @ \/ capture[n] = "whole"]
  /\ UNCHANGED <<stage, now, script, appUntil, capture, capUntil, log, netlog, reports, rc, verdict>>

\* The first line of monitor_loop, after its interval.
WriteLog(n) ==
  /\ script[n] = "app" /\ log' = [log EXCEPT ![n] = "own"]
  /\ UNCHANGED <<stage, now, script, appUntil, capture, capUntil, frames, missed, netlog, reports, rc, verdict>>

\* APP_RC: the application is through, or fails at any moment; the script goes on.
AppEnds(n) ==
  /\ script[n] = "app" /\ script' = [script EXCEPT ![n] = "waiting"]
  /\ UNCHANGED <<stage, now, appUntil, capture, capUntil, frames, missed, log, netlog, reports, rc, verdict>>

\* timeout -s INT CAPTURE_SEC tcpdump
CaptureEnds(n) ==
  /\ capture[n] = "running" /\ now >= capUntil[n]
  /\ capture' = [capture EXCEPT ![n] = "whole"]
  /\ UNCHANGED <<stage, now, script, appUntil, capUntil, frames, missed, log, netlog, reports, rc, verdict>>

\* wait $TCPDUMP_PID; the position logger, if its duration is not set, ends before.
ScriptEnds(n) ==
  /\ script[n] = "waiting" /\ capture[n] = "whole"
  /\ script' = [script EXCEPT ![n] = "done"]
  /\ UNCHANGED <<stage, now, appUntil, capture, capUntil, frames, missed, log, netlog, reports, rc, verdict>>

NodeScript(n) ==
  CustomApplication(n) \/ Listens(n) \/ BeginApp(n) \/ Send(n) \/ WriteLog(n) \/ AppEnds(n)
    \/ CaptureEnds(n) \/ ScriptEnds(n)

\* What is due in this second is done in it; tcpdump and the script's lines before
\* the application take no more than one.
Tick ==
  /\ stage = "execution" /\ now <= CaptureSec
  /\ \A n \in Node :
       /\ script[n] = "begun" \/ capture[n] = "starting" => now = 0
       /\ script[n] = "app" => now < appUntil[n]
       /\ capture[n] = "running" => now < capUntil[n]
  /\ now' = now + 1
  /\ UNCHANGED <<stage, scriptVars, reports, rc, verdict>>

-----------------------------------------------------------------------------
\* What tcpdump leaves when it is ended: the file of a killed one may lack its last
\* buffer, or everything; one that was starting may have made none.
Left(n) ==
  IF capture[n] = "starting" THEN {"none", "empty"}
  ELSE {"whole", "empty"} \cup IF frames[n] THEN {"cut"} ELSE {}

\* pymace.py is over, by its timer or an error; CORE ends what runs in the nodes.
EmulationOver ==
  /\ stage = "execution" /\ stage' = "post_collect"
  /\ script' = [n \in Node |-> IF script[n] \in {"none", "done"} THEN script[n] ELSE "killed"]
  /\ capture' \in [Node -> {"none", "whole", "cut", "empty"}]
  /\ \A n \in Node :
       IF capture[n] \in {"starting", "running"} THEN capture'[n] \in Left(n) ELSE capture'[n] = capture[n]
  /\ rc' \in BOOLEAN
  /\ UNCHANGED <<now, appUntil, capUntil, frames, missed, log, netlog, reports, verdict>>

\* collect_logs.py moves whatever node logs are in reports/, over those of the run.
CollectLogs ==
  /\ stage = "post_collect" /\ stage' = "post_process_pcaps"
  /\ log' = [n \in Node |-> IF n \in reports THEN "stray" ELSE log[n]]
  /\ reports' = {}
  /\ UNCHANGED <<now, script, appUntil, capture, capUntil, frames, missed, netlog, rc, verdict>>

\* A whole capture is useful to process_pcaps.py, also one without frames.
UsefulPcaps == {n \in Node : capture[n] \in {"whole", "cut"}}

\* node_*.log and node_*.net.log: the first pattern matches the files of both.
NodeLogs == {n \in Node : log[n] # "none"}
LogsSufficient == Cardinality(NodeLogs) + Cardinality(netlog) >= Cardinality(Node)

Analyzable == LogsSufficient /\ (UsefulPcaps # {} \/ netlog # {})

PostprocessingFailed == (\E n \in Node : capture[n] # "none") /\ UsefulPcaps = {}

RunStatus ==
  IF Analyzable /\ ~rc /\ ~PostprocessingFailed THEN "success"
  ELSE IF Analyzable /\ rc THEN "execution_nonzero_but_artifacts_present"
  ELSE IF PostprocessingFailed THEN "postprocessing_failed"
  ELSE "execution_failed_no_artifacts"

\* process_pcaps.py with --append-netlog (Pcaps has its steps), then the verdict.
Finish ==
  /\ stage = "post_process_pcaps" /\ stage' = "done"
  /\ verdict' = [status |-> RunStatus, analyzable |-> Analyzable]
  /\ UNCHANGED <<now, script, appUntil, capture, capUntil, frames, missed, log, netlog, reports, rc>>

Next ==
  \/ GenerateScenario \/ GenerateNodeConfig \/ Tick \/ EmulationOver \/ CollectLogs \/ Finish
  \/ \E n \in Node : NodeScript(n)

-----------------------------------------------------------------------------
\* No capture ends before its application, although its time limit runs from the
\* beginning of the script, the application begins up to a second later, and the
\* scripts of the nodes begin, fail and are ended in any order.  (What is sent
\* before tcpdump listens is in no capture.)
CapturedToTheEnd == \A n \in Node : ~missed[n]

\* "the harness requires enough node logs for parsing" (evaluation/README.md): a
\* run that is analyzable has the log of every node's application.
AnalyzableHasLogs == verdict.analyzable => NodeLogs = Node
=============================================================================
