# Formal model of pymace

pymace emulates networks of mobile nodes, runs distributed applications on them
and evaluates what they did. This directory models the repository in TLA+: what
its nodes and tools keep, what their threads do and in which order, what they
send each other and what becomes of it. TLC checks the modules on small
instances; TLAPS proves for every instance that the CRDT applications, the
neighbour list, the fault detector and the programs around an experiment keep
their safety properties.

To check a run: `tlc -config Membership.cfg MCMembership`; to check a proof:
`tlapm MembershipProofs.tla`. `PROJECT.json` lists the runs with their
configurations, the source lines of every definition, the hazards and the
theorems.

## The system

An experiment starts in `evaluation/`: scripts expand its parameters into
scenarios and call the emulator (`pymace.py`, `classes/runner`,
`classes/scenario`) for each of them. The emulator places nodes in a network
emulated by CORE, moves them (`classes/mobility`), and starts a program in each
of them. The programs exchange messages through the emulated radio; nothing
else is shared between nodes. Inside a node, a handful of threads share state
under mutexes (the C++ applications) or under nothing but the interpreter's
lock (the Python ones). What the programs log and what was captured on the
network is collected, measured and averaged by further scripts of
`evaluation/`.

### Inventory

| Component | Source | State | Operations | What is hard | What makes it correct | Module |
|---|---|---|---|---|---|---|
| CRDT library, `gcounter` | `apps/crdt/common/delta-crdts.cc` | one number per replica | `inc`, `join`, `read` | deltas repeated or out of order | join is a least upper bound | `GCounter`, `ReplicatedCounter` |
| CRDT library, the rest | same file | dot contexts and the types on them | mutators with deltas, `join` | concurrent add and remove | join is a semilattice | not modelled |
| Trickle | `apps/crdt/trickle` | `gc`, `_known_state`, controller, three threads | increment, tick, summary, compare, repair, request, apply, reset, stop | loss, reordering, suppression, stale snapshots | nothing invented or forgotten, convergence | `Trickle`, `TrickleController`, `TrickleTimer` |
| broadcast, multiunicast | `apps/crdt/broadcast`, `apps/crdt/multiunicast` | `gc`, `delta_buffer`, `last_payload`, budget | increment, buffer, send, resend, receive, stop | hand-over between two mutexes, loss beyond the budget | no increment lost inside a node, convergence within the budget | `DeltaBroadcast` |
| RAPID | `apps/crdt/rapid` | `gc`, `_pending_state`, cache, cast queue | increment, publish, rebroadcast, defer, gossip, request, answer, expire, stop | deduplication, draws, expiry, an unlocked generator | what is deduplicated is counted, messages reach the end of a chain | `Rapid` |
| Membership: Local, Neighbourhood | `membership_sockets.py`, `apps/membership` | `visible`, clock | hello sent and handled, sweep, end | one thread scans by index while another deletes | one row per neighbour, kept while heard, dropped when silent | `Membership` |
| The report on neighbours, Paparazzi variants | the same, `membership_pprz_*.py`, `network_pprz_*.py` | `ever_visible`, `visibility_lost` | analysis job against hellos and sweep | two lists walked by index | each loss has its absence | `Visibility` |
| Membership: Global, DBRB | `membership_sockets.py` | servers with latencies; views | init, discover; sort, update | – | – | not modelled |
| Fault detector: Simple, Fast | `classes/fault/detector.py` | `running`, `suspect`, `faulty`, subscribers | beacon, suspect, echo, declare, call back | timers against late answers, shared lists without a lock, a busy wait | nobody falls out of the lists; failures found; answers repair | `FaultDetector` |
| UTM server | `utm_server_etcd.py` | `data_bank`, `data_bank_etcd`, etcd | position, record, get, put, watch | get then put, failing puts, callbacks that raise | what is marked synchronized is stored; in the end all is | `UtmServer` |
| Sockets | `classes/network/network_sockets.py` and three copies | server socket, thread per connection | send, accept, serve, stop | waits without a timeout, clients that fall silent | a stop wakes the thread, and ends it if no silent client holds it | `Transport` |
| Traffic | `apps/traffic` | jobs, scheduler | add, fire, send, cancel, listen | cancelled while being sent | never more than asked | `Traffic` |
| Swarm consensus | `apps/swarm-consensus` | direction, neighbours' directions | broadcast, hear, average | a dictionary that grows under the round | directions stay enclosed | `SwarmConsensus` |
| Offloading | `apps/offloading` | neighbours, campaign | hello, serial and parallel campaign, cloudlets | neighbours that come in the middle, cloudlets that end or are held by another drone | campaigns end, reports complete | `Offloading` |
| Emulation and daemon | `pymace.py`, `emulator.py`, `scenario.py`, `interfaces/` | scenario, threads, session | load, run, stop, timer, shut down | three ways to end at once, a scenario replaced in a run | runs end and leave nothing running | `Emulation` |
| Older runner, its nodes, the bus | `runner.py`, `main.py`, `classes/node.py`, `classes/bus` | nodes to start, clocks | start with OK or NOK, count, shut down in vain | a list changed in the loop over it, nodes that are up late | all or none begin; nobody is passed over | `Startup` |
| Positions | `mobility`, `gen_node.py`, `virtual_gps.py`, `gps_logger.py` | CORE's node, node, GPS, rows | step, drag, ask, retry | three places set one after another | a logged position is one of a moment ago | `Positions` |
| A run's harness | `run_scenario.sh`, `generate_scenario.py`, `generate_node_config.py`, `collect_logs.py` | stage, node scripts, captures, logs | set up, run, collect, judge | time limits side by side, failures anywhere | no capture ends before its application; a run that counts has its logs | `Harness` |
| Captures | `process_pcaps.py`, `parse_network.py` | captures, rows, summary | process, delete, rename, total | a crash between any two | totals of all captures or none | `Pcaps` |
| Convergence | `parse_convergence.py`, the broadcast logs | event logs, monitor lines | log after the mutex, parse | order of lines against order of events | times that are not negative | `Convergence` |
| Degrees | `compute_degree_sample.py`, `plot_degree_ecdf.py` | union-find | unite, find, tabulate | path halving, union by size | components of the graph | `Degrees` |
| Campaigns | `expand_experiments.py`, `run_experiment.sh`, `parse_metrics.py`, `gera.sh`, `collect_all_results.py`, `aggregate_results.py` | variants, their directories, tables | expand, empty, run, give up, parse, collect, aggregate | campaigns given up, figures drawn in between | a variant's figures are of one campaign | `Results` |
| Mobility models, battery, prompts, plots, front end, docs | `pymobility`, `battery.py`, `plot_*.py`, `mace-vue`, `docs`, ... | – | – | – | – | not modelled |

Hazards, one by one at their lines with the properties that watch them, are in
`PROJECT.json`.

## Modules

`GCounter` is the counter the CRDT applications replicate. The C++ map is a
function on all replicas, an absent key being 0 (no operation enters a key with
value 0). `ReplicatedCounter` is the abstract specification: a node's own entry
grows by its own increments, and a node learns of the increments of others
without forgetting one or counting one that did not happen. All three protocols
are shown to implement it (`ImplementsCounter`), by the refinement mapping that
takes a node's counter for its view.

**Trickle.** `TrickleController` has the methods of the C++ class of that name,
each an operator from a controller state to the set of states it may leave (the
random tick is a choice). `TrickleTimer` drives one controller by ticks and
notes in any order, with history variables; `Trickle` composes one controller
per node with the three threads: `op` is the place of `run_random_mode`,
`timer` that of `trickle_timer_loop`, `recv` that of `recv_loop`. Actions are
cut where a thread releases `_gc_mutex` or the controller's `mu_`, so what a
thread decided under a lock may be stale when it acts on it: the repair in
`recv[n].repair` is built when the summary is compared and sent later, while
`SendPeriodic` and `SendRequest` take a fresh snapshot, as the code does.

**DeltaBroadcast** is both `crdt_broadcast` and `crdt_multiunicast`, which
differ in the destinations (`Peers`). `delta` is the delta that main holds
between `gc.inc` and `delta_buffer.join`. A datagram's loss is counted per link
(`lost`): these programs only have a number of repetitions against loss, so
convergence needs a bound on consecutive losses.

**Rapid** has one action per turn of each worker. `sure` is whether a queued
message's probability draw is certain to succeed; `NeighborCounts` is
everything the neighbour table is read for. `Repeats` lets `gen_id` give out a
number again, which the unsynchronised use of `_rng` by three threads allows
(`made` and `reused` tell which ones). One message carries at least one new
increment, so `Id` needs no more numbers than increments.

**Membership** is one node's list: `place`, `src`, `element` and `length` are
the listener in the middle of `_packet_handler`, `sweep`, `member` and `bound`
the scheduler's job in the middle of `_update_visible`. Every access to
`visible` is a step, since no lock guards it. `App` selects the stand-alone
Neighbourhood, whose refresh and sweep use different fields and whose listener
survives an exception. Ages are counted to one more than the timeout; nothing
tells greater ones apart. The other nodes are an environment (`Move`, `near`).

**Visibility** is the job that compares `visible` with `ever_visible`, the same
code in Local, the stand-alone application and four Paparazzi files. Each step
reads one pair of rows (`analysis`, `member`, `ever`); rows come and go in
between, and an index beyond the end ends the round (`IndexError`).

**FaultDetector** has one detector and the servers it asks. Each beacon, watch
of a suspicion and echo is a thread: `Slot` bounds how many threads of a peer
are under way, `watch` counts the threads by the step they are at. `Fast`
selects the class. A peer's `TcpPersistent` is its outcome: an answer, None, or
TIMEOUT only when the connection is refused. `raced` remembers a row that
`_refresh` removed after a beacon had made it fresh.

**UtmServer** is all servers and the one etcd. `job` has for each instance of the
write job the record it works on and its place between `get` and `put`
(`Ask`, `Put`); an etcd call may fail before or after its effect. `events` are
notifications on their way to each server's watch. **Inspections** is what the
servers promise together: a server that flew over a turbine claims to have
inspected it, only who claims a turbine writes its record, a claim is given up
only to a record, and what is marked or reported comes from the store. The
refinement mapping takes as a server's claims what it is about to record
(`uavFound`), what its `data_bank` has as its own or as not synchronized, and what
its jobs hold (`Claims`); marked are the records with status True (`Marked`).

**Transport** has the three classes, one at a time (`class`): the server's
`thread`, the `queue` of what waits, the connections in service (`serving`) and
the `bye` by which `stop` wakes the thread. A client may be cut off in the
middle, or fall silent (`"silent"`): no `recv` has a timeout, so the thread of
`TcpInterface`, which receives itself, is then `Held` until the client speaks
again (`Speak`), if it ever does.

**Traffic**, **SwarmConsensus**, **Offloading** are the applications' control: the
sender's loop against `CancelJob`; the round's iteration against the receiving
thread (`RoundRaises`); the campaign's loops against hellos that bring
neighbours and cloudlets that stop, or whose thread is in `recv` from a drone
whose link was cut (`CutShort`, `server = "partial"`). Directions are integers
scaled so that averages stay whole.

**Emulation** is a mace process from LOAD to the end of everything it started:
`run` is the place of `Emulator.run`, `shut` that of `_shutdown_nodes`, `live`
what runs. `Start` to `EndInDaemon` are its stages, `CheckRuntime`,
`StopRequest` and `Raise` the ways to its end.

**Startup** is the older runner with its node programs: `next` and
`nodesToStart` are the loop of `startNodes`, `state` each node's place in
`main.py`. No node ever ends: `Node` makes `Bus(self)` (`classes/node.py:66`),
the bus adds that tag to a string (`bus.py:64`, `:137`), `Node.shutdown` raises
before it sets `stop`, and the file the runner waits for is not written. So
`NodeShutdown` is an attempt that fails, and there is no action after it.

**Positions** numbers the mobility steps and uses the number as the position;
`corePos`, `nodePos` and `gpsPos` are the three places a step writes, `row` the
last row of a logger with, as history, the positions before and when it asked.

**Harness** is `run_scenario.sh` with the script of each node. `now` counts
seconds from the beginning of the scripts; `capUntil` and `appUntil` are the two
time limits. The scripts do not wait for the common start time: the dollar of
`${PYMACE_START_TS:-}` (`generate_scenario.py:157`) is not escaped, so the shell
around the script's own replaces it by nothing (`scenario.py:443` sets the
variable for the inner one only), and the test that guards the sleep fails. **Pcaps** is what follows with the
captures: rows written aside, deletion, two renames, a death anywhere
(`Die`). **Convergence**, **Degrees** and **Results** are the parsing of logs,
of positions and of whole campaigns; the first two run against a definition
of what the numbers should be (`ConvergenceMeasured`, `Component`). In
**Results** `script` is what `run_experiment.sh` is about (named `shell` in
`ProgramSuite`), `results` the directory of each variant, of which a campaign
first makes an empty one (`PrepareVariant`); `of` in a run, and the third
component of a row, is history: the campaign it comes from. A campaign may be
for some variants only, give up at a run that cannot be analysed, or be
interrupted; `gera.sh` (`Reparse`, `Collect`, `Aggregate`) draws figures from
whatever is there. `rm -rf` is one step, and a single run made by hand with
`run_scenario.sh`, into a directory that it does not empty, is left out.

**ProgramSuite** holds one instance of each of these modules and of
`TrickleTimer` side by side. A behaviour is of one of the programs in
`Programs`; the others' variables stay in one initial state. The programs do
not interact there: they are different processes, and what one leaves to the
next (logs, captures, directories) is an input of the next in all its variants.
The constants of the programs that are proved about are parameters of
`ProgramSuite` with named assumptions; **MCPrograms** has the values for them
that are not written in the configurations.

The MC modules hold the topologies and bounds the configurations use. Operators
whose comment starts with "Slip" are deliberately wrong variants of a
definition next to them: putting one in place of the original makes TLC report
the property it is aimed at, which shows that the property says something about
the code. They are not part of the specifications.

## Runs

| Run | Checked | What it shows |
|---|---|---|
| `TrickleSafety.cfg` | `CounterAgrees`, `ImplementsCounter` | with loss, reordering, duplication and a node that stops at any moment, what two nodes know is a replicated grow-only counter, and `gc` and `_known_state` stay equal |
| `TrickleConverges.cfg` | `OneDecision`, `Convergence` | two replicas converge although the timer suppresses summaries |
| `DeltaBroadcast.cfg` | `HandedOver`, `ImplementsCounter`, `Convergence` | no increment is lost between the two mutexes; convergence if no node stops and the budget covers the losses |
| `RapidNumbers.cfg` | `OneMeaning`, `ImplementsCounter` | even when numbers are given out twice, what is counted is true and never forgotten, and a number given out once means one payload everywhere |
| `RapidChain.cfg` | `Relayed`, `Convergence`, `CachedIsCounted` | over a lossy chain of three, a queued message is sent, and gossip and requests deliver what the relay's broadcast does not, also while the end of the chain forgets what it has cached; dropping what is cached drops no increment |
| `Membership.cfg` | `OneRow`, `Dropped`, `Found` | Local: the list is right although rows move under the listener's scan, as long as the listener lives |
| `MembershipListener.cfg` | `ListenerRuns`, violated | see findings |
| `MembershipRefresh.cfg` | `KeptWhileHeard` in Neighbourhood, violated | see findings |
| `FaultDetector.cfg` | `Tracked`, `FaultFound`, `AnswersFix`, `LeaderReported` | both detectors with the leader down, cut off and back: it stays in one of the lists, its failure is found and reported, and wrong suspicions are repaired |
| `Programs.cfg` | `ImplementsInspections`, `Synchronized` (UTM); `StopEndsThread`, `NeverStranded` (sockets); `SerialComplete`, `CampaignEnds` (offloading); `EmulationEnds`, `NothingLeftRunning`; `NobodyPassedOver`, `AllOrNone` (startup) | what is started ends unless somebody silent holds it, and what is recorded or reported is so |
| `Figures.cfg` | `JobCounts`, `Enclosed`, `LossesPaired`, `GpsFollows`, `OverheadWhole`, `ConvergenceMeasured`, `ComponentsRight`, `OneCampaignEach`, `CapturedToTheEnd`; `NewsDecidesNext` (Trickle's timer) | the figures are of what happened |
| `Analyzable.cfg` | `AnalyzableHasLogs`, violated | see findings |

### Bounds, and why they are enough

Every bound is a constant named in the module that uses it; the values are in
the configurations and, for the programs no theorem is about, in the
INSTANCEs of `ProgramSuite`.

* *Nodes.* Two for the pairwise exchange of Trickle and DeltaBroadcast: every
  hazard listed for them is between a sender and a receiver, or between threads
  of one node. Three in a chain for RAPID's relaying. One node with two
  neighbours for the list, the least with which a row can move up under a scan;
  the same for the report on neighbours. One server that fails and one whose
  echoes count for the detector: its lists never relate two peers. Two UTM
  servers over one turbine, two clients of a socket, two cloudlets, two nodes of the older runner, two nodes of which the second has a
  logger (a step that breaks off at the first never reaches it).
* *Increments* (`MaxOps`). Two on one node in `TrickleSafety`, so that repairs
  of two ages exist at the same time (`Buffer` admits two of them); three
  against one in `DeltaBroadcast`, so that an increment can be on its way to
  the buffer while the previous payload is being repeated and a third waits;
  two in `RapidNumbers`, the least with which a number can be given out again;
  one where the question is whether a message arrives.
* *Buffers.* A socket buffer holds one or two datagrams of a kind and drops the
  next one; as any datagram may be lost anyway, a greater one only adds
  interleavings of copies. `DeltaBroadcast` has no such bound: its inbox is a
  set, as joins make copies and order of deltas irrelevant to everything but
  the safety properties, which see every order.
* *Swarm.* Two nodes, `Divisor` = 2 and `MaxRounds` = 3: a second round uses
  what the first has sent, a third what a neighbour made of it; the headings are
  multiples of 8, so that three rounds stay whole. The code's k is 0.2; a greater
  one takes a turn to the edge of what the property admits with two nodes already.
* *Visitors.* Two, `MaxLosses` = 2: one can go and come back while the other is
  being compared. `MaxCount` = 1 and `MaxLines` = 3 let each of two nodes make an
  increment and log it on either side of the other's.
* *Interval* (`Imax`). One tick in `TrickleSafety`, where the timer only decides
  when summaries are sent and every order of summaries is wanted; 3 in
  `TrickleConverges` (a doubling and a capped doubling); 6 in the timer alone
  (1, 2, 4, 6).
* *Ageing caches* (`Expiry`). The last node of the chain in `RapidChain`: it
  forgets a message that the others still advertise, and fetches it again. None
  in `RapidNumbers`, whose question is what a number means. The theorems about
  RAPID are for any set of nodes with ageing caches.
* *Losses and failures.* `MaxLost` = `Budget` = 1 in `DeltaBroadcast`: the most
  losses the budget can make good. One of each kind (a flap of the network, an
  echo, a lost beacon, a disabled detector, an outage of etcd, a lost
  connection, a lost datagram) elsewhere: the properties that need an end of
  failures say so by their fairness, not by the bound.
* *Scenarios and times.* Two LOADs and one RUN, so that a LOAD meets a run; a run
  time of one second, before and after which everything else may happen; in
  `Harness` an application of one second and a cooldown of one; what is due in
  a second is done in it, and a script's first lines take at most one.
* *Campaigns.* Two, of one or two runs per variant, for any of three variants of
  which two have the same density: the second is for fewer or other variants or
  runs than the first, and either may be given up anywhere.
* *Graphs.* Four nodes on four places of a line with a range of one: trees of
  depth two, which paths halve, appear, and every set of positions is taken.
* *Time-out* of the neighbour list: 1 second, ages 0, 1 and "more".

No symmetry is declared: the bounds on increments and the topologies tell the
nodes apart.

Runs with `CHECK_DEADLOCK FALSE` are those in which nodes or programs stop, the
normal end; in the others a state without a successor would be an error.

### Fairness

* Threads: weak fairness per thread step. They are operating system threads
  that block only on a mutex held for a few statements, on a socket or in a
  sleep. No fairness on increments, on requests of an operator or on the end of
  a run by hand: nothing promises them. In the offloading application only the
  campaign's thread is needed; in `Startup` also the clock.
* Silence: none. A client that fell silent need not speak again (`Speak`), and a
  cut link need not come back (`LinkBack`). `StopEndsThread` and `CampaignEnds`
  therefore name the one case in which a thread waits for ever: `Held`, and a
  cloudlet that runs but does not read.
* Links: in Trickle and RAPID a datagram may always be lost, but if a kind of
  datagram is sent again and again over a link, some arrive (strong fairness of
  sending with that receiver among those who hear it). For the neighbour list,
  a neighbour that stays in range is heard again and again; so are Fast's
  beacons. In DeltaBroadcast, which repeats finitely
  often, the assumption is a number, `MaxLost`.
* RAPID's queue: weak fairness per message, as `pop_due` starts from the oldest
  entry each time.
* The detector's `Refresh`: strong, because each test of a peer comes back every
  second while beacons of the peer come in between.
* etcd comes back after an outage (weak fairness of `RegainEtcd`): without it
  nothing can be stored.

In `Programs.cfg` the fairness of a program is the premise of its liveness
properties, as each behaviour is of one of the programs.

## Findings

* **A deletion can end Local's listener.** `_listener` is documented to run "in
  infinite loop as long as the node is up" (`membership_sockets.py:121`).
  `_packet_handler` fixes its range before the scan (`:152`), the sweep in the
  scheduler's thread deletes a row, and the next `self.visible[element]` raises
  an IndexError that nothing catches. `MembershipListener.cfg` shows it with
  two rows. From then on the node hears no hello, and its neighbours leave its
  list one by one. `Found` in `Membership.cfg` therefore has this exception.
* **Neighbourhood drops neighbours it hears.** A hello refreshes element 2 of a
  row (`apps/membership/membership.py:162`, "refresh timestamp"; the prompt
  prints element 2 as "Last seen"), the sweep compares element 3 (`:213`), which
  is 0 since the row was made. Once the run is older than the timeout, every
  sweep deletes the first row. `MembershipRefresh.cfg` shows it.
* **A run without application logs is analyzable.** The harness "requires enough
  node logs for parsing" (`evaluation/README.md:54`), but counts the files that
  match `node_*.log` (`run_scenario.sh:158`), and so does `node_<id>.net.log`,
  which the script of a node writes before anything else. `Analyzable.cfg` shows
  a run in which the scripts begin, nothing else happens, and the run is
  analyzable and taken into the averages.

What TLC said of variants that are not runs of their own: in Neighbourhood
`Found` fails because of the second finding, and because a hello can lose its
scan to the sweep every time. If the origin of a message is in `Expiry`,
convergence fails in RAPID, as it must: a message that everybody's cache lost
after CACHE_TTL seconds is neither advertised nor fetched, and an increment that
no neighbour heard by then remains unknown until the next one of the same node,
whose delta is absolute.

### Observed while modelling

Read in the code and built into the models, without a run that is about them:

* Sockets: only a refused connection gives TIMEOUT; an expired timer or an early
  close gives None, which callers take for neither (`network_sockets.py:238`). So
  Simple never suspects a server that is out of reach. `TcpInterface` hands the
  previous payload on again when a connection brings nothing. The methods of
  `TcpPersistent` in `classes/network` are indented into `__init__`; the models
  take the class as its copies under `apps/` have it. `TcpInterface` receives in
  its server's thread without a timeout (`:404`, and `:269` in
  `apps/offloading`): one silent client holds it, against `stop()` as well.
* Broadcast: increments still in `delta_buffer` at the end are never sent. The
  monitors of three applications read `gc` without its mutex. In Trickle a
  comparison may be older than a reset by a local increment, and with k = 1
  silence the first announcement; the silence is bounded by Imax.
* RAPID: a gossip lists the first 50 entries of the cache in the table's order,
  perhaps the same ones each time.
* Daemon: `/emulator/run` compares a list with 0 and always answers ERROR; two
  RUNs at a time are not excluded (and not modelled).
* Older runner: its nodes never end, and neither does it (see `Startup`): the
  name of a node's bus is made of a string and a `Node`. What it starts in
  `createNodes` ends at its arguments, of which the fifth is to be an IP
  protocol. `main.py` imports `classes.apps`, which is missing.
* Positions: ATTRACTION never updates the GPS, whose rows stay valid at the first
  position; TRACE raises before its thread starts.
* Captures: empty ones are not deleted, though the condition names them; a rerun
  after `--delete` replaces the table by the rows of what is left.
* Results: `coverage_nodes.csv` is written before the test for analyzable, so
  capacity samples include runs that the results exclude; a `summary.csv` stays
  when no run is analyzable any more; variants whose short keys coincide share a
  directory; `parse_convergence` compares numbers of nodes, not which.
* Harness: a run may be `postprocessing_failed` and analyzable, against
  `evaluation/README.md:51`; `collect_logs.py` moves whatever lies in `reports/`
  over the run's own logs.
* Start time: no script waits for it (see `Harness`), so applications start when
  their scripts come up, and what is sent before tcpdump listens is in no
  capture. `CAPTURE_SEC` (`generate_scenario.py:92`) does not count a start delay either: were the
  dollar escaped, a delay of more than a second (5 and 30 in the scenarios) would
  cut the captures' ends off.
* DBRB: nobody is ever answered (see "Not modelled").

## Proofs

The theorems hold for every value of the constants that satisfies the named
assumptions below. They concern `Spec`, without fairness.

| Assumption | What it says | Why the code justifies it |
|---|---|---|
| `NodeAssumption`, `HostAssumption` | finitely many nodes, at least one for the CRDTs | a scenario lists its nodes |
| `SwarmAssumption` | finitely many nodes, no negative direction, `Divisor` > 0 | `random.uniform(0, 2 * math.pi)`; `k` is 0.2 |
| `ControllerAssumption`, `TimerAssumption` | K and Imax are positive | the configuration replaces 0 by the default |
| `TrickleAssumption`, `DeltaAssumption`, `RapidAssumption` | topologies and bounds have their types; RAPID's buffers and gossips hold an entry at least; no Trickle node hears itself | constants of the programs; `recv_loop` drops a node's own packets |
| `MembershipAssumption` | the node is no neighbour of itself; a natural timeout | the handler drops own hellos |
| `PeersAssumption` | finitely many servers; the sample is no greater than the servers it is drawn from; positive thresholds | `random.sample` raises otherwise |
| `UtmAssumption` | no server and no turbine is called like a status or the absence of one | in the code these are `True`, `False`, `None`, and identifiers are strings or numbers of their own |
| `VerticesAssumption` | a natural number of nodes in a sample of positions | rows of a file |
| `TrafficAssumption`, `OffloadingAssumption` | counts, sizes and repetitions are positive; finitely many cloudlets | jobs of the JSON files; a campaign asked for something |
| `PositionsAssumption`, `HarnessAssumption` | numbers of nodes, retries and seconds are natural; loggers are nodes | parameters of the scenario |
| `BufferAssumption` | a socket's buffer holds a datagram | a property of the operating system |
| `LoadsAssumption`, `OldAssumption` | numbers of scenarios and of nodes are natural | lists in the code |
| `PcapAssumption` | a run has captures, with different names | files of one directory |

**TrickleProofs.** `JoinIsSemilattice` and `JoinIsLeastUpperBound`: repeated and
reordered joins cannot matter, and join adds nothing of its own.
`TypeCorrect` and `DecidesOnce` come from one invariant, `TypeInv == TypeOK /\
OneDecision`: a controller's type alone is not inductive, because that a reset
or an advance leaves `elapsed` below `interval` depends on where the tx tick
lies. `InventsNothing`, `CountersAgree`, `ForgetsNothing` and `Refinement` come
from `SafeInv`, which adds to the types that `gc = known` and that every vector
in a socket or in a prepared repair is below the true counts. The properties
that runs check are not inductive on their own: what a repair brings into
`known` is true only because what was in the socket is. `KnownStep` sums up
what one step can do to `known` (nothing, one own increment, or learning true
entries); from it follow monotonicity and the refinement, whose abstract
`Learn` is witnessed by the new vector.

**DeltaProofs.** `IncrementsHandedOver`, `NoRelay`, `InventsNothing` and
`Refinement` from `IInv`, which has besides the properties an order,
`Ordered`: the own entry in the delta main still holds is newer than those in
`delta_buffer` and `last_payload`, and the one in a filled `delta_buffer` newer
than that in `last_payload`. Without it,
clearing the buffer or joining into it could bring back an older value and
`HandedOver` would not be inductive.

**RapidProofs.** `TypeCorrect`, `CachedCounted`, `NumbersMeanOne` and
`Refinement`, for any topology, numbers given out twice and caches that expire
anywhere. What a number means is a choice of the past that no variable keeps once
every copy is gone, so the invariant is existential: `IInv == \E M \in [Id ->
Counter] : Inv(M)`, where `M` is the payload each number got when it was given
out. `Carried(M)` says that whatever is in a cache, a queue, a socket or a
thread is true and, unless its number was given out again, what `M` says;
`Published` that a node's pending deltas are below its counter and that there
are at least as many increments as numbers given out or still due (so numbers
stay within `Id`). A step that publishes extends `M` at the new number, every
other one keeps it. `CachedIsCounted` is part of `Inv`: it needs the place of
each thread between caching a message and joining it.

**MembershipProofs.** `OneRowEach`, `SweepStaysInBounds` and `TypeCorrect`. The point is the scan: while the listener walks by index, the
sweep may remove a row before or behind it. `ScanInv` says that, if the list
has not become shorter than the scan's end, no row the scan has passed is the
sender's; if it has, the scan ends in an exception before it could append.
`AppendInv` is then that a node about to be appended has no row, and
`SweepInv` that the sweep, alone in deleting and done after one deletion, stays
within the list.

**DetectorProofs.** `PeersTracked`: the Fast detector keeps each server in one
of its lists, but one whose row was refreshed while `_refresh` was about to
remove it (`raced`), for any number of servers, beacons, suspicions and echoes at
a time. Between the row `_refresh` removes and the entry in `faulty` lie several
steps of two kinds of threads; `FastInv` is the chain between them. A silent
server is `Held`: in `faulty`, about to be, or waited for by a thread that the
suspicion keeps from giving up. `Declared`: a thread that drops the suspicion
has left its entry. `Suspected`: `_refresh` suspects before it removes.
`Missed`, the property itself, is inductive with these three.

`AlarmsHaveCause` is the other direction, for both detectors: a server that gave
no cause (`Unprovoked`) is not suspected, and keeps its row, whatever happens to
the others. A cause is a failure of its own or an echo by anybody; for Fast, which
knows servers by their beacons only, also a late beacon or time in which the node
did not listen. For Simple a lost answer is none: it gives `None`, not `TIMEOUT`.
`FairInv` says why: such a server has no thread that is past its answer with a
suspicion (`Trusted`), and none of the threads that the suspicions of others
start touches a row but that of its own server. An echo counts as a cause for
every server, because Simple also takes out of `running` the one who sent it.

**ProgramProofs.** Each program of `ProgramSuite` has an invariant over its own
variables, and a step of the suite is a step of the program or leaves them alone.

* `SyncedStored` (`UtmInv`): etcd never forgets, so a put that succeeded before
  the bank is marked still holds when it is, whoever wrote in between.
* `StoreImplemented`, `InspectionsKept` (`StoreInv`): the servers implement
  `Inspections`, so that no inspection is lost. What a job holds, and what the
  store names a server for, has a record in `data_bank`, and an event is of a
  turbine in the store; so an entry that the watch overwrites was not the last
  trace of an inspection. Every step changes one server's part of one turbine at
  most (`Touches`); what it does to the claim, the mark, the record and the report
  decides which abstract step it is (`IsClaim` to `IsStutter`).
* `StopWakesThread` (`SocketsInv`): once `stop()` has come to its `close()`, the
  server's thread has ended, has something to take up, the "bye" or what left
  no room for it, or is receiving from a connection it accepted: it does not
  wait in `accept` or `recvfrom` for something that is not there. A silent client
  may still hold it; the property says so.
* `ShutdownWhole` (`Settled`): a scenario whose emulation came to its loop and was
  then shut down has nothing running, and nothing comes back. What the shutdown
  has passed stays down, because only the runner's start brings parts up, and
  neither LOAD nor a later RUN returns to this scenario's.
* `AllTold` (`StartInv`): `createNodesCore` waits for the nodes' files only when
  each node has been told to start. The list holds the nodes that were not, each
  once, and the index the loop keeps while it shortens the list stays inside.
* `JobsCount` (`JobInv`): a job that can still be fired has packets left, and
  one about to be removed has none.
* `SerialWhole` (`SerialTurn`): the measurements of a size are those of the
  turns behind plus this turn's neighbours of the size that are neither waiting
  nor served. It needs that one connection is open at a time.
* `DirectionsEnclosed` (`SwarmInv`): not only the directions but also those
  heard, on the air and in a running round's copy stay between the least and the
  greatest at the start (`OnCourse`), as long as no node has heard of more than
  1/k others (`Few`). A node sums k times the difference to *each* neighbour, so
  with more a turn overshoots, and the code does not bound their number; the
  fleet may be of any size. Dictionaries only grow, so `Few` now means that every
  turn so far was among few.
* `LossesClosed` (`LossInv`): per node, losses counted over all its rows are the
  absences in the report plus those that last. The analysis walks two lists by
  index; the rows ever seen only grow, so its second index stays inside, wherever
  the visible ones go.

**EvaluationProofs.** In the same way:

* `NewsDecides` (`TimerInv`): the tick after news finds the shortest interval at
  its start, not sent, and as many summaries counted as were noted since.
* `CaptureWhole` (`Captured`): until a script's application ends, its capture
  is there or has had its time, which is a second longer than the application
  may take from its script's beginning.
* `GpsNotBehind` (`PositionsInv`): the three places a step writes differ by at
  most the step that is under way, and what a logger remembers lies behind them.
* `FiguresOfOneCampaign` (`ResultsInv`): all that lies in a variant's directory is
  of one campaign (`DirOf`), that of the moment while its runs are made, because
  the directory was emptied first; the tables are brought together when those
  of the last time are gone and no campaign runs.
* `WholeOverhead` (`PcapsInv`): rows written and captures to do are together
  what the processing found, and a capture that is gone has its row already.
* `TimesMeasured` (`TimesInv`): `Known`: what a node knows of another is at most
  what that one has sent, hence logged or about to be buffered after the log
  line. `Timed`: a logged total that contains every increment was read when the
  others had logged theirs, so its line comes after their lines; a node on its own
  logs the increment first. `Covered`: what a node knows is in its log or about to
  be. The times parse_convergence computes follow: the greatest increment comes
  before the moment the last node reaches the ground truth.
* `ComponentsFound` (`GraphInv`): the sets that `compute_degree_sample.py` finds
  are the components of the graph. `Forest`: a node's parent is itself or heads
  a larger tree, so sizes grow on the way up and `find` is at a root after at
  most as many rounds as there are nodes, while it halves the paths it walks.
  `Grouped`: two nodes have one root exactly if no set closed under the edges
  united so far separates them. At the end all edges are united, and the roots,
  which the tables count, are as many as the components; a root's size is that
  of its class.

**Sums.** `SumFunction` of the community modules folds a finite function in an
order that `CHOOSE` picks, through recursion. Induction theorems that take a
predicate as a parameter cannot be instantiated by the provers, so the module proves
what is needed by two first-order principles (`SetOfNat`, `SetOfSubsets`): a set
that has each element whose predecessors it has is everything, because a minimal
counterexample would be one. From them: the fold is defined, is an
integer, does not depend on the order, changes with one value as sums do
(`SumExtended`, `SumChanged`), is monotone (`SumMonotone`, and `SumEqual` for
the case of equality) and bounded (`SumBounded`, `SumAtLeast`); finite sets of
integers have extremes.

**Model-checked only.** All liveness: fairness and ENABLED are out of the
proof system's reach. Every invariant and every action property or refinement
that a passing run checks is a theorem. Of `StopEndsThread`
and `NothingLeftRunning`, which are liveness, the safety they rest on is proved
(`StopWakesThread`, `ShutdownWhole`). The runs that find violations have no theorem. No theorem has
hypotheses beyond the assumptions above. `TypeOK` of Trickle, Rapid and of Membership, and the
bound on the sweep's index, are proved and therefore not run.

## What is abstracted

Packet layout, serialisation, wording, statistics and the monitor threads are
left out of the CRDT modules, except what `Convergence` needs of broadcast's
logs. The monitors' unlocked reads are a data race whose outcome C++ leaves
open; they write nothing. Intervals in seconds are not modelled except where two
of them meet (`Harness`, `Startup`): elsewhere every timer may fire at any time,
which includes all real schedules. Floating point is replaced by integers that
stay whole (`SwarmConsensus`) or left out (averages, confidence intervals,
positions).

### Not modelled

* Class Global keeps a list of servers that never changes. Class DBRB never gets an
  answer: `UdpInterface.run` calls its handler with three arguments
  (`network_sockets.py:510`), `_discover_handler` takes two
  (`membership_sockets.py:600`), and the TypeError is passed over. A model of what
  the handler was to do would not be of this program.
* The other types of the CRDT library: no program instantiates them. Of those
  read, `lwwreg` keeps both replicas' values apart for ever if they write with
  the same time stamp.
* `pymobility` (vendored random processes), the battery's linear discharge, the
  plots, the shell wrappers around the modelled scripts, prompts, tracers beyond
  their life cycle, the Vue front end and the documentation: numeric code, input
  and output, without state that several actors share.
* Drivers of the operator's page (`hmiAPI.py`, `infraClass.py`,
  `networkEmulator.py`) and `classes/runner/deprecated`, which the repository
  keeps for reference.
* CORE, etcd, apscheduler, tcpdump, tshark and the operating system are external:
  their part is an action or a choice in the modules that use them.

## What is left

An abstract detector that `FaultDetector` implements has not been written: what
would be said of it beyond `Tracked` and `NoFalseAlarm` is liveness. The types of the CRDT library
that no program uses could be models of their own.
