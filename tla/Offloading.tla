------------------------------ MODULE Offloading ------------------------------
(* The offloading application (apps/offloading/offloading.py).  A drone       *)
(* learns its neighbours from their answers to its hello; from the prompt it  *)
(* runs a campaign of partitions, in each of which every neighbour is sent a  *)
(* payload rep times, one after the other (soff) or all at once (poff).       *)
(* Each node serves one connection after the other, without a timeout: a      *)
(* drone whose link is cut in the middle of its payload holds a cloudlet.     *)
EXTENDS Integers, FiniteSets

CONSTANTS
  Cloudlet,   \* the other nodes
  Sizes,      \* the payload sizes a partition may draw
  Rep,        \* repetitions of a campaign the prompt may ask for
  Partitions, \* partitions of a campaign: 3 tests of 5 in the code
  MaxCuts     \* other drones that break off in the middle of a payload (a bound)

VARIABLES
  started,    \* start(): the interfaces run before myip is known
  neighbours, \* the dictionary's keys
  campaign,   \* "prompt", "draw", "offload" or "report"
  mode,       \* "serial" or "parallel"
  rep, partition, turn,  \* the loops' counters
  size,       \* the sizes drawn, one per neighbour then known; 0 if none
  todo,       \* the neighbours not yet offloaded to in this turn
  reps,       \* measurements of each size
  sending,    \* the connections of this drone that are not finished
  up,         \* the cloudlets that run
  server,     \* their threads: "loop", "partial" (in recv() from a drone whose
              \* link was cut: nothing arrives, not even the end), "ended"
  cuts,
  lock        \* max_runtime has not expired

offloadVars == <<started, neighbours, campaign, mode, rep, partition, turn, size,
                 todo, reps, sending, up, server, cuts, lock>>
loops == <<mode, rep, partition, turn, size, todo, reps>>

Init ==
  /\ started = FALSE /\ neighbours = {}
  /\ campaign = "prompt" /\ mode = "serial" /\ rep = 1 /\ partition = 0 /\ turn = 0
  /\ size = [c \in Cloudlet |-> 0] /\ todo = {} /\ reps = [z \in Sizes |-> 0]
  /\ sending = {}
  /\ up = Cloudlet /\ server = [c \in Cloudlet |-> "loop"] /\ cuts = 0 /\ lock = TRUE

-----------------------------------------------------------------------------
\* start() ends by asking for myip; until then _handle_cloudlet_state_packet
\* raises for the want of it, and the packet is lost.
LearnMyIp ==
  /\ ~started /\ started' = TRUE
  /\ UNCHANGED <<neighbours, campaign, loops, sending, up, server, cuts, lock>>

\* _broadcast_hello, the neighbour's _handle_hello_packet and _send_state, and
\* _handle_cloudlet_state_packet, as far as nothing is lost.  No neighbour is
\* ever taken out.
HandleCloudletState(c) ==
  /\ started /\ lock /\ c \in up
  /\ neighbours' = neighbours \cup {c}
  /\ UNCHANGED <<started, campaign, loops, sending, up, server, cuts, lock>>

-----------------------------------------------------------------------------
\* _prompt: "soff [n]" and "poff [n]".
Prompt(n, how) ==
  /\ campaign = "prompt" /\ started
  /\ campaign' = "draw" /\ mode' = how /\ rep' = n /\ partition' = 1
  /\ UNCHANGED <<started, neighbours, turn, size, todo, reps, sending, up, server, cuts, lock>>

\* The sizes of a partition, as many as there are neighbours.
DrawSizes ==
  /\ campaign = "draw"
  /\ \E drawn \in [neighbours -> Sizes] :
       size' = [c \in Cloudlet |-> IF c \in neighbours THEN drawn[c] ELSE 0]
  /\ reps' = [z \in Sizes |-> 0] /\ turn' = 1 /\ todo' = neighbours
  /\ campaign' = "offload"
  /\ UNCHANGED <<started, neighbours, mode, rep, partition, sending, up, server, cuts, lock>>

Drawn == {c \in Cloudlet : size[c] # 0}
\* A neighbour that came meanwhile has no size (IndexError), or changed the
\* dictionary under the loop (RuntimeError): _prompt prints "Malformed command".
\* The parallel loop only prepares threads: nothing it does afterwards raises.
Grown ==
  /\ neighbours # Drawn
  /\ mode = "serial" \/ todo # {} \/ turn < rep

\* The connection is refused, or the loop raises: the campaign is over.
Abort ==
  /\ campaign = "offload" /\ sending = {}
  /\ Grown \/ (mode = "serial" /\ \E c \in todo : c \notin up)
  /\ campaign' = "prompt"
  /\ UNCHANGED <<started, neighbours, loops, sending, up, server, cuts, lock>>

\* offload: one connection, whose payload goes out in pieces.
Offload(c) ==
  /\ campaign = "offload" /\ mode = "serial" /\ sending = {} /\ ~Grown
  /\ c \in todo /\ c \in up
  /\ sending' = {c} /\ todo' = todo \ {c}
  /\ UNCHANGED <<started, neighbours, campaign, mode, rep, partition, turn, size, reps, up, server, cuts, lock>>

\* poffload: all threads at once; one that is refused dies without a trace.
ParallelOffload ==
  /\ campaign = "offload" /\ mode = "parallel" /\ ~Grown
  /\ todo # {} /\ sending = {}
  /\ sending' = todo \cap up /\ todo' = {}
  /\ UNCHANGED <<started, neighbours, campaign, mode, rep, partition, turn, size, reps, up, server, cuts, lock>>

\* The last piece is handed over: the time is noted under the size.
Noted(c) ==
  /\ c \in sending /\ c \in up
  /\ sending' = sending \ {c}
  /\ reps' = [reps EXCEPT ![size[c]] = @ + 1]
  /\ UNCHANGED <<started, neighbours, campaign, mode, rep, partition, turn, size, todo, up, server, cuts, lock>>

\* The cloudlet reads the payload, as it does while its thread is in the loop.
Measured(c) == server[c] = "loop" /\ Noted(c)

\* Nobody reads it, and it is small enough for the buffers of the two kernels.
Buffered(c) == server[c] # "loop" /\ Noted(c)

\* Slip: a connection that breaks is opened anew, for ever.
ResetAgain(c) ==
  /\ c \in sending /\ c \notin up
  /\ UNCHANGED offloadVars

\* The cloudlet has stopped: sendall raises, which ends a serial campaign.
Reset(c) ==
  /\ c \in sending /\ c \notin up
  /\ sending' = sending \ {c}
  /\ campaign' = IF mode = "serial" THEN "prompt" ELSE campaign
  /\ UNCHANGED <<started, neighbours, loops, up, server, cuts, lock>>

\* Slip: the next turn begins with the neighbours that are left of the last.
TurnKeepsTodo ==
  /\ campaign = "offload" /\ todo = {} /\ sending = {} /\ ~Grown
  /\ turn < rep /\ turn' = turn + 1
  /\ todo' = {c \in Drawn : FALSE}
  /\ UNCHANGED <<started, neighbours, campaign, mode, rep, partition, size, reps, sending, up, server, cuts, lock>>

\* for i in range(rep)
NextTurn ==
  /\ campaign = "offload" /\ todo = {} /\ sending = {} /\ ~Grown
  /\ turn < rep /\ turn' = turn + 1
  /\ todo' = neighbours
  /\ UNCHANGED <<started, neighbours, campaign, mode, rep, partition, size, reps, sending, up, server, cuts, lock>>

TurnsDone ==
  /\ campaign = "offload" /\ todo = {} /\ sending = {} /\ ~Grown
  /\ turn = rep
  /\ campaign' = "report"
  /\ UNCHANGED <<started, neighbours, loops, sending, up, server, cuts, lock>>

\* With two sizes or more every size needs two measurements for stdev(), which
\* raises otherwise and ends the campaign.
NoDeviation ==
  /\ Cardinality({z \in Sizes : reps[z] > 0}) > 1
  /\ \E z \in Sizes : reps[z] = 1

\* _serial_offload writes the measurements down and goes on to the next partition.
ReportSerial ==
  /\ campaign = "report" /\ mode = "serial"
  /\ IF NoDeviation \/ partition = Partitions
     THEN campaign' = "prompt" /\ UNCHANGED partition
     ELSE campaign' = "draw" /\ partition' = partition + 1
  /\ UNCHANGED <<started, neighbours, mode, rep, turn, size, todo, reps, sending, up, server, cuts, lock>>

\* _parallel_offload likewise.
ReportParallel ==
  /\ campaign = "report" /\ mode = "parallel"
  /\ IF NoDeviation \/ partition = Partitions
     THEN campaign' = "prompt" /\ UNCHANGED partition
     ELSE campaign' = "draw" /\ partition' = partition + 1
  /\ UNCHANGED <<started, neighbours, mode, rep, turn, size, todo, reps, sending, up, server, cuts, lock>>

-----------------------------------------------------------------------------
\* TcpInterface.run of a cloudlet, which another drone sends a payload.  One that
\* is closed in the middle gets the return in the middle of the loop, which ends
\* the thread while the socket listens on; one whose link is cut leaves the
\* thread in recv(), which has no timeout.  (One that is reset raises, and the
\* loop goes on.)
CutShort(c) ==
  /\ c \in up /\ server[c] = "loop" /\ cuts < MaxCuts
  /\ \E left \in {"partial", "ended"} : server' = [server EXCEPT ![c] = left]
  /\ cuts' = cuts + 1
  /\ UNCHANGED <<started, neighbours, campaign, loops, sending, up, lock>>

\* The cut link is back: the rest arrives or a reset, or the connection is closed.
LinkBack(c) ==
  /\ server[c] = "partial"
  /\ \E left \in {"loop", "ended"} : server' = [server EXCEPT ![c] = left]
  /\ UNCHANGED <<started, neighbours, campaign, loops, sending, up, cuts, lock>>

\* A cloudlet's program ends.
StopCloudlet(c) ==
  /\ c \in up /\ up' = up \ {c}
  /\ server' = [server EXCEPT ![c] = "ended"]
  /\ UNCHANGED <<started, neighbours, campaign, loops, sending, cuts, lock>>

\* _checkruntime: hellos and answers stop; the prompt's thread goes on.
CheckRuntime ==
  /\ lock /\ lock' = FALSE
  /\ UNCHANGED <<started, neighbours, campaign, loops, sending, up, server, cuts>>

-----------------------------------------------------------------------------
Campaign ==
  \/ DrawSizes \/ Abort \/ ParallelOffload \/ NextTurn \/ TurnsDone
  \/ ReportSerial \/ ReportParallel
  \/ \E c \in Cloudlet : Offload(c) \/ Measured(c) \/ Reset(c)

Next ==
  \/ LearnMyIp \/ Campaign \/ CheckRuntime
  \/ \E n \in Rep, how \in {"serial", "parallel"} : Prompt(n, how)
  \/ \E c \in Cloudlet : HandleCloudletState(c) \/ Buffered(c) \/ CutShort(c) \/ LinkBack(c) \/ StopCloudlet(c)

\* The prompt's thread, and those of the cloudlets, run on; a link that is cut
\* need not come back.
Fairness == WF_offloadVars(Campaign)

Spec == Init /\ [][Next]_offloadVars /\ Fairness

\* A campaign ends, written down or given up, whoever comes and stops meanwhile.
\* Only a cloudlet that never reads what it is sent holds it for ever: it runs
\* and its socket listens, but its thread has ended or waits for another drone.
CampaignEnds ==
  (campaign # "prompt")
    ~> (campaign = "prompt" \/ [](\E c \in sending \cap up : server[c] # "loop"))

\* What a serial campaign writes down is complete: every neighbour it drew a size
\* for was sent its payload in every turn, although neighbours come and cloudlets
\* stop at any time.
SerialComplete ==
  campaign = "report" /\ mode = "serial" =>
    \A z \in Sizes : reps[z] = rep * Cardinality({c \in Cloudlet : size[c] = z})
=============================================================================
