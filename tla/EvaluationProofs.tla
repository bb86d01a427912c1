--------------------------- MODULE EvaluationProofs ---------------------------
(***************************************************************************)
(* What the timer on its own and the programs around an experiment promise *)
(* for every value of their constants, as in ProgramProofs.                *)
(***************************************************************************)
EXTENDS ProgramSuite, SequenceTheorems, FiniteSetTheorems, Sums, TLAPS

-----------------------------------------------------------------------------
(* TrickleTimer.                                                           *)

ControllerType == [interval : Int, elapsed : Int, tx : Int, count : Int, sent : BOOLEAN]

LEMMA FreshController ==
  ASSUME NEW i \in Int, NEW d \in Timer!Fresh(i)
  PROVE  d \in ControllerType /\ d.count = 0 /\ d.elapsed = 0 /\ ~d.sent /\ (i = 1 => d.tx = 0)
  <1>1. PICK t \in (i \div 2) .. (i - 1) :
          d = [interval |-> i, elapsed |-> 0, tx |-> t, count |-> 0, sent |-> FALSE]
    BY DEF Timer!Fresh, Timer!TxTicks
  <1>2. t \in Int /\ (i = 1 => t = 0)
    BY <1>1
  <1>3. QED
    BY <1>1, <1>2 DEF ControllerType

\* The history counts what the controller counts, and a tick after news finds the
\* shortest interval at its beginning.
TimerInv ==
  /\ ctl \in ControllerType
  /\ equal \in Nat
  /\ ctl.count = equal
  /\ news => ~ctl.sent /\ ctl.elapsed = 0 /\ ctl.tx = 0

LEMMA TimerStep == [Next]_vars => [Timer!TimerNext]_timerVars
  BY DEF Next, Others, vars

LEMMA TimerInit == Init => TimerInv
  <1> SUFFICES ASSUME Init PROVE TimerInv
    OBVIOUS
  <1>1. ctl \in Timer!Fresh(1) /\ equal = 0 /\ news = FALSE
    BY DEF Init, Timer!TimerInit, Timer!Initial, Timer!Imin
  <1>2. QED
    BY <1>1, FreshController DEF TimerInv

LEMMA TimerKeeps == TimerInv /\ [Timer!TimerNext]_timerVars => TimerInv'
  <1> SUFFICES ASSUME TimerInv, [Timer!TimerNext]_timerVars PROVE TimerInv'
    OBVIOUS
  <1>1. ASSUME Timer!TimerTick PROVE TimerInv'
    <2> DEFINE d == [ctl EXCEPT !.sent = IF Timer!Decides(ctl) THEN TRUE ELSE @, !.elapsed = @ + 1]
    <2>1. /\ d \in ControllerType
          /\ d.count = ctl.count /\ d.elapsed = ctl.elapsed + 1 /\ d.interval = ctl.interval
      <3>1. CASE Timer!Decides(ctl)
        <4> DEFINE x == [ctl EXCEPT !.sent = TRUE]
        <4>1. x \in ControllerType
          BY DEF TimerInv, ControllerType
        <4>2. x.count = ctl.count /\ x.elapsed = ctl.elapsed /\ x.interval = ctl.interval
          BY DEF TimerInv, ControllerType
        <4>3. d = [x EXCEPT !.elapsed = x.elapsed + 1]
          BY <3>1, <4>2 DEF TimerInv, ControllerType
        <4> HIDE DEF d, x
        <4>4. d \in ControllerType
          BY <4>1, <4>3 DEF ControllerType
        <4>5. d.count = x.count /\ d.elapsed = x.elapsed + 1 /\ d.interval = x.interval
          BY <4>1, <4>3 DEF ControllerType
        <4>6. QED
          BY <4>2, <4>4, <4>5
      <3>2. CASE ~Timer!Decides(ctl)
        <4>1. d = [ctl EXCEPT !.elapsed = ctl.elapsed + 1]
          BY <3>2 DEF TimerInv, ControllerType
        <4> HIDE DEF d
        <4>2. QED
          BY <4>1 DEF TimerInv, ControllerType
      <3>3. QED
        BY <3>1, <3>2
    <2>2. CASE ctl.elapsed + 1 >= ctl.interval
      <3>1. ctl' \in Timer!Fresh(Timer!Doubled(ctl.interval))
        BY <1>1, <2>1, <2>2 DEF Timer!TimerTick, Timer!Ticked, Timer!Advance
      <3>2. Timer!Doubled(ctl.interval) \in Int
        BY TimerAssumption DEF Timer!Doubled, TimerInv, ControllerType
      <3>3. ctl' \in ControllerType /\ ctl'.count = 0
        BY <3>1, <3>2, FreshController
      <3>4. QED
        BY <1>1, <2>2, <3>3 DEF Timer!TimerTick, TimerInv
    <2>3. CASE ~(ctl.elapsed + 1 >= ctl.interval)
      <3>1. ctl' = d
        BY <1>1, <2>1, <2>3 DEF Timer!TimerTick, Timer!Ticked
      <3> HIDE DEF d
      <3>2. QED
        BY <1>1, <2>1, <2>3, <3>1 DEF Timer!TimerTick, TimerInv
    <2>4. QED
      BY <2>2, <2>3
  <1>2. ASSUME Timer!TimerConsistent PROVE TimerInv'
    BY <1>2, TimerAssumption DEF Timer!TimerConsistent, Timer!NotedConsistent, TimerInv, ControllerType
  <1>3. ASSUME Timer!TimerNews PROVE TimerInv'
    <2>1. ctl' \in Timer!Fresh(1)
      BY <1>3 DEF Timer!TimerNews, Timer!Reset, Timer!Imin
    <2>2. QED
      BY <1>3, <2>1, FreshController DEF Timer!TimerNews, TimerInv
  <1>4. CASE UNCHANGED timerVars
    BY <1>4 DEF timerVars, TimerInv
  <1>5. QED
    BY <1>1, <1>2, <1>3, <1>4 DEF Timer!TimerNext

\* News is announced or silenced at the very next tick, whatever the threads note
\* in between, and only summaries noted after it can silence it.
THEOREM NewsDecides == Spec => []NewsDecidesNext
  <1>1. TimerInv => NewsDecidesNext
    BY TimerAssumption DEF TimerInv, NewsDecidesNext, Timer!NewsDecidesNext, Timer!Decides, Timer!Action
  <1>2. QED
    BY <1>1, TimerInit, TimerStep, TimerKeeps, PTL DEF Spec

-----------------------------------------------------------------------------
(* Harness.                                                                *)

\* Until a script's application ends, its capture is there or has had its time,
\* which runs a second longer than the application may.
Captured(n) ==
  /\ script[n] \in {"begun", "app"} =>
       /\ capUntil[n] = Duration + Cooldown + 1
       /\ capture[n] \in {"starting", "running"} \/ now >= capUntil[n]
  /\ script[n] = "begun" => now <= 1
  /\ script[n] = "app" => appUntil[n] <= 1 + Duration + Cooldown
  /\ ~missed[n]

HarnessInv ==
  /\ now \in Nat
  /\ script \in [Host -> {"none", "begun", "app", "waiting", "done", "killed"}]
  /\ capture \in [Host -> {"none", "starting", "running", "whole", "cut", "empty"}]
  /\ capUntil \in [Host -> Nat] /\ appUntil \in [Host -> Nat]
  /\ missed \in [Host -> BOOLEAN]
  /\ \A n \in Host : Captured(n)

LEMMA HarnessStep == [Next]_vars => [Experiment!Next]_harnessVars
  BY DEF Next, Others, vars

LEMMA HarnessInit == Init => HarnessInv
  BY DEF Init, Experiment!Init, HarnessInv, Captured

LEMMA HarnessKeeps == HarnessInv /\ [Experiment!Next]_harnessVars => HarnessInv'
  <1> SUFFICES ASSUME HarnessInv, [Experiment!Next]_harnessVars PROVE HarnessInv'
    OBVIOUS
  <1> USE HarnessAssumption DEF HarnessInv, Captured, Experiment!scriptVars
  <1>1. ASSUME Experiment!GenerateScenario \/ Experiment!GenerateNodeConfig PROVE HarnessInv'
    BY <1>1 DEF Experiment!GenerateScenario, Experiment!GenerateNodeConfig
  <1>2. ASSUME NEW n \in Host, Experiment!CustomApplication(n) PROVE HarnessInv'
    BY <1>2 DEF Experiment!CustomApplication, Experiment!CaptureSec
  <1>3. ASSUME NEW n \in Host, Experiment!Listens(n) \/ Experiment!BeginApp(n) PROVE HarnessInv'
    BY <1>3 DEF Experiment!Listens, Experiment!BeginApp
  <1>4. ASSUME NEW n \in Host, Experiment!Send(n) PROVE HarnessInv'
    <2>1. capture[n] # "whole"
      BY <1>4 DEF Experiment!Send
    <2>2. missed' = missed
      BY <1>4, <2>1 DEF Experiment!Send
    <2>3. QED
      BY <1>4, <2>2 DEF Experiment!Send
  <1>5. ASSUME NEW n \in Host, Experiment!WriteLog(n) \/ Experiment!AppEnds(n) PROVE HarnessInv'
    BY <1>5 DEF Experiment!WriteLog, Experiment!AppEnds
  <1>6. ASSUME NEW n \in Host, Experiment!CaptureEnds(n) \/ Experiment!ScriptEnds(n) PROVE HarnessInv'
    BY <1>6 DEF Experiment!CaptureEnds, Experiment!ScriptEnds
  <1>7. ASSUME Experiment!Tick PROVE HarnessInv'
    BY <1>7 DEF Experiment!Tick
  <1>8. ASSUME Experiment!EmulationOver PROVE HarnessInv'
    BY <1>8 DEF Experiment!EmulationOver
  <1>9. ASSUME Experiment!CollectLogs \/ Experiment!Finish PROVE HarnessInv'
    BY <1>9 DEF Experiment!CollectLogs, Experiment!Finish
  <1>10. CASE UNCHANGED harnessVars
    BY <1>10 DEF harnessVars
  <1>11. QED
    BY <1>1, <1>2, <1>3, <1>4, <1>5, <1>6, <1>7, <1>8, <1>9, <1>10
    DEF Experiment!Next, Experiment!NodeScript

\* No capture ends before its application, for any number of nodes and any times,
\* in whatever order the scripts begin, fail and are ended.
THEOREM CaptureWhole == Spec => []CapturedToTheEnd
  <1>1. HarnessInv => CapturedToTheEnd
    BY DEF HarnessInv, Captured, CapturedToTheEnd, Experiment!CapturedToTheEnd
  <1>2. QED
    BY <1>1, HarnessInit, HarnessStep, HarnessKeeps, PTL DEF Spec

-----------------------------------------------------------------------------
(* Positions, in a random model.                                           *)

\* A node and its GPS agree but for the moment between the two assignments of a
\* step, when the GPS has what the node had before.
GpsNear(n) ==
  /\ nodePos[n] \in -1 .. mstep /\ gpsPos[n] \in -1 .. mstep /\ before[n] <= gpsPos[n]
  /\ nodePos[n] # -1 => gpsPos[n] # -1
  /\ at.node = n /\ at.next = "gps" => nodePos[n] = mstep /\ before[n] = gpsPos[n]
  /\ ~(at.node = n /\ at.next = "gps") => gpsPos[n] = nodePos[n]
  /\ at.node = n /\ at.next = "trace" => nodePos[n] = mstep

\* What a logger remembers of the beginning of its poll, and its last row.
PollNear(n) ==
  /\ poll[n].since <= gpsPos[n]
  /\ poll[n].from # -1 => gpsPos[n] # -1
  /\ row[n].ok = 1 => row[n].since <= row[n].pos /\ row[n].pos <= mstep
  /\ row[n].answered /\ row[n].from # -1 => row[n].ok = 1

TurnType == [node : Nat, next : {"none", "core", "node", "gps", "trace"}]
PollType == [phase : {"idle", "try", "asked"}, tries : Int, from : Int, since : Int]
RowType == [ok : {0, 1}, pos : Int, from : Int, since : Int, answered : BOOLEAN]

PositionsInv ==
  model = "random" =>
    /\ mstep \in Nat
    /\ at \in TurnType
    /\ nodePos \in [Where!Node -> Int] /\ gpsPos \in [Where!Node -> Int]
    /\ before \in [Where!Node -> Int]
    /\ poll \in [Where!Node -> PollType] /\ row \in [Where!Node -> RowType]
    /\ moving \/ at.next # "none" => \A n \in Where!Node : nodePos[n] # -1
    /\ \A n \in Where!Node : GpsNear(n) /\ PollNear(n)

LEMMA PositionsStep == [Next]_vars => [Where!Next]_positionsVars
  BY DEF Next, Others, vars

LEMMA PositionsInit == Init => PositionsInv
  BY DEF Init, Where!Init, Where!NoTurn, Where!NoPoll, Where!NoRow, Where!Unset, PositionsInv,
         TurnType, PollType, RowType, GpsNear, PollNear

LEMMA PositionsKeeps == PositionsInv /\ [Where!Next]_positionsVars => PositionsInv'
  <1> SUFFICES ASSUME PositionsInv, [Where!Next]_positionsVars, model' = "random"
               PROVE  PositionsInv'
    BY DEF PositionsInv
  <1>0. model = "random"
    BY DEF Where!Next, positionsVars, Where!StartMobility, Where!NextPositions, Where!SetCore,
       Where!CoreRaises, Where!SetNode, Where!SetGps, Where!UpdatePosition,
       Where!ShutdownMobility, Where!ResetPos, Where!StartGps, Where!FirstPosition,
       Where!AutopilotMoves, Where!UpdatePos, Where!Listen, Where!Answer, Where!ShutdownGps,
       Where!Close, Where!PollOnce, Where!Ask, Where!TryFails, Where!NoPosition
  <1> USE <1>0 DEF PositionsInv, GpsNear, PollNear, Where!posVars, Where!sockVars, Where!logVars,
                   Where!Unset
  <1>1. ASSUME UNCHANGED <<mstep, at, nodePos, gpsPos, before, poll, row>>,
               moving' => moving \/ \A n \in Where!Node : nodePos[n] # -1
        PROVE  PositionsInv'
    BY <1>1
  <1>2. ASSUME Where!StartMobility \/ Where!ShutdownMobility \/ Where!ResetPos PROVE PositionsInv'
    BY <1>1, <1>2 DEF Where!StartMobility, Where!ShutdownMobility, Where!ResetPos
  <1>3. ASSUME NEW n \in Where!Node,
               \/ Where!StartGps(n) \/ Where!UpdatePos(n) \/ Where!Listen(n)
               \/ Where!ShutdownGps(n) \/ Where!Close(n)
        PROVE  PositionsInv'
    BY <1>1, <1>3
    DEF Where!StartGps, Where!UpdatePos, Where!Listen, Where!ShutdownGps, Where!Close
  <1>4. ASSUME Where!NextPositions PROVE PositionsInv'
    <2>1. /\ at.next = "none" /\ at' \in TurnType /\ at'.next = "core"
          /\ mstep \in Nat /\ mstep' = mstep + 1
          /\ \A k \in Where!Node : nodePos[k] # -1
          /\ UNCHANGED <<nodePos, gpsPos, before, poll, row>>
      BY <1>4 DEF Where!NextPositions, Where!NoTurn, TurnType
    <2>2. ASSUME NEW k \in Where!Node
          PROVE  GpsNear(k) /\ PollNear(k) /\ nodePos[k] \in Int /\ gpsPos[k] \in Int /\ row[k].pos \in Int
      BY DEF RowType
    <2>3. ASSUME NEW k \in Where!Node PROVE GpsNear(k)' /\ PollNear(k)'
      BY <2>1, <2>2
    <2>4. QED
      BY <2>1, <2>3
  <1>5. ASSUME Where!SetCore \/ Where!CoreRaises PROVE PositionsInv'
    BY <1>5 DEF Where!SetCore, Where!CoreRaises, Where!NoTurn, TurnType
  <1>6. ASSUME Where!SetNode PROVE PositionsInv'
    <2>1. /\ at.next = "node" /\ at' \in TurnType /\ at'.next = "gps" /\ at'.node = at.node
          /\ UNCHANGED <<mstep, gpsPos, poll, row>>
      BY <1>6 DEF Where!SetNode, TurnType
    <2>2. /\ nodePos' \in [Where!Node -> Int] /\ before' \in [Where!Node -> Int]
          /\ \A k \in Where!Node :
               /\ nodePos'[k] = IF k = at.node THEN mstep ELSE nodePos[k]
               /\ before'[k] = IF k = at.node THEN nodePos[k] ELSE before[k]
      <3>1. /\ nodePos' = [nodePos EXCEPT ![at.node] = mstep]
            /\ before' = [before EXCEPT ![at.node] = nodePos[at.node]]
            /\ mstep \in Int
        BY <1>6 DEF Where!SetNode
      <3>2. CASE at.node \in Where!Node
        BY <3>1, <3>2
      <3>3. CASE at.node \notin Where!Node
        BY <3>1, <3>3
      <3>4. QED
        BY <3>2, <3>3
    <2>3. ASSUME NEW k \in Where!Node PROVE GpsNear(k)' /\ PollNear(k)'
      <3>1. /\ GpsNear(k) /\ PollNear(k) /\ mstep \in Nat /\ nodePos[k] # -1
            /\ gpsPos[k] \in Int /\ nodePos[k] \in Int /\ before[k] \in Int
        BY <2>1
      <3>2. CASE k = at.node
        BY <2>1, <2>2, <3>1, <3>2
      <3>3. CASE k # at.node
        BY <2>1, <2>2, <3>1, <3>3
      <3>4. QED
        BY <3>2, <3>3
    <2>4. QED
      BY <2>1, <2>2, <2>3
  <1>7. ASSUME Where!SetGps PROVE PositionsInv'
    <2>1. /\ at.next = "gps" /\ at' \in TurnType /\ at'.next = "trace" /\ at'.node = at.node
          /\ UNCHANGED <<mstep, nodePos, before, poll, row>>
      BY <1>7 DEF Where!SetGps, TurnType
    <2>2. /\ gpsPos' \in [Where!Node -> Int]
          /\ \A k \in Where!Node : gpsPos'[k] = IF k = at.node THEN mstep ELSE gpsPos[k]
      BY <1>7 DEF Where!SetGps
    <2>3. ASSUME NEW k \in Where!Node PROVE GpsNear(k)' /\ PollNear(k)'
      <3>1. GpsNear(k) /\ PollNear(k) /\ poll[k].since \in Int
        BY DEF PollType
      <3>2. QED
        BY <2>1, <2>2, <3>1
    <2>4. QED
      BY <2>1, <2>2, <2>3
  <1>8. ASSUME Where!UpdatePosition PROVE PositionsInv'
    <2>1. /\ at.next = "trace" /\ at' \in TurnType /\ at'.next \in {"none", "core"}
          /\ UNCHANGED <<mstep, gpsPos, before, poll, row>>
      BY <1>8 DEF Where!UpdatePosition, Where!NextNode, Where!NoTurn, TurnType
    <2>2. nodePos' = nodePos
      <3>1. at.node \in Where!Node => nodePos[at.node] = mstep
        BY <2>1
      <3>2. QED
        BY <1>8, <3>1 DEF Where!UpdatePosition
    <2>3. ASSUME NEW k \in Where!Node PROVE GpsNear(k)' /\ PollNear(k)'
      BY <2>1, <2>2
    <2>4. QED
      BY <2>1, <2>2, <2>3
  <1>9. ASSUME NEW n \in Where!Node, Where!FirstPosition(n) PROVE PositionsInv'
    <2>1. /\ nodePos[n] = -1 /\ mstep \in Nat /\ UNCHANGED <<moving, mstep, at, before, poll, row>>
          /\ nodePos' \in [Where!Node -> Int] /\ gpsPos' \in [Where!Node -> Int]
      BY <1>9 DEF Where!FirstPosition
    <2>2. ASSUME NEW k \in Where!Node
          PROVE  /\ nodePos'[k] = IF k = n THEN 0 ELSE nodePos[k]
                 /\ gpsPos'[k] = IF k = n THEN 0 ELSE gpsPos[k]
      BY <1>9 DEF Where!FirstPosition
    <2>3. ASSUME NEW k \in Where!Node PROVE GpsNear(k)' /\ PollNear(k)'
      <3>1. /\ GpsNear(k) /\ PollNear(k)
            /\ poll[k].since \in Int /\ gpsPos[k] \in Int /\ nodePos[k] \in Int /\ before[k] \in Int
        BY DEF PollType
      <3>2. CASE k = n
        <4>1. gpsPos[k] = -1 /\ ~(at.node = k /\ at.next \in {"gps", "trace"})
          BY <2>1, <3>1, <3>2
        <4>2. QED
          BY <2>1, <2>2, <3>1, <3>2, <4>1
      <3>3. CASE k # n
        BY <2>1, <2>2, <3>1, <3>3
      <3>4. QED
        BY <3>2, <3>3
    <2>4. QED
      BY <2>1, <2>3
  <1>10. ASSUME NEW n \in Where!Node, Where!PollOnce(n) PROVE PositionsInv'
    <2>1. /\ UNCHANGED <<moving, mstep, at, nodePos, gpsPos, before, row>>
          /\ nodePos[n] \in Int /\ before[n] \in Int
          /\ poll' = [poll EXCEPT ![n] = [phase |-> "try", tries |-> Retries,
                                          from |-> nodePos[n], since |-> before[n]]]
      BY <1>10 DEF Where!PollOnce
    <2>2. poll' \in [Where!Node -> PollType]
      BY <2>1, PositionsAssumption DEF PollType
    <2>3. ASSUME NEW k \in Where!Node PROVE PollNear(k)'
      BY <2>1
    <2>4. QED
      BY <2>1, <2>2, <2>3
  <1>11. ASSUME NEW n \in Where!Node, Where!Ask(n) \/ Where!TryFails(n) PROVE PositionsInv'
    <2>1. UNCHANGED <<moving, mstep, at, nodePos, gpsPos, before, row>>
      BY <1>11 DEF Where!Ask, Where!TryFails
    <2>2. /\ poll' \in [Where!Node -> PollType]
          /\ \A k \in Where!Node : poll'[k].from = poll[k].from /\ poll'[k].since = poll[k].since
      <3>1. CASE Where!Ask(n)
        BY <3>1 DEF Where!Ask, PollType
      <3>2. CASE Where!TryFails(n)
        BY <3>2 DEF Where!TryFails, PollType
      <3>3. QED
        BY <1>11, <3>1, <3>2
    <2>3. ASSUME NEW k \in Where!Node PROVE PollNear(k)'
      BY <2>1, <2>2
    <2>4. QED
      BY <2>1, <2>2, <2>3
  <1>12. ASSUME NEW n \in Where!Node, Where!Answer(n) PROVE PositionsInv'
    BY <1>12 DEF Where!Answer, Where!NoPoll, PollType, RowType
  <1>13. ASSUME NEW n \in Where!Node, Where!NoPosition(n) PROVE PositionsInv'
    <2>1. /\ UNCHANGED <<moving, mstep, at, nodePos, gpsPos, before>>
          /\ poll' = [poll EXCEPT ![n] = [phase |-> "idle", tries |-> 0, from |-> -1, since |-> -1]]
      BY <1>13 DEF Where!NoPosition, Where!NoPoll
    <2>2. PICK r \in RowType : row' = [row EXCEPT ![n] = r] /\ r.ok = 0 /\ ~r.answered
      <3> DEFINE r == [ok |-> 0, pos |-> -1, from |-> poll[n].from, since |-> poll[n].since,
                       answered |-> FALSE]
      <3>1. row' = [row EXCEPT ![n] = r]
        BY <1>13 DEF Where!NoPosition
      <3>2. r \in RowType /\ r.ok = 0 /\ ~r.answered
        BY DEF PollType, RowType
      <3> HIDE DEF r
      <3>3. QED
        BY <3>1, <3>2
    <2>3. poll' \in [Where!Node -> PollType] /\ row' \in [Where!Node -> RowType]
      BY <2>1, <2>2 DEF PollType
    <2>4. ASSUME NEW k \in Where!Node PROVE PollNear(k)'
      BY <2>1, <2>2
    <2>5. QED
      BY <2>1, <2>3, <2>4
  <1>14. ASSUME NEW n \in Where!Node, Where!AutopilotMoves(n) PROVE PositionsInv'
    BY <1>14 DEF Where!AutopilotMoves
  <1>15. CASE UNCHANGED positionsVars
    BY <1>1, <1>15 DEF positionsVars
  <1>16. QED
    BY <1>2, <1>3, <1>4, <1>5, <1>6, <1>7, <1>8, <1>9, <1>10, <1>11, <1>12, <1>13, <1>14, <1>15
    DEF Where!Next

\* In a random model a logged position is not older than the one before that
\* which the node had when it was asked for, and a node that had one has one.
THEOREM GpsNotBehind == Spec => []GpsFollows
  <1>1. PositionsInv => GpsFollows
    BY PositionsAssumption
    DEF PositionsInv, GpsNear, PollNear, RowType, GpsFollows, Where!GpsFollows, Where!Unset, Where!Node
  <1>2. QED
    BY <1>1, PositionsInit, PositionsStep, PositionsKeeps, PTL DEF Spec

-----------------------------------------------------------------------------
(* Results.                                                                *)

\* All that a variant's directory holds is of one campaign.
DirOf(v, d, c) ==
  /\ \A r \in DOMAIN d.runs : d.runs[r].of = c
  /\ \A x \in d.summary : x[1] = v /\ x[3] = c

Consistent(lines_) == \A x, y \in lines_ : x[1] = y[1] => x[3] = y[3]

\* While its runs are made, the directory is of the campaign that runs; the files
\* of the figures are brought together only when the old ones are gone.
ResultsInv ==
  /\ \A v \in DOMAIN results : \E c : DirOf(v, results[v], c)
  /\ phase \in {"runs", "status"} =>
       /\ "variant" \in DOMAIN shell /\ shell.variant \in DOMAIN results
       /\ DirOf(shell.variant, results[shell.variant], campaigns)
  /\ phase \in {"collect", "aggregate"} => out = {}
  /\ phase = "collect" => all = {} /\ cap = {}
  /\ Consistent(all \cup cap)
  /\ \A g \in out : g.runs \subseteq all /\ g.cap_node \subseteq cap

LEMMA ResultsStep == [Next]_vars => [Figures!Next]_resultsVars
  BY DEF Next, Others, vars

LEMMA ResultsInit == Init => ResultsInv
  BY DEF Init, Figures!Init, ResultsInv, Consistent

\* One entry of a directory, or of the directories, is set.
SetAt(f, k, e, g) == g = Figures!Set(f, [w \in {k} |-> e])

LEMMA ParsedDir ==
  ASSUME NEW v, NEW d, NEW c, DirOf(v, d, c)
  PROVE  DirOf(v, Figures!ParseMetrics(v, d), c)
  <1>1. PICK e : e = Figures!ParseMetrics(v, d)
    OBVIOUS
  <1>2. /\ DOMAIN e.runs = DOMAIN d.runs
        /\ \A r \in DOMAIN d.runs : e.runs[r].of = d.runs[r].of
    BY <1>1 DEF Figures!ParseMetrics
  <1>3. ASSUME NEW x \in e.summary PROVE x[1] = v /\ x[3] = c
    <2>1. e.summary = IF Figures!Rows(d) = {} THEN d.summary
                      ELSE {<<v, r, d.runs[r].of>> : r \in Figures!Rows(d)}
      BY <1>1 DEF Figures!ParseMetrics
    <2>2. CASE x \in d.summary
      BY <2>2 DEF DirOf
    <2>3. CASE x \notin d.summary
      <3>1. PICK r \in Figures!Rows(d) : x = <<v, r, d.runs[r].of>>
        BY <2>1, <2>3
      <3>2. r \in DOMAIN d.runs
        BY DEF Figures!Rows, Figures!IterRunDirs
      <3>3. QED
        BY <3>1, <3>2 DEF DirOf
    <2>4. QED
      BY <2>2, <2>3
  <1>4. QED
    BY <1>1, <1>2, <1>3 DEF DirOf

\* A step of run_experiment.sh that leaves the files of the figures alone.
LEMMA DirectoryKeeps ==
  ASSUME ResultsInv, UNCHANGED <<campaigns, all, cap, out>>, phase \notin {"collect", "aggregate"},
         NEW v, NEW e, v \in DOMAIN results', DirOf(v, e, campaigns), results'[v] = e,
         \A w \in DOMAIN results' : w # v => w \in DOMAIN results /\ results'[w] = results[w],
         phase' \notin {"collect", "aggregate"},
         phase' \in {"runs", "status"} => "variant" \in DOMAIN shell' /\ shell'.variant = v
  PROVE  ResultsInv'
  <1>1. \A w \in DOMAIN results' : \E c : DirOf(w, results'[w], c)
    BY DEF ResultsInv
  <1>2. phase' \in {"runs", "status"} =>
          /\ "variant" \in DOMAIN shell' /\ shell'.variant \in DOMAIN results'
          /\ DirOf(shell'.variant, results'[shell'.variant], campaigns')
    OBVIOUS
  <1>3. QED
    BY <1>1, <1>2 DEF ResultsInv, Consistent, DirOf

LEMMA ResultsKeeps == ResultsInv /\ [Figures!Next]_resultsVars => ResultsInv'
  <1> SUFFICES ASSUME ResultsInv, [Figures!Next]_resultsVars PROVE ResultsInv'
    OBVIOUS
  <1>1. ASSUME Figures!Expand \/ Figures!Break PROVE ResultsInv'
    <2>1. /\ phase' \in {"variant", "idle"} /\ UNCHANGED <<results, all, cap, out>>
      BY <1>1 DEF Figures!Expand, Figures!Break
    <2>2. QED
      BY <2>1 DEF ResultsInv, Consistent, DirOf
  <1>2. ASSUME NEW v, Figures!PrepareVariant(v) PROVE ResultsInv'
    <2>1. /\ phase = "variant" /\ phase' = "runs" /\ shell' = Figures!Begun(v)
          /\ SetAt(results, v, Figures!Emptied, results')
          /\ UNCHANGED <<campaigns, all, cap, out>>
      BY <1>2 DEF Figures!PrepareVariant, SetAt
    <2>2. "variant" \in DOMAIN shell' /\ shell'.variant = v
      BY <2>1 DEF Figures!Begun
    <2>3. DirOf(v, Figures!Emptied, campaigns)
      BY DEF DirOf, Figures!Emptied
    <2>4. /\ DOMAIN results' = DOMAIN results \cup {v} /\ results'[v] = Figures!Emptied
          /\ \A w \in DOMAIN results : w # v => results'[w] = results[w]
      BY <2>1 DEF SetAt, Figures!Set
    <2>5. QED
      BY <2>1, <2>2, <2>3, <2>4, DirectoryKeeps
  <1>3. ASSUME Figures!RunScenario PROVE ResultsInv'
    <2> DEFINE v == shell.variant
    <2>1. PICK run_, rs, e :
            /\ run_.of = campaigns /\ SetAt(results[v].runs, shell.next, run_, rs)
            /\ e.runs = rs /\ e.summary = results[v].summary
            /\ SetAt(results, v, e, results')
      <3>1. PICK made :
              results' = Figures!Set(results, [w \in {v} |->
               [expected |-> 1 .. shell.asked,
                runs |-> Figures!Set(results[v].runs, [r \in {shell.next} |->
                           [made |-> made, of |-> campaigns, covered |-> FALSE]]),
                summary |-> results[v].summary]])
        BY <1>3 DEF Figures!RunScenario
      <3>2. PICK run_ : run_ = [made |-> made, of |-> campaigns, covered |-> FALSE]
        OBVIOUS
      <3>3. PICK rs : rs = Figures!Set(results[v].runs, [r \in {shell.next} |-> run_])
        OBVIOUS
      <3>4. PICK e : e = [expected |-> 1 .. shell.asked, runs |-> rs, summary |-> results[v].summary]
        OBVIOUS
      <3>5. results' = Figures!Set(results, [w \in {v} |-> e])
        BY Zenon, <3>1, <3>2, <3>3, <3>4
      <3>6. run_.of = campaigns /\ e.runs = rs /\ e.summary = results[v].summary
        BY <3>2, <3>4
      <3>7. QED
        BY Zenon, <3>3, <3>5, <3>6 DEF SetAt
    <2>2. /\ phase = "runs" /\ phase' \in {"idle", "runs", "status"}
          /\ phase' \in {"runs", "status"} => shell' = [shell EXCEPT !.next = @ + 1]
          /\ UNCHANGED <<campaigns, all, cap, out>>
      BY <1>3 DEF Figures!RunScenario
    <2>3. v \in DOMAIN results /\ DirOf(v, results[v], campaigns)
      BY <2>2 DEF ResultsInv
    <2> HIDE DEF v
    <2>4. DirOf(v, e, campaigns)
      <3>1. /\ DOMAIN rs = DOMAIN results[v].runs \cup {shell.next}
            /\ rs[shell.next] = run_
            /\ \A r \in DOMAIN results[v].runs : r # shell.next => rs[r] = results[v].runs[r]
        BY <2>1 DEF SetAt, Figures!Set
      <3>2. e.runs = rs /\ e.summary = results[v].summary
        BY <2>1
      <3>3. \A r \in DOMAIN rs : rs[r].of = campaigns
        BY <2>1, <2>3, <3>1 DEF DirOf
      <3>4. QED
        BY <2>3, <3>2, <3>3 DEF DirOf
    <2>5. /\ DOMAIN results' = DOMAIN results \cup {v} /\ results'[v] = e
          /\ \A w \in DOMAIN results : w # v => results'[w] = results[w]
      BY <2>1 DEF SetAt, Figures!Set
    <2>6. phase' \in {"runs", "status"} => "variant" \in DOMAIN shell' /\ shell'.variant = v
      BY <2>2 DEF ResultsInv, v
    <2>7. QED
      BY <2>2, <2>4, <2>5, <2>6, DirectoryKeeps
  <1>4. ASSUME Figures!VariantDone PROVE ResultsInv'
    <2>1. /\ phase = "status" /\ phase' \in {"idle", "variant"}
          /\ UNCHANGED <<campaigns, all, cap, out>>
      BY <1>4 DEF Figures!VariantDone
    <2>2. PICK v : v = shell.variant
      OBVIOUS
    <2>3. v \in DOMAIN results /\ DirOf(v, results[v], campaigns)
      BY <2>1, <2>2 DEF ResultsInv
    <2>4. CASE results' = results
      BY <2>1, <2>3, <2>4, DirectoryKeeps
    <2>5. CASE SetAt(results, v, Figures!ParseMetrics(v, results[v]), results')
      <3>1. DirOf(v, Figures!ParseMetrics(v, results[v]), campaigns)
        BY <2>3, ParsedDir
      <3>2. /\ DOMAIN results' = DOMAIN results \cup {v}
            /\ results'[v] = Figures!ParseMetrics(v, results[v])
            /\ \A w \in DOMAIN results : w # v => results'[w] = results[w]
        BY <2>5 DEF SetAt, Figures!Set
      <3>3. QED
        BY <2>1, <3>1, <3>2, DirectoryKeeps
    <2>6. QED
      BY <1>4, <2>2, <2>4, <2>5 DEF Figures!VariantDone, SetAt
  <1>5. ASSUME Figures!Reparse PROVE ResultsInv'
    <2>1. /\ phase' = "collect" /\ all' = {} /\ cap' = {} /\ out' = {}
          /\ results' = [v \in DOMAIN results |-> Figures!ParseMetrics(v, results[v])]
      BY <1>5 DEF Figures!Reparse
    <2>2. ASSUME NEW v \in DOMAIN results' PROVE \E c : DirOf(v, results'[v], c)
      <3>1. v \in DOMAIN results /\ results'[v] = Figures!ParseMetrics(v, results[v])
        BY <2>1
      <3>2. PICK c : DirOf(v, results[v], c)
        BY <3>1 DEF ResultsInv
      <3>3. QED
        BY <3>1, <3>2, ParsedDir
    <2>3. QED
      BY <2>1, <2>2 DEF ResultsInv, Consistent, DirOf
  <1>6. ASSUME Figures!Collect PROVE ResultsInv'
    <2> DEFINE Cov(v) == {r \in DOMAIN results[v].runs : results[v].runs[r].covered}
               rows_ == UNION {results[v].summary : v \in DOMAIN results}
               covs == UNION {{<<v, r, results[v].runs[r].of>> : r \in Cov(v)} : v \in DOMAIN results}
    <2>1. /\ phase = "collect" /\ phase' = "aggregate" /\ UNCHANGED <<results, out>>
          /\ all' = IF rows_ # {} THEN rows_ ELSE all
          /\ cap' = IF covs # {} THEN covs ELSE cap
      BY <1>6 DEF Figures!Collect
    <2>2. all' = rows_ /\ cap' = covs
      BY <2>1 DEF ResultsInv
    <2>3. ASSUME NEW x \in rows_ \cup covs
          PROVE  x[1] \in DOMAIN results /\ \A c : DirOf(x[1], results[x[1]], c) => x[3] = c
      <3>1. CASE x \in rows_
        <4>1. PICK v \in DOMAIN results : x \in results[v].summary
          BY <3>1
        <4>2. PICK c : DirOf(v, results[v], c)
          BY DEF ResultsInv
        <4>3. x[1] = v
          BY <4>1, <4>2 DEF DirOf
        <4>4. QED
          BY <4>1, <4>3 DEF DirOf
      <3>2. CASE x \in covs
        <4>1. PICK v, r : v \in DOMAIN results /\ r \in DOMAIN results[v].runs /\ x = <<v, r, results[v].runs[r].of>>
          BY <3>2
        <4>2. QED
          BY <4>1 DEF DirOf
      <3>3. QED
        BY <3>1, <3>2
    <2> HIDE DEF rows_, covs
    <2>4. Consistent(rows_ \cup covs)
      <3> SUFFICES ASSUME NEW x \in rows_ \cup covs, NEW y \in rows_ \cup covs, x[1] = y[1]
                   PROVE  x[3] = y[3]
        BY DEF Consistent
      <3>1. PICK c : DirOf(x[1], results[x[1]], c)
        BY <2>3 DEF ResultsInv
      <3>2. QED
        BY <2>3, <3>1
    <2>5. Consistent(all \cup cap)'
      BY <2>2, <2>4 DEF Consistent
    <2>6. QED
      BY <2>1, <2>5 DEF ResultsInv, DirOf
  <1>7. ASSUME Figures!Aggregate PROVE ResultsInv'
    <2>1. /\ phase' = "idle" /\ UNCHANGED <<results, all, cap>>
          /\ \A g \in out' : \E k : g.runs = Figures!Group(all, k) /\ g.cap_node = Figures!Group(cap, k)
      BY <1>7 DEF Figures!Aggregate
    <2>2. \A g \in out' : g.runs \subseteq all /\ g.cap_node \subseteq cap
      BY <2>1 DEF Figures!Group
    <2>3. QED
      BY <2>1, <2>2 DEF ResultsInv, Consistent, DirOf
  <1>8. CASE UNCHANGED resultsVars
    BY <1>8 DEF resultsVars, ResultsInv, Consistent, DirOf
  <1>9. QED
    BY <1>1, <1>2, <1>3, <1>4, <1>5, <1>6, <1>7, <1>8 DEF Figures!Next

\* Whatever the figures say of a variant, of its runs or of their coverage, comes
\* from one campaign, for any experiments and any number of campaigns of any size
\* that are given up anywhere, with figures drawn in between.
THEOREM FiguresOfOneCampaign == Spec => []OneCampaignEach
  <1>1. ResultsInv => OneCampaignEach
    BY DEF ResultsInv, Consistent, OneCampaignEach, Figures!OneCampaignEach
  <1>2. QED
    BY <1>1, ResultsInit, ResultsStep, ResultsKeeps, PTL DEF Spec

-----------------------------------------------------------------------------
(* Pcaps.                                                                  *)

\* What processing writes of a set of captures.
RowOfPcap == [frames : Int, status : {"empty", "ok", "ok_truncated", "error"}]
Report == UNION {[S -> RowOfPcap] : S \in SUBSET Pcap}
Last == starts[Len(starts)]

\* While rows are written, those that are missing are of the captures still to do,
\* which are as they were found; a file is the rows of a whole set of captures.
PcapsInv ==
  /\ starts \in Seq(Report) /\ DOMAIN file = Pcap
  /\ pcapsStep \in {"idle", "rows", "delete", "jsonl", "summary"}
  /\ csv = Captures!NoRows \/ \E i \in DOMAIN starts : csv = starts[i]
  /\ pcapsStep # "idle" => starts # << >> /\ pcapsTodo \subseteq Pcap
  /\ pcapsStep \in {"rows", "delete"} =>
       \E rowsOf \in SUBSET DOMAIN Last :
         /\ tmp = [p \in rowsOf |-> Last[p]]
         /\ rowsOf \cup pcapsTodo = DOMAIN Last
         /\ pcapsStep = "delete" => \A p \in Pcap : Captures!IsNext(p) => p \in rowsOf
  /\ pcapsStep \in {"rows", "delete"} =>
       \A p \in pcapsTodo : Last[p] = Captures!Row(file[p])
  /\ pcapsStep \in {"jsonl", "summary"} => tmp = Last

LEMMA PcapsStep == [Next]_vars => [Captures!Next]_pcapsVars
  BY DEF Next, Others, vars

LEMMA PcapsInit == Init => PcapsInv
  BY EmptySeq DEF Init, Captures!Init, PcapsInv

LEMMA RowTyped == \A c : Captures!Row(c) \in RowOfPcap
  <1> TAKE c
  <1>1. Captures!Frames(c) \in Int
    BY DEF Captures!Frames
  <1>2. Captures!Status(c) \in {"empty", "ok", "ok_truncated", "error"}
    BY DEF Captures!Status
  <1>3. QED
    BY <1>1, <1>2 DEF Captures!Row, RowOfPcap

LEMMA StartKeeps == PcapsInv /\ Captures!Start => PcapsInv'
  <1> SUFFICES ASSUME PcapsInv, Captures!Start PROVE PcapsInv'
    OBVIOUS
  <1>1. pcapsStep = "idle" /\ UNCHANGED <<file, csv>>
    BY DEF Captures!Start
  <1>2. CASE Captures!NoMaterial
    BY <1>1, <1>2 DEF Captures!NoMaterial, PcapsInv
  <1>3. ASSUME NEW d \in BOOLEAN, Captures!Open(d) PROVE PcapsInv'
    <2> DEFINE L == Captures!Listed
               opening == [p \in L |-> Captures!Row(file[p])]
    <2>1. /\ pcapsTodo' = L /\ tmp' = Captures!NoRows /\ pcapsStep' = "rows"
          /\ starts' = Append(starts, opening)
      BY <1>3 DEF Captures!Open
    <2>2. L \subseteq Pcap
      BY DEF Captures!Listed
    <2>3. opening \in Report /\ DOMAIN opening = L
      BY <2>2, RowTyped DEF Report
    <2>4. /\ starts' \in Seq(Report) /\ starts' # << >> /\ Last' = opening
          /\ \A i \in DOMAIN starts : i \in DOMAIN starts' /\ starts'[i] = starts[i]
      <3> HIDE DEF opening, L
      <3>1. starts \in Seq(Report)
        BY DEF PcapsInv
      <3>2. QED
        BY <2>1, <2>3, <3>1, AppendProperties DEF Last
    <2>5. tmp' = [p \in {} |-> Last'[p]]
      BY <2>1 DEF Captures!NoRows
    <2>6. \A p \in L : opening[p] = Captures!Row(file[p])
      OBVIOUS
    <2>7. csv' = Captures!NoRows \/ \E i \in DOMAIN starts' : csv' = starts'[i]
      BY <1>1, <2>4 DEF PcapsInv, Captures!NoRows
    <2> HIDE DEF opening, L
    <2>8. QED
      BY <1>1, <2>1, <2>2, <2>3, <2>4, <2>5, <2>6, <2>7 DEF PcapsInv, Captures!NoRows
  <1>4. QED
    BY <1>2, <1>3 DEF Captures!Start

\* The rows of a processing under way: those of rowsOf, the other captures being as found.
LEMMA AddRowKeeps ==
  ASSUME PcapsInv, pcapsStep = "rows", NEW p \in Pcap, Captures!IsNext(p),
         tmp' = [q \in DOMAIN tmp \union {p} |-> IF q = p THEN Captures!Row(file[p]) ELSE tmp[q]],
         \/ pcapsTodo' = pcapsTodo \ {p} /\ pcapsStep' = "rows"
         \/ pcapsTodo' = pcapsTodo /\ pcapsStep' = "delete",
         UNCHANGED <<file, csv, starts>>
  PROVE  PcapsInv'
  <1>1. PICK rowsOf \in SUBSET DOMAIN Last :
          tmp = [q \in rowsOf |-> Last[q]] /\ rowsOf \cup pcapsTodo = DOMAIN Last
    BY DEF PcapsInv
  <1>2. p \in pcapsTodo /\ Last[p] = Captures!Row(file[p]) /\ p \in DOMAIN Last
    BY <1>1 DEF PcapsInv, Captures!IsNext
  <1>3. Last' = Last
    BY DEF Last
  <1> HIDE DEF Last
  <1>4. tmp' = [q \in rowsOf \cup {p} |-> Last[q]]
    BY <1>1, <1>2
  <1>5. (rowsOf \cup {p}) \in SUBSET DOMAIN Last /\ (rowsOf \cup {p}) \cup pcapsTodo' = DOMAIN Last
    BY <1>1, <1>2
  <1>6. ASSUME pcapsStep' = "delete", NEW q \in Pcap, Captures!IsNext(q)' PROVE q = p
    <2>1. q \in pcapsTodo /\ Sorted[q] <= Sorted[p] /\ Sorted[p] <= Sorted[q]
      BY <1>2, <1>6 DEF Captures!IsNext
    <2>2. QED
      BY <2>1, PcapAssumption
  <1>7. \E r \in SUBSET DOMAIN Last' :
          /\ tmp' = [q \in r |-> Last'[q]]
          /\ r \cup pcapsTodo' = DOMAIN Last'
          /\ pcapsStep' = "delete" => \A q \in Pcap : Captures!IsNext(q)' => q \in r
    BY <1>3, <1>4, <1>5, <1>6
  <1>8. QED
    BY <1>3, <1>7 DEF PcapsInv, Captures!NoRows

LEMMA DeleteKeeps == PcapsInv /\ Captures!Delete => PcapsInv'
  <1> SUFFICES ASSUME PcapsInv, Captures!Delete PROVE PcapsInv'
    OBVIOUS
  <1>1. PICK p \in Pcap :
          /\ Captures!IsNext(p) /\ pcapsTodo' = pcapsTodo \ {p}
          /\ file' = file \/ file' = [file EXCEPT ![p] = Captures!Gone]
    BY DEF Captures!Delete
  <1>2. pcapsStep = "delete" /\ pcapsStep' = "rows" /\ UNCHANGED <<tmp, csv, starts>>
    BY DEF Captures!Delete
  <1>3. Last' = Last
    BY <1>2 DEF Last
  <1>4. PICK rowsOf \in SUBSET DOMAIN Last :
          /\ tmp = [q \in rowsOf |-> Last[q]] /\ rowsOf \cup pcapsTodo = DOMAIN Last
          /\ p \in rowsOf
    BY <1>1, <1>2 DEF PcapsInv
  <1>5. rowsOf \cup pcapsTodo' = DOMAIN Last
    BY <1>1, <1>4
  <1>6. DOMAIN file' = Pcap /\ \A q \in pcapsTodo' : file'[q] = file[q]
    BY <1>1, <1>2 DEF PcapsInv
  <1> HIDE DEF Last
  <1>7. \A q \in pcapsTodo' : Last[q] = Captures!Row(file'[q])
    BY <1>1, <1>2, <1>6 DEF PcapsInv
  <1>8. \E r \in SUBSET DOMAIN Last' :
          tmp' = [q \in r |-> Last'[q]] /\ r \cup pcapsTodo' = DOMAIN Last'
    BY <1>2, <1>3, <1>4, <1>5
  <1>9. QED
    BY <1>1, <1>2, <1>3, <1>6, <1>7, <1>8 DEF PcapsInv, Captures!NoRows

LEMMA PcapsKeeps == PcapsInv /\ [Captures!Next]_pcapsVars => PcapsInv'
  <1> SUFFICES ASSUME PcapsInv, [Captures!Next]_pcapsVars PROVE PcapsInv'
    OBVIOUS
  <1>1. ASSUME Captures!AddRow PROVE PcapsInv'
    <2>1. PICK p \in Pcap :
            /\ Captures!IsNext(p)
            /\ tmp' = [q \in DOMAIN tmp \union {p} |-> IF q = p THEN Captures!Row(file[p]) ELSE tmp[q]]
            /\ \/ pcapsTodo' = pcapsTodo \ {p} /\ pcapsStep' = pcapsStep
               \/ pcapsTodo' = pcapsTodo /\ pcapsStep' = "delete"
      BY <1>1 DEF Captures!AddRow
    <2>2. pcapsStep = "rows" /\ UNCHANGED <<file, csv, starts>>
      BY <1>1 DEF Captures!AddRow
    <2>3. QED
      BY <2>1, <2>2, AddRowKeeps
  <1>2. ASSUME Captures!RenameCsv PROVE PcapsInv'
    <2>1. /\ pcapsStep = "rows" /\ pcapsTodo = {} /\ csv' = tmp /\ pcapsStep' = "jsonl"
          /\ UNCHANGED <<file, pcapsTodo, tmp, starts>>
      BY <1>2 DEF Captures!RenameCsv
    <2>2. PICK rowsOf \in SUBSET DOMAIN Last :
            tmp = [q \in rowsOf |-> Last[q]] /\ rowsOf \cup pcapsTodo = DOMAIN Last
      BY <2>1 DEF PcapsInv
    <2>3. starts \in Seq(Report) /\ starts # << >>
      BY <2>1 DEF PcapsInv
    <2>4. Len(starts) \in DOMAIN starts /\ Last \in Report
      BY <2>3 DEF Last
    <2>5. Last = [q \in DOMAIN Last |-> Last[q]]
      BY <2>4 DEF Report
    <2>6. tmp = Last
      BY <2>1, <2>2, <2>5
    <2>7. QED
      BY <2>1, <2>4, <2>6 DEF PcapsInv, Last
  <1>3. ASSUME Captures!RenameJsonl PROVE PcapsInv'
    BY <1>3 DEF Captures!RenameJsonl, PcapsInv, Last, Captures!NoRows
  <1>4. ASSUME Captures!WriteSummary \/ Captures!Die PROVE PcapsInv'
    BY <1>4 DEF Captures!WriteSummary, Captures!Die, PcapsInv, Captures!NoRows
  <1>5. CASE UNCHANGED pcapsVars
    BY <1>5 DEF pcapsVars, PcapsInv, Last, Captures!NoRows, Captures!IsNext
  <1>6. QED
    BY <1>1, <1>2, <1>3, <1>4, <1>5, StartKeeps, DeleteKeeps DEF Captures!Next

\* A run's packets are those of every capture some processing found, or of every
\* node's counters: never of the captures reached so far.
THEOREM WholeOverhead == Spec => []OverheadWhole
  <1>1. PcapsInv => OverheadWhole
    <2> SUFFICES ASSUME PcapsInv PROVE OverheadWhole
      OBVIOUS
    <2>1. DOMAIN Captures!Counters # {}
      BY PcapAssumption DEF Captures!Counters
    <2>2. CASE Captures!Useful(csv) = {}
      BY <2>1, <2>2 DEF OverheadWhole, Captures!OverheadWhole, Captures!NetworkOverhead
    <2>3. CASE Captures!Useful(csv) # {}
      <3>1. csv # Captures!NoRows
        BY <2>3 DEF Captures!NoRows, Captures!Useful
      <3>2. PICK i \in DOMAIN starts : csv = starts[i]
        BY <3>1 DEF PcapsInv
      <3>3. QED
        BY <2>3, <3>2 DEF OverheadWhole, Captures!OverheadWhole, Captures!NetworkOverhead
    <2>4. QED
      BY <2>2, <2>3
  <1>2. QED
    BY <1>1, PcapsInit, PcapsStep, PcapsKeeps, PTL DEF Spec

-----------------------------------------------------------------------------
(* Convergence.                                                            *)

\* The module's own copies of the library's operators.
LEMMA TimesSum == \A f : Times!SumFunction(f) = SumFunction(f)
  BY Zenon DEF Times!SumFunction, Times!SumFunctionOnSet, Times!FoldFunctionOnSet,
    Times!MapThenFoldSet, SumFunction, SumFunctionOnSet, FoldFunctionOnSet, MapThenFoldSet

LEMMA TimesCardinality == \A S : Times!Cardinality(S) = Cardinality(S)
  BY DEF Times!Cardinality, Cardinality

LEMMA TimesMax == \A a, b \in Nat : Times!Max({a, b}) = IF a >= b THEN a ELSE b
  BY DEF Times!Max

\* What a node knows is what others have sent at most, and they send nothing that
\* they have not logged.
Known ==
  /\ seen \in [Host -> [Host -> Nat]]
  /\ logSent \in [Host -> Nat] /\ buffered \in [Host -> Nat]
  /\ creating \in [Host -> Nat]
  /\ \A m \in Host : logSent[m] <= buffered[m] /\ buffered[m] <= seen[m][m]
  /\ \A m \in Host : creating[m] # 0 => buffered[m] < seen[m][m]
  /\ \A k, j \in Host : k # j => seen[k][j] <= logSent[j]

Totals == [k \in Host |-> SumFunction(seen[k])]
Own == [m \in Host |-> seen[m][m]]
Made == SumFunction(Own)

\* A node that knows of every increment knows none that is not logged.
Informed(t, made, pending) ==
  /\ t \in [Host -> Nat] /\ made \in Nat
  /\ \A k \in Host : t[k] <= made /\ (t[k] = made => \A j \in Host \ {k} : pending[j] = 0)

LEMMA KnownInforms == Known => Informed(Totals, Made, creating)
<1> SUFFICES ASSUME Known PROVE Informed(Totals, Made, creating)
  OBVIOUS
<1>1. /\ \A k \in Host : seen[k] \in [Host -> Int] /\ seen[k] \in [Host -> Nat]
      /\ \A k, j \in Host : seen[k][j] \in Nat /\ seen[k][j] <= seen[j][j]
  BY DEF Known
<1>2. PICK own \in [Host -> Int] : own = Own /\ \A m \in Host : own[m] = seen[m][m]
  <2>1. Own \in [Host -> Int] /\ \A m \in Host : Own[m] = seen[m][m]
    BY <1>1 DEF Own
  <2> QED
    BY <2>1
<1>3. own \in [Host -> Nat]
  BY <1>1, <1>2
<1>4. ASSUME NEW k \in Host
      PROVE  /\ SumFunction(seen[k]) \in Nat /\ SumFunction(own) \in Nat
             /\ SumFunction(seen[k]) <= SumFunction(own)
             /\ SumFunction(seen[k]) = SumFunction(own) => \A j \in Host \ {k} : creating[j] = 0
  <2>1. PICK f : f = seen[k] /\ f \in [Host -> Int] /\ f \in [Host -> Nat]
    BY <1>1
  <2>2. \A j \in Host : f[j] <= own[j]
    BY <1>1, <1>2, <2>1
  <2>3. SumFunction(f) \in Nat /\ SumFunction(own) \in Nat
    BY <1>3, <2>1, HostAssumption, SumAtLeast
  <2>4. SumFunction(f) <= SumFunction(own)
    BY <1>2, <2>1, <2>2, HostAssumption, SumMonotone
  <2>5. ASSUME SumFunction(f) = SumFunction(own), NEW j \in Host \ {k} PROVE creating[j] = 0
    <3>1. f[j] = own[j]
      BY <1>2, <2>1, <2>2, <2>3, <2>5, HostAssumption, SumEqual
    <3> QED
      BY <1>2, <2>1, <3>1 DEF Known
  <2> QED
    BY <2>1, <2>3, <2>4, <2>5
<1>5. Made \in Nat
  <2>1. CASE Host = {}
    <3>1. own \in [{} -> Int]
      BY <2>1
    <3>2. SumFunction(own) = 0
      BY ONLY <3>1, SumEmpty
    <3> QED
      BY <1>2, <3>2 DEF Made
  <2>2. CASE Host # {}
    BY <1>2, <1>4, <2>2 DEF Made
  <2> QED
    BY <2>1, <2>2
<1> QED
  BY <1>2, <1>4, <1>5 DEF Informed, Totals, Made

LEMMA KnownInformsNext == Known' => Informed(Totals, Made, creating)'
  BY KnownInforms, PTL

\* Increment and Receive, in totals.
LEMMA IncrementTotals ==
  ASSUME Known, NEW n \in Host, Times!Increment(n)
  PROVE  /\ Totals' = [Totals EXCEPT ![n] = Totals[n] + 1] /\ Made' = Made + 1
         /\ creating' = [creating EXCEPT ![n] = Totals[n] + 1]
         /\ Known'
<1>1. PICK v \in Nat : v = seen[n][n]
  BY DEF Known
<1>2. seen' = [seen EXCEPT ![n] = [seen[n] EXCEPT ![n] = v + 1]]
  BY <1>1 DEF Times!Increment
<1>3. PICK f \in [Host -> Int], g \in [Host -> Int] :
        f = seen[n] /\ g = [f EXCEPT ![n] = v + 1] /\ f[n] = v /\ g[n] = v + 1
        /\ \A y \in Host \ {n} : g[y] = f[y]
  <2>1. PICK f \in [Host -> Int] : f = seen[n] /\ f[n] = v
    BY <1>1 DEF Known
  <2>2. PICK g \in [Host -> Int] : g = [f EXCEPT ![n] = v + 1]
    <3>1. v + 1 \in Int
      BY <1>1
    <3>2. [f EXCEPT ![n] = v + 1] \in [Host -> Int]
      BY <2>1, <3>1
    <3> QED
      BY <3>2
  <2>3. g[n] = v + 1 /\ \A y \in Host \ {n} : g[y] = f[y]
    BY <2>2
  <2> QED
    BY <2>1, <2>2, <2>3
<1>4. SumFunction(g) = SumFunction(f) + 1
  <2>1. SumFunction(g) = SumFunction(f) - f[n] + g[n]
    BY <1>3, HostAssumption, SumChanged
  <2>2. PICK s \in Int : s = SumFunction(f)
    BY HostAssumption, SumInt
  <2> QED
    BY <1>1, <1>3, <2>1, <2>2
<1>5. Totals' = [Totals EXCEPT ![n] = Totals[n] + 1]
  <2>1. \A k \in Host : seen'[k] = IF k = n THEN g ELSE seen[k]
    BY <1>2, <1>3 DEF Known
  <2> QED
    BY <1>3, <1>4, <2>1 DEF Totals
<1>6. Made' = Made + 1
  <2>1. PICK p \in [Host -> Int], q \in [Host -> Int] :
          p = Own /\ q = Own' /\ p[n] = v /\ q[n] = v + 1 /\ \A y \in Host \ {n} : q[y] = p[y]
    <3>1. \A k, j \in Host : seen'[k][j] = IF k = n /\ j = n THEN v + 1 ELSE seen[k][j]
      BY <1>1, <1>2 DEF Known
    <3>2. Own \in [Host -> Int] /\ \A k \in Host : Own[k] = seen[k][k]
      BY DEF Known, Own
    <3>3. Own' \in [Host -> Int] /\ \A k \in Host : Own'[k] = IF k = n THEN v + 1 ELSE seen[k][k]
      BY <1>1, <3>1 DEF Known, Own
    <3> QED
      BY <1>1, <3>2, <3>3
  <2>2. SumFunction(q) = SumFunction(p) - p[n] + q[n]
    BY <2>1, HostAssumption, SumChanged
  <2>3. PICK s \in Int : s = SumFunction(p)
    BY HostAssumption, SumInt
  <2> QED
    BY <1>1, <2>1, <2>2, <2>3 DEF Made
<1>7. creating' = [creating EXCEPT ![n] = Totals[n] + 1]
  BY TimesSum DEF Times!Increment, Times!Total, Totals
<1>8. Known'
  <2>1. Totals[n] + 1 \in Nat
    BY KnownInforms DEF Informed
  <2> QED
    BY <1>1, <1>2, <1>7, <2>1 DEF Known, Times!Increment, Times!Idle
<1> QED
  BY <1>5, <1>6, <1>7, <1>8

LEMMA ReceiveTotals ==
  ASSUME Known, NEW n \in Host, NEW m \in Host, Times!Receive(n, m)
  PROVE  /\ Made' = Made /\ Known'
         /\ \A k \in Host \ {n} : Totals'[k] = Totals[k]
         /\ Totals[n] <= Totals'[n]
         /\ applying' = [applying EXCEPT ![n] = Totals'[n]]
<1>1. PICK v \in Nat :
        /\ v >= seen[n][m] /\ v <= logSent[m] /\ seen' = [seen EXCEPT ![n][m] = v]
        /\ applying' = [applying EXCEPT ![n] = SumFunction(seen'[n])]
  <2>1. PICK c \in 1 .. logSent[m] :
          /\ seen' = [seen EXCEPT ![n][m] = Times!Max({seen[n][m], c})]
          /\ applying' = [applying EXCEPT ![n] = SumFunction(seen'[n])]
    BY TimesSum DEF Times!Receive
  <2>2. c \in Nat /\ seen[n][m] \in Nat /\ seen[n][m] <= logSent[m] /\ c <= logSent[m]
    BY DEF Known, Times!Receive
  <2>3. Times!Max({seen[n][m], c}) = IF seen[n][m] >= c THEN seen[n][m] ELSE c
    BY <2>2, TimesMax
  <2>4. PICK v \in Nat : v = Times!Max({seen[n][m], c}) /\ v >= seen[n][m] /\ v <= logSent[m]
    BY <2>2, <2>3
  <2> QED
    BY <2>1, <2>4
<1>2. n # m /\ UNCHANGED <<creating, logSent, buffered>>
  BY DEF Times!Receive
<1>3. seen' \in [Host -> [Host -> Nat]]
      /\ \A k, j \in Host : seen'[k][j] = IF k = n /\ j = m THEN v ELSE seen[k][j]
  BY <1>1 DEF Known
<1>4. Known'
  BY <1>1, <1>2, <1>3 DEF Known
<1>5. Made' = Made
  BY <1>2, <1>3 DEF Made, Own
<1>6. \A k \in Host \ {n} : Totals'[k] = Totals[k]
  <2>1. \A k \in Host \ {n} : seen'[k] = seen[k]
    BY <1>1 DEF Known
  <2> QED
    BY <2>1 DEF Totals
<1>7. Totals[n] <= Totals'[n]
  <2>1. PICK f \in [Host -> Int], g \in [Host -> Int] :
          f = seen[n] /\ g = seen'[n] /\ \A j \in Host : f[j] <= g[j]
    <3>1. seen[n] \in [Host -> Int] /\ seen'[n] \in [Host -> Int]
      BY <1>3 DEF Known
    <3>2. \A j \in Host : seen[n][j] <= seen'[n][j]
      BY <1>1, <1>3 DEF Known
    <3> QED
      BY <3>1, <3>2
  <2>2. SumFunction(f) <= SumFunction(g)
    BY <2>1, HostAssumption, SumMonotone
  <2> QED
    BY <2>1, <2>2 DEF Totals
<1>8. applying' = [applying EXCEPT ![n] = Totals'[n]]
  BY <1>1 DEF Totals
<1> QED
  BY <1>4, <1>5, <1>6, <1>7, <1>8

-----------------------------------------------------------------------------
Create == [event : {"op_create"}, ts : Nat]
Apply == [event : {"op_apply"}, ts : Nat, total : Nat]

\* Every increment of j is logged, before the time ts.
AllLogged(j, ts) ==
  /\ creating[j] = 0
  /\ \A i \in DOMAIN logEvents[j] : logEvents[j][i] \in Create => logEvents[j][i].ts < ts

\* A total that holds every increment was read when the others had logged theirs,
\* and logged after that; a node on its own logs its increment first.
LineInv(made, k, line) ==
  /\ line \in Create \cup Apply /\ line.ts < logClock
  /\ line \in Create => made > 0
  /\ line \in Apply =>
       /\ line.total <= made
       /\ line.total = made => \A j \in Host : j # k \/ Host = {k} => AllLogged(j, line.ts)

PendingInv(made, k) ==
  /\ creating[k] <= made /\ applying[k] <= made
  /\ creating[k] = made => \A j \in Host \ {k} : creating[j] = 0
  /\ applying[k] = made => \A j \in Host \ {k} : creating[j] = 0
  /\ applying[k] # 0 => Host # {k}

\* What a node knows is in a line of its log, or about to be.
Covered(t, k) ==
  \/ t = 0 \/ creating[k] >= t \/ applying[k] >= t
  \/ \E i \in DOMAIN logEvents[k] : logEvents[k][i] \in Apply /\ logEvents[k][i].total >= t

Timed(t, made) ==
  /\ creating \in [Host -> Nat] /\ applying \in [Host -> Nat] /\ logClock \in Nat
  /\ logEvents \in [Host -> Seq(Create \cup Apply)]
  /\ monitor \in [Host -> [local : Int, total : Int]]
  /\ \A k \in Host : monitor[k].total <= t[k]
  /\ \A k \in Host : PendingInv(made, k) /\ Covered(t[k], k)
  /\ \A k \in Host : \A i \in DOMAIN logEvents[k] : LineInv(made, k, logEvents[k][i])

LEMMA IncrementTimed ==
  ASSUME NEW t, NEW made, Informed(t, made, creating), Timed(t, made), NEW n \in Host,
         creating[n] = 0, creating' = [creating EXCEPT ![n] = t[n] + 1],
         UNCHANGED <<applying, logEvents, logClock, monitor>>,
         NEW u, u = [t EXCEPT ![n] = t[n] + 1]
  PROVE  Timed(u, made + 1)'
<1>1. PICK v \in Nat : v = t[n] /\ v <= made /\ (v = made => \A j \in Host \ {n} : creating[j] = 0)
  BY DEF Informed
<1>2. made \in Nat /\ u \in [Host -> Nat] /\ \A k \in Host : u[k] = IF k = n THEN v + 1 ELSE t[k]
  BY <1>1 DEF Informed
<1>3. /\ creating' \in [Host -> Nat]
      /\ \A k \in Host : creating'[k] = IF k = n THEN v + 1 ELSE creating[k]
  BY <1>1 DEF Timed
<1>4. ASSUME NEW k \in Host PROVE PendingInv(made + 1, k)'
  BY <1>1, <1>2, <1>3 DEF Timed, PendingInv
<1>5. ASSUME NEW k \in Host PROVE Covered(u[k], k)'
  <2>1. CASE k = n
    BY <1>1, <1>2, <1>3, <2>1 DEF Covered
  <2>2. CASE k # n
    <3>1. u[k] = t[k] /\ creating'[k] = creating[k]
      BY <1>2, <1>3, <2>2
    <3>2. Covered(t[k], k)
      BY DEF Timed
    <3> QED
      BY <3>1, <3>2 DEF Covered
  <2> QED
    BY <2>1, <2>2
<1>6. ASSUME NEW k \in Host, NEW i \in DOMAIN logEvents[k]
      PROVE  LineInv(made + 1, k, logEvents[k][i])'
  <2>1. PICK line : line = logEvents[k][i]
    OBVIOUS
  <2>2. LineInv(made, k, line)
    BY <2>1 DEF Timed
  <2>3. line \in Apply => line.total \in Nat
    BY DEF Apply
  <2>4. LineInv(made + 1, k, line)'
    BY <1>2, <2>2, <2>3 DEF LineInv
  <2> QED
    BY <2>1, <2>4
<1>7. \A k \in Host : monitor[k].total <= u[k]
  <2>1. \A k \in Host : t[k] \in Nat /\ monitor[k].total \in Int /\ monitor[k].total <= t[k]
    BY DEF Timed, Informed
  <2> QED
    BY <1>1, <1>2, <2>1
<1> QED
  BY <1>3, <1>4, <1>5, <1>6, <1>7 DEF Timed

LEMMA ReceiveTimed ==
  ASSUME NEW t, NEW made, Informed(t, made, creating), Timed(t, made), NEW n \in Host,
         NEW u, Informed(u, made, creating), \A k \in Host \ {n} : u[k] = t[k], t[n] <= u[n],
         applying' = [applying EXCEPT ![n] = u[n]], Host # {n},
         UNCHANGED <<creating, logEvents, logClock, monitor>>
  PROVE  Timed(u, made)'
<1>1. PICK v \in Nat : v = u[n] /\ v <= made /\ (v = made => \A j \in Host \ {n} : creating[j] = 0)
  BY DEF Informed
<1>2. made \in Nat /\ \A k \in Host : u[k] \in Nat /\ t[k] \in Nat /\ t[k] <= u[k]
  BY DEF Informed
<1>3. /\ applying' \in [Host -> Nat]
      /\ \A k \in Host : applying'[k] = IF k = n THEN v ELSE applying[k]
  BY <1>1 DEF Timed
<1>4. ASSUME NEW k \in Host PROVE PendingInv(made, k)'
  BY <1>1, <1>2, <1>3 DEF Timed, PendingInv
<1>5. ASSUME NEW k \in Host PROVE Covered(u[k], k)'
  <2>1. CASE k = n
    BY <1>1, <1>3, <2>1 DEF Covered
  <2>2. CASE k # n
    <3>1. u[k] = t[k] /\ applying'[k] = applying[k]
      BY <1>3, <2>2
    <3>2. Covered(t[k], k)
      BY DEF Timed
    <3> QED
      BY <3>1, <3>2 DEF Covered
  <2> QED
    BY <2>1, <2>2
<1>6. ASSUME NEW k \in Host, NEW i \in DOMAIN logEvents[k]
      PROVE  LineInv(made, k, logEvents[k][i])'
  <2>1. PICK line : line = logEvents[k][i]
    OBVIOUS
  <2>2. LineInv(made, k, line)
    BY <2>1 DEF Timed
  <2>4. LineInv(made, k, line)'
    BY <2>2 DEF LineInv, AllLogged
  <2> QED
    BY <2>1, <2>4
<1>7. \A k \in Host : monitor[k].total <= u[k]
  <2>1. \A k \in Host : monitor[k].total \in Int /\ monitor[k].total <= t[k]
    BY DEF Timed
  <2> QED
    BY <1>2, <2>1
<1> QED
  BY <1>3, <1>4, <1>5, <1>6, <1>7 DEF Timed

\* A log that gets the lines in more.
LEMMA LogGrows ==
  ASSUME NEW X, NEW s \in Seq(X), NEW a \in X, NEW t, t = Append(s, a)
  PROVE  /\ t \in Seq(X)
         /\ \A i \in DOMAIN t : (i \in DOMAIN s /\ t[i] = s[i]) \/ t[i] = a
         /\ \A i \in DOMAIN s : i \in DOMAIN t /\ t[i] = s[i]
         /\ \E i \in DOMAIN t : t[i] = a
<1>1. Len(s) + 1 \in DOMAIN t /\ t[Len(s) + 1] = a
  BY AppendProperties
<1> QED
  BY <1>1, AppendProperties

\* What the logs have after a step that adds to one of them.
Grown(X, n, new) ==
  /\ logEvents' \in [Host -> Seq(X)]
  /\ \A k \in Host : \A i \in DOMAIN logEvents'[k] :
       \/ i \in DOMAIN logEvents[k] /\ logEvents'[k][i] = logEvents[k][i]
       \/ k = n /\ logEvents'[k][i] \in new
  /\ \A k \in Host : \A i \in DOMAIN logEvents[k] :
       i \in DOMAIN logEvents'[k] /\ logEvents'[k][i] = logEvents[k][i]
  /\ \A line \in new : \E i \in DOMAIN logEvents'[n] : logEvents'[n][i] = line

LEMMA GrownByOne ==
  ASSUME NEW X, logEvents \in [Host -> Seq(X)], NEW n \in Host, NEW a \in X,
         logEvents' = [logEvents EXCEPT ![n] = Append(logEvents[n], a)]
  PROVE  Grown(X, n, {a})
<1>1. PICK s \in Seq(X) : s = logEvents[n]
  OBVIOUS
<1>2. PICK t : t = Append(s, a)
  OBVIOUS
<1>3. /\ t \in Seq(X)
      /\ \A i \in DOMAIN t : (i \in DOMAIN s /\ t[i] = s[i]) \/ t[i] = a
      /\ \A i \in DOMAIN s : i \in DOMAIN t /\ t[i] = s[i]
      /\ \E i \in DOMAIN t : t[i] = a
  <2>1. s \in Seq(X) /\ a \in X /\ t = Append(s, a)
    BY <1>2
  <2> QED
    BY ONLY <2>1, LogGrows
<1>4. logEvents' = [logEvents EXCEPT ![n] = t] /\ \A k \in Host : logEvents'[k] = IF k = n THEN t ELSE logEvents[k]
  BY <1>1, <1>2
<1> QED
  BY <1>1, <1>3, <1>4 DEF Grown

LEMMA GrownByTwo ==
  ASSUME NEW X, logEvents \in [Host -> Seq(X)], NEW n \in Host,
         NEW a \in X, NEW b \in X,
         logEvents' = [logEvents EXCEPT ![n] = logEvents[n] \o <<a, b>>]
  PROVE  Grown(X, n, {a, b})
<1>1. PICK s \in Seq(X) : s = logEvents[n]
  OBVIOUS
<1>2. PICK r, t : r = Append(s, a) /\ t = Append(r, b)
  OBVIOUS
<1>3. /\ r \in Seq(X)
      /\ \A i \in DOMAIN r : (i \in DOMAIN s /\ r[i] = s[i]) \/ r[i] = a
      /\ \A i \in DOMAIN s : i \in DOMAIN r /\ r[i] = s[i]
      /\ \E i \in DOMAIN r : r[i] = a
  <2>1. s \in Seq(X) /\ a \in X /\ r = Append(s, a)
    BY <1>2
  <2> QED
    BY ONLY <2>1, LogGrows
<1>4. /\ t \in Seq(X)
      /\ \A i \in DOMAIN t : (i \in DOMAIN r /\ t[i] = r[i]) \/ t[i] = b
      /\ \A i \in DOMAIN r : i \in DOMAIN t /\ t[i] = r[i]
      /\ \E i \in DOMAIN t : t[i] = b
  <2>1. r \in Seq(X) /\ b \in X /\ t = Append(r, b)
    BY <1>2, <1>3
  <2> QED
    BY ONLY <2>1, LogGrows
<1>5. s \o <<a, b>> = t
  BY <1>2
<1>6. \A k \in Host : logEvents'[k] = IF k = n THEN t ELSE logEvents[k]
  BY <1>1, <1>5
<1>7. logEvents' = [logEvents EXCEPT ![n] = t]
  BY <1>1, <1>5
<1>8. logEvents' \in [Host -> Seq(X)]
  BY <1>4, <1>7
<1>9. \A i \in DOMAIN t : (i \in DOMAIN s /\ t[i] = s[i]) \/ t[i] \in {a, b}
  BY <1>3, <1>4
<1>10. \A i \in DOMAIN s : i \in DOMAIN t /\ t[i] = s[i]
  BY <1>3, <1>4
<1>11. \A line \in {a, b} : \E i \in DOMAIN t : t[i] = line
  <2>1. PICK i \in DOMAIN r : r[i] = a
    BY <1>3
  <2>2. i \in DOMAIN t /\ t[i] = a
    BY <1>4, <2>1
  <2> QED
    BY <1>4, <2>2
<1> QED
  BY <1>1, <1>6, <1>8, <1>9, <1>10, <1>11 DEF Grown

LEMMA LogCreateTimed ==
  ASSUME NEW t, NEW made, Informed(t, made, creating), Timed(t, made), NEW n \in Host,
         creating[n] # 0, creating' = [creating EXCEPT ![n] = 0],
         logEvents' = [logEvents EXCEPT ![n] = logEvents[n] \o
           <<[event |-> "op_create", ts |-> logClock],
             [event |-> "op_apply", ts |-> logClock + 1, total |-> creating[n]]>>],
         logClock' = logClock + 2, UNCHANGED <<applying, monitor>>
  PROVE  Timed(t, made)'
<1>1. PICK v \in Nat, c \in Nat :
        /\ v = creating[n] /\ v > 0 /\ v <= made /\ c = logClock /\ made \in Nat
        /\ v = made => \A j \in Host \ {n} : creating[j] = 0
  BY DEF Timed, PendingInv, Informed
<1>2. PICK a \in Create, b \in Apply :
        /\ a = [event |-> "op_create", ts |-> c] /\ b = [event |-> "op_apply", ts |-> c + 1, total |-> v]
        /\ a.ts = c /\ b.ts = c + 1 /\ b.total = v /\ a \notin Apply /\ b \notin Create
  <2>1. [event |-> "op_create", ts |-> c] \in Create /\ [event |-> "op_create", ts |-> c] \notin Apply
    BY DEF Create, Apply
  <2>2. [event |-> "op_apply", ts |-> c + 1, total |-> v] \in Apply
    BY DEF Apply
  <2>3. [event |-> "op_apply", ts |-> c + 1, total |-> v] \notin Create
    BY DEF Create
  <2> QED
    BY <2>1, <2>2, <2>3
<1>3. Grown(Create \cup Apply, n, {a, b})
  BY <1>1, <1>2, GrownByTwo DEF Timed
<1>4. /\ creating' \in [Host -> Nat] /\ logClock' \in Nat /\ logClock' = c + 2
      /\ \A k \in Host : creating'[k] = IF k = n THEN 0 ELSE creating[k]
  BY <1>1 DEF Timed
<1>5. ASSUME NEW k \in Host PROVE PendingInv(made, k)'
  <2>1. PendingInv(made, k) /\ creating[k] \in Nat /\ applying[k] \in Nat
    BY DEF Timed
  <2>2. \A j \in Host : creating[j] = 0 => creating'[j] = 0
    BY <1>4
  <2>3. creating'[k] = creating[k] \/ creating'[k] = 0
    BY <1>4
  <2> QED
    BY <1>1, <2>1, <2>2, <2>3 DEF PendingInv
<1>6. ASSUME NEW k \in Host PROVE Covered(t[k], k)'
  <2>1. Covered(t[k], k) /\ t[k] \in Nat
    BY DEF Timed, Informed
  <2>2. k = n => creating[k] = b.total /\ b \in Apply
    BY <1>1, <1>2
  <2>3. CASE \E i \in DOMAIN logEvents[k] :
               logEvents[k][i] \in Apply /\ logEvents[k][i].total >= t[k]
    BY <1>3, <2>3 DEF Covered, Grown
  <2>4. CASE k = n /\ creating[k] >= t[k]
    <3>1. PICK i \in DOMAIN logEvents'[n] : logEvents'[n][i] = b
      BY <1>3 DEF Grown
    <3> QED
      BY <1>2, <2>2, <2>4, <3>1 DEF Covered
  <2> QED
    BY <1>4, <2>1, <2>3, <2>4 DEF Covered
<1>7. ASSUME NEW k \in Host, NEW i \in DOMAIN logEvents'[k]
      PROVE  LineInv(made, k, logEvents[k][i])'
  <2>1. ASSUME NEW j \in Host, NEW ts \in Nat, AllLogged(j, ts), j # n
        PROVE  AllLogged(j, ts)'
    BY <1>3, <1>4, <2>1 DEF AllLogged, Grown
  <2>2. CASE i \in DOMAIN logEvents[k] /\ logEvents'[k][i] = logEvents[k][i]
    <3>1. PICK line : line = logEvents[k][i] /\ line = logEvents'[k][i]
      BY <2>2
    <3>2. LineInv(made, k, line) /\ (line \in Create \cup Apply => line.ts \in Nat)
      BY <2>2, <3>1 DEF Timed, Create, Apply
    <3>3. LineInv(made, k, line)'
      <4>1. line.ts < logClock'
        BY <1>1, <1>4, <3>2 DEF LineInv
      <4>2. ASSUME line \in Apply, line.total = made, NEW j \in Host, j # k \/ Host = {k}
            PROVE  AllLogged(j, line.ts)'
        <5>1. AllLogged(j, line.ts)
          BY <3>2, <4>2 DEF LineInv
        <5>2. j # n
          BY <5>1 DEF AllLogged
        <5> QED
          BY <2>1, <3>2, <5>1, <5>2 DEF LineInv
      <4> QED
        BY <3>2, <4>1, <4>2 DEF LineInv
    <3> QED
      BY <3>1, <3>3
  <2>3. CASE k = n /\ logEvents'[k][i] = a
    <3>1. LineInv(made, n, a)'
      BY <1>1, <1>2, <1>4 DEF LineInv
    <3> QED
      BY <2>3, <3>1
  <2>4. CASE k = n /\ logEvents'[k][i] = b
    <3>1. ASSUME v = made, NEW j \in Host PROVE AllLogged(j, c + 1)'
      <4>1. creating'[j] = 0
        BY <1>1, <1>4, <3>1
      <4>2. ASSUME NEW h \in DOMAIN logEvents'[j], logEvents'[j][h] \in Create
            PROVE  logEvents'[j][h].ts < c + 1
        <5>1. CASE h \in DOMAIN logEvents[j] /\ logEvents'[j][h] = logEvents[j][h]
          <6>1. LineInv(made, j, logEvents[j][h]) /\ logEvents[j][h].ts \in Nat
            BY <4>2, <5>1 DEF Timed, Create
          <6> QED
            BY <1>1, <5>1, <6>1 DEF LineInv
        <5>2. CASE logEvents'[j][h] \in {a, b}
          <6>1. a.ts = c /\ b \notin Create /\ c < c + 1
            BY <1>2
          <6>2. PICK line : line = logEvents'[j][h] /\ line \in Create /\ line \in {a, b}
            BY <4>2, <5>2
          <6>3. line.ts < c + 1
            BY ONLY <6>1, <6>2
          <6> QED
            BY <6>2, <6>3
        <5> QED
          BY <1>3, <5>1, <5>2 DEF Grown
      <4> QED
        BY <4>1, <4>2 DEF AllLogged
    <3>2. LineInv(made, n, b)'
      BY <1>1, <1>2, <1>4, <3>1 DEF LineInv
    <3> QED
      BY <2>4, <3>2
  <2>5. \/ i \in DOMAIN logEvents[k] /\ logEvents'[k][i] = logEvents[k][i]
        \/ k = n /\ logEvents'[k][i] \in {a, b}
    BY ONLY <1>3, <1>7 DEF Grown
  <2> QED
    BY <2>2, <2>3, <2>4, <2>5
<1> QED
  BY <1>3, <1>4, <1>5, <1>6, <1>7 DEF Timed, Grown

LEMMA LogApplyTimed ==
  ASSUME NEW t, NEW made, Informed(t, made, creating), Timed(t, made), NEW n \in Host,
         applying[n] # 0, applying' = [applying EXCEPT ![n] = 0],
         logEvents' = [logEvents EXCEPT ![n] = Append(logEvents[n],
           [event |-> "op_apply", ts |-> logClock, total |-> applying[n]])],
         logClock' = logClock + 1, UNCHANGED <<creating, monitor>>
  PROVE  Timed(t, made)'
<1>1. PICK v \in Nat, c \in Nat :
        /\ v = applying[n] /\ v > 0 /\ v <= made /\ c = logClock /\ made \in Nat /\ Host # {n}
        /\ v = made => \A j \in Host \ {n} : creating[j] = 0
  BY DEF Timed, PendingInv, Informed
<1>2. PICK b \in Apply :
        /\ b = [event |-> "op_apply", ts |-> c, total |-> v]
        /\ b.ts = c /\ b.total = v /\ b \notin Create
  <2>1. [event |-> "op_apply", ts |-> c, total |-> v] \in Apply
    BY DEF Apply
  <2>2. [event |-> "op_apply", ts |-> c, total |-> v] \notin Create
    BY DEF Create
  <2> QED
    BY <2>1, <2>2
<1>3. Grown(Create \cup Apply, n, {b})
  BY <1>1, <1>2, GrownByOne DEF Timed
<1>4. /\ applying' \in [Host -> Nat] /\ logClock' \in Nat /\ logClock' = c + 1
      /\ \A k \in Host : applying'[k] = IF k = n THEN 0 ELSE applying[k]
  BY <1>1 DEF Timed
<1>5. ASSUME NEW k \in Host PROVE PendingInv(made, k)'
  <2>1. PendingInv(made, k) /\ creating[k] \in Nat /\ applying[k] \in Nat
    BY DEF Timed
  <2>2. applying'[k] = applying[k] \/ applying'[k] = 0
    BY <1>4
  <2> QED
    BY <1>1, <2>1, <2>2 DEF PendingInv
<1>6. ASSUME NEW k \in Host PROVE Covered(t[k], k)'
  <2>1. Covered(t[k], k) /\ t[k] \in Nat
    BY DEF Timed, Informed
  <2>2. k = n => applying[k] = b.total /\ b \in Apply
    BY <1>1, <1>2
  <2>3. CASE \E i \in DOMAIN logEvents[k] :
               logEvents[k][i] \in Apply /\ logEvents[k][i].total >= t[k]
    BY <1>3, <2>3 DEF Covered, Grown
  <2>4. CASE k = n /\ applying[k] >= t[k]
    <3>1. PICK i \in DOMAIN logEvents'[n] : logEvents'[n][i] = b
      BY <1>3 DEF Grown
    <3> QED
      BY <1>2, <2>2, <2>4, <3>1 DEF Covered
  <2> QED
    BY <1>4, <2>1, <2>3, <2>4 DEF Covered
<1>7. ASSUME NEW k \in Host, NEW i \in DOMAIN logEvents'[k]
      PROVE  LineInv(made, k, logEvents[k][i])'
  <2>1. ASSUME NEW j \in Host, NEW ts \in Nat, AllLogged(j, ts)
        PROVE  AllLogged(j, ts)'
    <3>1. ASSUME NEW h \in DOMAIN logEvents'[j], logEvents'[j][h] \in Create
          PROVE  logEvents'[j][h].ts < ts
      <4>1. h \in DOMAIN logEvents[j] /\ logEvents'[j][h] = logEvents[j][h]
        BY <1>2, <1>3, <3>1 DEF Grown
      <4> QED
        BY <2>1, <3>1, <4>1 DEF AllLogged
    <3> QED
      BY <2>1, <3>1 DEF AllLogged
  <2>2. CASE i \in DOMAIN logEvents[k] /\ logEvents'[k][i] = logEvents[k][i]
    <3>1. PICK line : line = logEvents[k][i] /\ line = logEvents'[k][i]
      BY <2>2
    <3>2. LineInv(made, k, line) /\ (line \in Create \cup Apply => line.ts \in Nat)
      BY <2>2, <3>1 DEF Timed, Create, Apply
    <3>3. LineInv(made, k, line)'
      <4>1. line.ts < logClock'
        BY <1>1, <1>4, <3>2 DEF LineInv
      <4>2. ASSUME line \in Apply, line.total = made, NEW j \in Host, j # k \/ Host = {k}
            PROVE  AllLogged(j, line.ts)'
        BY <2>1, <3>2, <4>2 DEF LineInv
      <4> QED
        BY <3>2, <4>1, <4>2 DEF LineInv
    <3> QED
      BY <3>1, <3>3
  <2>3. CASE k = n /\ logEvents'[k][i] = b
    <3>1. ASSUME v = made, NEW j \in Host, j # n \/ Host = {n} PROVE AllLogged(j, c)'
      <4>1. creating[j] = 0 /\ j # n
        BY <1>1, <3>1
      <4>2. ASSUME NEW h \in DOMAIN logEvents[j], logEvents[j][h] \in Create
            PROVE  logEvents[j][h].ts < c
        BY <1>1, <4>2 DEF Timed, LineInv
      <4> QED
        BY <2>1, <4>1, <4>2 DEF AllLogged
    <3>2. LineInv(made, n, b)'
      BY <1>1, <1>2, <1>4, <3>1 DEF LineInv
    <3> QED
      BY <2>3, <3>2
  <2>4. \/ i \in DOMAIN logEvents[k] /\ logEvents'[k][i] = logEvents[k][i]
        \/ k = n /\ logEvents'[k][i] \in {b}
    BY ONLY <1>3, <1>7 DEF Grown
  <2> QED
    BY <2>2, <2>3, <2>4
<1> QED
  BY <1>3, <1>4, <1>5, <1>6, <1>7 DEF Timed, Grown

LEMMA TimedSame ==
  ASSUME NEW t, NEW made, Timed(t, made),
         UNCHANGED <<creating, applying, logEvents, logClock, monitor>>
  PROVE  Timed(t, made)'
<1>1. ASSUME NEW k \in Host, NEW i \in DOMAIN logEvents[k]
      PROVE  LineInv(made, k, logEvents[k][i])'
  BY DEF Timed, LineInv, AllLogged
<1>2. ASSUME NEW k \in Host PROVE PendingInv(made, k)' /\ Covered(t[k], k)'
  BY DEF Timed, PendingInv, Covered
<1> QED
  BY <1>1, <1>2 DEF Timed

TimesInv ==
  /\ Known /\ Timed(Totals, Made)
  /\ report # Times!Unparsed => stopped /\ \A n \in Host : creating[n] = 0 /\ applying[n] = 0
  /\ ConvergenceMeasured

LEMMA NotReported ==
  ASSUME report' = Times!Unparsed PROVE ConvergenceMeasured'
  BY DEF ConvergenceMeasured, Times!ConvergenceMeasured, Times!Unparsed

\* The logs that parse_convergence reads, if they are complete.
LEMMA CompleteLogs ==
  ASSUME Known, Timed(Totals, Made), Times!Complete
  PROVE  Times!Monitored = Host /\ Times!GroundTruth = Made
<1>1. Times!Monitored = Host
  BY DEF Times!Monitored, Times!Complete
<1>2. [n \in Host |-> monitor[n].local] = Own
  BY DEF Times!Complete, Own
<1>3. [n \in Times!Monitored |-> monitor[n].local] = Own
  BY <1>1, <1>2
<1> QED
  BY <1>1, <1>3, TimesSum DEF Times!GroundTruth, Made

\* The lines that reach the ground truth.
Reaching(k) == {i \in Times!Lines(k, "op_apply") :
                  logEvents[k][i].total * 100 >= 100 * Times!GroundTruth}

LEMMA ReachingLines ==
  ASSUME Known, Timed(Totals, Made), Times!GroundTruth = Made, NEW k \in Host
  PROVE  Reaching(k) = {i \in DOMAIN logEvents[k] :
                          logEvents[k][i] \in Apply /\ logEvents[k][i].total = Made}
<1>1. Made \in Nat
  BY KnownInforms DEF Informed
<1>2. ASSUME NEW i \in DOMAIN logEvents[k]
      PROVE  /\ LineInv(Made, k, logEvents[k][i])
             /\ logEvents[k][i].event = "op_apply" <=> logEvents[k][i] \in Apply
             /\ logEvents[k][i] \in Apply => logEvents[k][i].total \in Nat
  <2>1. PICK line : line = logEvents[k][i]
    OBVIOUS
  <2>2. LineInv(Made, k, line) /\ line \in Create \cup Apply
    BY <2>1 DEF Timed, LineInv
  <2>3. /\ line.event = "op_apply" <=> line \in Apply
        /\ line \in Apply => line.total \in Nat
    BY <2>2 DEF Create, Apply
  <2> QED
    BY <2>1, <2>2, <2>3
<1>3. ASSUME NEW i \in DOMAIN logEvents[k], logEvents[k][i] \in Apply
      PROVE  logEvents[k][i].total * 100 >= 100 * Made <=> logEvents[k][i].total = Made
  <2>1. PICK v \in Nat : v = logEvents[k][i].total /\ v <= Made
    BY <1>2, <1>3 DEF LineInv
  <2> QED
    BY <1>1, <2>1
<1> QED
  BY <1>2, <1>3 DEF Reaching, Times!Lines

\* The node whose total a converged monitor shows has logged it.
LEMMA ConvergedReached ==
  ASSUME Known, Timed(Totals, Made), Times!GroundTruth = Made, Times!Creates # {},
         NEW k \in Host, creating[k] = 0, applying[k] = 0, monitor[k].total = Made
  PROVE  Reaching(k) # {}
<1>1. PICK t \in Nat : t = Totals[k] /\ t <= Made /\ Made \in Nat
  BY KnownInforms DEF Informed
<1>2. Made > 0
  <2>0. PICK m \in Host : \E i \in DOMAIN logEvents[m] : logEvents[m][i].event = "op_create"
    BY DEF Times!Creates, Times!Lines
  <2>1. PICK i \in DOMAIN logEvents[m] : logEvents[m][i].event = "op_create"
    BY <2>0
  <2>2. PICK line : line = logEvents[m][i] /\ line.event = "op_create"
    BY <2>1
  <2>3. LineInv(Made, m, line)
    BY <2>2 DEF Timed
  <2>4. line \in Create
    BY <2>2, <2>3 DEF LineInv, Apply
  <2> QED
    BY <2>3, <2>4 DEF LineInv
<1>3. t = Made
  BY <1>1 DEF Timed
<1>4. \E i \in DOMAIN logEvents[k] : logEvents[k][i] \in Apply /\ logEvents[k][i].total >= Made
  <2>1. Covered(t, k)
    BY <1>1 DEF Timed
  <2> QED
    BY <1>1, <1>2, <1>3, <2>1 DEF Covered
<1>5. PICK i \in DOMAIN logEvents[k] : logEvents[k][i] \in Apply /\ logEvents[k][i].total >= Made
  BY <1>4
<1>6. PICK v \in Nat : v = logEvents[k][i].total /\ v <= Made /\ v >= Made
  BY <1>5 DEF Timed, LineInv, Apply
<1>7. logEvents[k][i].total = Made
  BY <1>1, <1>6
<1>8. i \in Reaching(k)
  BY <1>5, <1>7, ReachingLines
<1> QED
  BY <1>8

\* When a node first reached the ground truth, if it has.
FirstReached(k) == logEvents[k][Times!Min(Reaching(k))].ts
ReachedBy == {k \in Host : Reaching(k) # {}}

LEMMA FirstReaching ==
  ASSUME Known, Timed(Totals, Made), Times!GroundTruth = Made, NEW k \in Host, Reaching(k) # {}
  PROVE  \E i \in DOMAIN logEvents[k] :
           /\ FirstReached(k) = logEvents[k][i].ts
           /\ logEvents[k][i] \in Apply /\ logEvents[k][i].total = Made
<1>1. DOMAIN logEvents[k] = 1 .. Len(logEvents[k]) /\ Len(logEvents[k]) \in Nat
  BY DEF Timed
<1>2. Reaching(k) \subseteq 1 .. Len(logEvents[k])
  BY <1>1, ReachingLines
<1>3. IsFiniteSet(Reaching(k)) /\ Reaching(k) \subseteq Int
  <2>1. IsFiniteSet(1 .. Len(logEvents[k]))
    BY <1>1, FS_Interval
  <2> QED
    BY <1>1, <1>2, <2>1, FS_Subset
<1>4. \E x \in Reaching(k) : \A y \in Reaching(k) : x <= y
  BY <1>3, Extremes
<1>5. PICK i \in Reaching(k) : i = Times!Min(Reaching(k))
  BY <1>4 DEF Times!Min
<1> QED
  BY <1>5, ReachingLines DEF FirstReached

\* The last increment was logged before some node reached the ground truth.
LEMMA ReachedAfter ==
  ASSUME Known, Timed(Totals, Made), Times!GroundTruth = Made,
         \A k \in Host : Reaching(k) # {}, NEW c \in Times!Creates
  PROVE  \E k \in Host : FirstReached(k) > c
<1>0. PICK m \in Host : \E i \in DOMAIN logEvents[m] :
        logEvents[m][i].event = "op_create" /\ c = logEvents[m][i].ts
  BY DEF Times!Creates, Times!Lines
<1>1. PICK i \in DOMAIN logEvents[m] : logEvents[m][i].event = "op_create" /\ c = logEvents[m][i].ts
  BY <1>0
<1>2. logEvents[m][i] \in Create
  BY <1>1 DEF Timed, LineInv, Apply
<1>3. PICK k \in Host : m # k \/ Host = {k}
  <2>1. CASE Host = {m}
    BY <2>1
  <2>2. CASE Host # {m}
    BY <2>2
  <2> QED
    BY <2>1, <2>2
<1>4. PICK h \in DOMAIN logEvents[k] :
        /\ FirstReached(k) = logEvents[k][h].ts
        /\ logEvents[k][h] \in Apply /\ logEvents[k][h].total = Made
  BY FirstReaching
<1>5. AllLogged(m, logEvents[k][h].ts)
  BY <1>3, <1>4 DEF Timed, LineInv
<1>6. c < logEvents[k][h].ts /\ c \in Nat /\ logEvents[k][h].ts \in Nat
  BY <1>1, <1>2, <1>4, <1>5 DEF AllLogged, Create, Apply
<1> QED
  BY <1>4, <1>6

LEMMA TimesBounded ==
  ASSUME Known, Timed(Totals, Made), Times!GroundTruth = Made
  PROVE  /\ logClock \in Nat /\ IsFiniteSet(0 .. logClock)
         /\ Times!Creates \subseteq 0 .. logClock
         /\ \A k \in Host : Reaching(k) # {} => FirstReached(k) \in 0 .. logClock
<1>1. logClock \in Nat /\ IsFiniteSet(0 .. logClock)
  BY FS_Interval DEF Timed
<1>2. ASSUME NEW k \in Host, NEW i \in DOMAIN logEvents[k]
      PROVE  logEvents[k][i].ts \in 0 .. logClock
  <2>1. PICK line : line = logEvents[k][i] /\ LineInv(Made, k, line)
    BY DEF Timed
  <2>2. line.ts \in Nat /\ line.ts < logClock
    BY <2>1 DEF LineInv, Create, Apply
  <2> QED
    BY <1>1, <2>1, <2>2
<1>3. Times!Creates \subseteq 0 .. logClock
  BY <1>2 DEF Times!Creates, Times!Lines
<1>4. ASSUME NEW k \in Host, Reaching(k) # {} PROVE FirstReached(k) \in 0 .. logClock
  BY <1>2, <1>4, FirstReaching
<1> QED
  BY <1>1, <1>3, <1>4

LEMMA AggTimeIs ==
  ASSUME Known, Timed(Totals, Made), Times!Monitored = Host, Times!GroundTruth = Made
  PROVE  /\ (\A k \in Host : Reaching(k) # {}) => Times!AggTime(100) # {}
         /\ Times!AggTime(100) # {} => /\ \A k \in Host : Reaching(k) # {}
                                     /\ Times!AggTime(100) =
                                          {Times!Max({FirstReached(k) : k \in Host})
                                             - Times!Max(Times!Creates)}
<1>1. PICK times : times = Times!Reached(100)
  OBVIOUS
<1>2. times = [k \in ReachedBy |-> FirstReached(k)]
  BY <1>1 DEF Times!Reached, ReachedBy, FirstReached, Reaching
<1>3. DOMAIN times = ReachedBy
  BY <1>2
<1>4. Times!AggTime(100) =
        IF Cardinality(ReachedBy) # Cardinality(Host) THEN {}
        ELSE {Times!Max({times[k] : k \in ReachedBy}) - Times!Max(Times!Creates)}
  BY <1>1, <1>3, TimesCardinality DEF Times!AggTime
<1>5. Cardinality(ReachedBy) = Cardinality(Host) => ReachedBy = Host
  BY HostAssumption, FS_Subset DEF ReachedBy
<1>6. (\A k \in Host : Reaching(k) # {}) <=> ReachedBy = Host
  BY DEF ReachedBy
<1>7. ASSUME ReachedBy = Host
      PROVE  {times[k] : k \in ReachedBy} = {FirstReached(k) : k \in Host}
  BY <1>2, <1>7
<1> QED
  BY <1>4, <1>5, <1>6, <1>7

LEMMA NotBeforeLast ==
  ASSUME Known, Timed(Totals, Made), Times!Monitored = Host, Times!GroundTruth = Made,
         Times!Creates # {}, NEW t \in Times!AggTime(100)
  PROVE  t >= 0
<1>1. PICK S : S = {FirstReached(k) : k \in Host}
  OBVIOUS
<1>2. /\ \A k \in Host : Reaching(k) # {}
      /\ t = Times!Max(S) - Times!Max(Times!Creates)
  BY <1>1, AggTimeIs
<1>3. PICK c \in Times!Creates : c = Times!Max(Times!Creates) /\ c \in Nat
  <2>1. IsFiniteSet(Times!Creates) /\ Times!Creates \subseteq Int /\ Times!Creates \subseteq Nat
    BY TimesBounded, FS_Subset
  <2>2. \E x \in Times!Creates : \A y \in Times!Creates : x >= y
    BY <2>1, Extremes
  <2> QED
    BY <2>1, <2>2 DEF Times!Max
<1>4. PICK k \in Host : FirstReached(k) > c
  BY <1>2, <1>3, ReachedAfter
<1>5. S \subseteq 0 .. logClock /\ FirstReached(k) \in S /\ logClock \in Nat
  BY <1>1, <1>2, TimesBounded
<1>6. PICK x \in S : x = Times!Max(S) /\ \A y \in S : x >= y
  <2>1. S \subseteq Int
    BY <1>5
  <2>3. IsFiniteSet(0 .. logClock)
    BY TimesBounded
  <2>4. IsFiniteSet(S)
    BY <1>5, <2>3, FS_Subset
  <2>2. \E x \in S : \A y \in S : x >= y
    BY <1>5, <2>1, <2>4, Extremes
  <2> QED
    BY <2>2 DEF Times!Max
<1>7. x \in Int /\ FirstReached(k) \in Int /\ x >= FirstReached(k)
  <2>1. S \subseteq Int
    BY <1>5
  <2> QED
    BY <1>5, <1>6, <2>1
<1> QED
  BY <1>2, <1>3, <1>4, <1>6, <1>7

LEMMA ParseMeasures ==
  ASSUME Known, Timed(Totals, Made), Times!ParseConvergence
  PROVE  ConvergenceMeasured'
<1> SUFFICES ASSUME report'.status = "report", Times!Complete'
             PROVE  /\ report'.converged => report'.convergence_time # {}
                    /\ \A t \in report'.convergence_time : t >= 0
  BY DEF ConvergenceMeasured, Times!ConvergenceMeasured
<1>1. Times!Complete /\ report' = Times!Result /\ \A n \in Host : creating[n] = 0 /\ applying[n] = 0
  BY DEF Times!ParseConvergence, Times!Complete, Times!Idle
<1>2. Times!Monitored = Host /\ Times!GroundTruth = Made
  BY <1>1, CompleteLogs
<1>3. Times!Creates # {} /\ Times!Monitored # {}
  BY <1>1 DEF Times!Result
<1>4. report'.convergence_time = Times!AggTime(100)
  BY <1>1, <1>3 DEF Times!Result
<1>5. report'.converged = (\A n \in Times!Monitored : Times!FinalTotals[n] = Times!GroundTruth)
  BY <1>1, <1>3 DEF Times!Result
<1>6. ASSUME report'.converged PROVE report'.convergence_time # {}
  <2>1. \A n \in Host : monitor[n].total = Made
    BY <1>2, <1>5, <1>6 DEF Times!FinalTotals
  <2>2. \A k \in Host : Reaching(k) # {}
    BY <1>1, <1>2, <1>3, <2>1, ConvergedReached
  <2> QED
    BY <1>2, <1>4, <2>2, AggTimeIs
<1>7. \A t \in report'.convergence_time : t >= 0
  BY <1>2, <1>3, <1>4, NotBeforeLast
<1> QED
  BY <1>6, <1>7

-----------------------------------------------------------------------------
LEMMA TimesStep == [Next]_vars => [Times!Next]_convergenceVars
  BY DEF Next, Others, vars

LEMMA TimesInit == Init => TimesInv
<1> SUFFICES ASSUME Init PROVE TimesInv
  OBVIOUS
<1>1. /\ seen = [n \in Host |-> [m \in Host |-> 0]]
      /\ creating = [n \in Host |-> 0] /\ applying = [n \in Host |-> 0]
      /\ logSent = [n \in Host |-> 0] /\ buffered = [n \in Host |-> 0]
      /\ logEvents = [n \in Host |-> << >>]
      /\ monitor = [n \in Host |-> [local |-> -1, total |-> -1]]
      /\ logClock = 0 /\ report = Times!Unparsed
  BY DEF Init, Times!Init, Times!Idle, Times!NoLine
<1>2. Known
  BY <1>1 DEF Known
<1>3. \A k \in Host : Totals[k] = 0
  <2>1. PICK zero \in Int : zero = 0
    OBVIOUS
  <2>3. SumFunction([m \in Host |-> zero]) = Cardinality(Host) * zero /\ Cardinality(Host) \in Nat
    BY HostAssumption, SumConstant
  <2>2. SumFunction([m \in Host |-> 0]) = 0
    BY <2>1, <2>3
  <2> QED
    BY <1>1, <2>2 DEF Totals
<1>4. Made \in Nat
  BY <1>2, KnownInforms DEF Informed
<1>5. Timed(Totals, Made)
  <2>1. \A k \in Host : PendingInv(Made, k) /\ Covered(Totals[k], k)
    BY <1>1, <1>3, <1>4 DEF PendingInv, Covered
  <2>2. \A k \in Host : DOMAIN logEvents[k] = {} /\ logEvents[k] \in Seq(Create \cup Apply)
    BY <1>1
  <2>3. \A k \in Host : monitor[k].total <= Totals[k]
    BY <1>1, <1>3
  <2> QED
    BY <1>1, <2>1, <2>2, <2>3 DEF Timed
<1>6. ConvergenceMeasured
  BY <1>1 DEF ConvergenceMeasured, Times!ConvergenceMeasured, Times!Unparsed
<1> QED
  BY <1>1, <1>2, <1>5, <1>6 DEF TimesInv

LEMMA TimesKeeps == TimesInv /\ [Times!Next]_convergenceVars => TimesInv'
<1> SUFFICES ASSUME TimesInv, [Times!Next]_convergenceVars PROVE TimesInv'
  OBVIOUS
<1>0. Known /\ Timed(Totals, Made) /\ Informed(Totals, Made, creating)
  BY KnownInforms DEF TimesInv
<1>a. PICK t, made : t = Totals /\ made = Made
  OBVIOUS
<1>1. ASSUME NEW n \in Host, Times!Increment(n) PROVE TimesInv'
  <2>1. PICK u : u = [t EXCEPT ![n] = t[n] + 1] /\ u = Totals' /\ Made' = made + 1
    BY <1>0, <1>a, <1>1, IncrementTotals
  <2>2. Known' /\ creating' = [creating EXCEPT ![n] = t[n] + 1]
    BY <1>0, <1>a, <1>1, IncrementTotals
  <2>3. creating[n] = 0 /\ UNCHANGED <<applying, logEvents, logClock, monitor, report>>
    BY <1>1 DEF Times!Increment, Times!Idle
  <2>4. Timed(u, made + 1)'
    BY <1>0, <1>a, <2>1, <2>2, <2>3, IncrementTimed
  <2>5. Timed(Totals, Made)'
    BY <2>1, <2>4
  <2>6. report' = Times!Unparsed
    BY <1>1, <2>3 DEF Times!Increment, TimesInv
  <2> QED
    BY <2>2, <2>5, <2>6, NotReported DEF TimesInv
<1>2. ASSUME NEW n \in Host, NEW m \in Host, Times!Receive(n, m) PROVE TimesInv'
  <2>1. /\ Known' /\ Made' = made /\ \A k \in Host \ {n} : Totals'[k] = t[k]
        /\ t[n] <= Totals'[n] /\ applying' = [applying EXCEPT ![n] = Totals'[n]]
    BY <1>0, <1>a, <1>2, ReceiveTotals
  <2>2. Host # {n} /\ UNCHANGED <<creating, logEvents, logClock, monitor, report>>
    BY <1>2 DEF Times!Receive
  <2>3. PICK u : u = Totals' /\ Informed(u, made, creating)
    <3>1. Informed(Totals, Made, creating)'
      BY <2>1, KnownInformsNext
    <3> QED
      BY <2>1, <2>2, <3>1 DEF Informed
  <2>4. Timed(u, made)'
    BY <1>0, <1>a, <2>1, <2>2, <2>3, ReceiveTimed
  <2>5. Timed(Totals, Made)'
    BY <2>1, <2>3, <2>4
  <2>6. report' = Times!Unparsed
    BY <1>2, <2>2 DEF Times!Receive, TimesInv
  <2> QED
    BY <2>1, <2>5, <2>6, NotReported DEF TimesInv
<1>3. ASSUME NEW n \in Host, Times!LogCreate(n) PROVE TimesInv'
  <2>1. Known'
    BY <1>0, <1>3 DEF Known, Times!LogCreate, Times!Idle
  <2>2. Timed(t, made)'
    BY <1>0, <1>a, <1>3, LogCreateTimed DEF Times!LogCreate, Times!Idle
  <2>3. Timed(Totals, Made)'
    BY <1>3, <1>a, <2>2 DEF Times!LogCreate, Totals, Made, Own
  <2>4. report' = Times!Unparsed
    BY <1>3 DEF Times!LogCreate, Times!Idle, TimesInv
  <2> QED
    BY <2>1, <2>3, <2>4, NotReported DEF TimesInv
<1>4. ASSUME NEW n \in Host, Times!LogApply(n) PROVE TimesInv'
  <2>1. Known'
    BY <1>0, <1>4 DEF Known, Times!LogApply
  <2>2. Timed(t, made)'
    BY <1>0, <1>a, <1>4, LogApplyTimed DEF Times!LogApply, Times!Idle
  <2>3. Timed(Totals, Made)'
    BY <1>4, <1>a, <2>2 DEF Times!LogApply, Totals, Made, Own
  <2>4. report' = Times!Unparsed
    BY <1>4 DEF Times!LogApply, Times!Idle, TimesInv
  <2> QED
    BY <2>1, <2>3, <2>4, NotReported DEF TimesInv
<1>5. ASSUME NEW n \in Host, Times!Send(n) PROVE TimesInv'
  <2>1. Known'
    BY <1>0, <1>5 DEF Known, Times!Send
  <2>2. Timed(t, made)'
    BY <1>0, <1>a, <1>5, TimedSame DEF Times!Send
  <2>3. Timed(Totals, Made)'
    BY <1>5, <1>a, <2>2 DEF Times!Send, Totals, Made, Own
  <2>4. report' = Times!Unparsed
    BY <1>5 DEF Times!Send, TimesInv
  <2> QED
    BY <2>1, <2>3, <2>4, NotReported DEF TimesInv
<1>6. ASSUME NEW n \in Host, Times!MonitorLine(n) PROVE TimesInv'
  <2>1. Known'
    BY <1>0, <1>6 DEF Known, Times!MonitorLine
  <2>2. monitor' = [monitor EXCEPT ![n] = [local |-> seen[n][n], total |-> t[n]]]
    BY <1>a, <1>6, TimesSum DEF Times!MonitorLine, Times!Total, Totals
  <2>3. Timed(t, made)'
    <3>1. t[n] \in Nat /\ seen[n][n] \in Nat /\ t \in [Host -> Nat]
      BY <1>0, <1>a DEF Informed, Known
    <3>2. monitor' \in [Host -> [local : Int, total : Int]] /\ \A k \in Host : monitor'[k].total <= t[k]
      BY <1>0, <1>a, <2>2, <3>1 DEF Timed
    <3>3. UNCHANGED <<creating, applying, logEvents, logClock>>
      BY <1>6 DEF Times!MonitorLine
    <3>4. Timed(t, made)
      BY <1>0, <1>a
    <3>5. ASSUME NEW k \in Host, NEW i \in DOMAIN logEvents[k]
          PROVE  LineInv(made, k, logEvents[k][i])'
      BY <3>3, <3>4 DEF Timed, LineInv, AllLogged
    <3>6. ASSUME NEW k \in Host PROVE PendingInv(made, k)' /\ Covered(t[k], k)'
      BY <3>3, <3>4 DEF Timed, PendingInv, Covered
    <3> QED
      BY <3>2, <3>3, <3>4, <3>5, <3>6 DEF Timed
  <2>4. Timed(Totals, Made)'
    BY <1>6, <1>a, <2>3 DEF Times!MonitorLine, Totals, Made, Own
  <2>5. report' = Times!Unparsed
    BY <1>6 DEF Times!MonitorLine, TimesInv
  <2> QED
    BY <2>1, <2>4, <2>5, NotReported DEF TimesInv
<1>7. ASSUME Times!Stop PROVE TimesInv'
  <2>1. Known'
    BY <1>0, <1>7 DEF Known, Times!Stop
  <2>2. Timed(t, made)'
    BY <1>0, <1>a, <1>7, TimedSame DEF Times!Stop
  <2>3. Timed(Totals, Made)'
    BY <1>7, <1>a, <2>2 DEF Times!Stop, Totals, Made, Own
  <2>4. report' = Times!Unparsed
    BY <1>7 DEF Times!Stop, TimesInv
  <2> QED
    BY <2>1, <2>3, <2>4, NotReported DEF TimesInv
<1>8. ASSUME Times!ParseConvergence PROVE TimesInv'
  <2>1. Known'
    BY <1>0, <1>8 DEF Known, Times!ParseConvergence
  <2>2. Timed(t, made)'
    BY <1>0, <1>a, <1>8, TimedSame DEF Times!ParseConvergence
  <2>3. Timed(Totals, Made)'
    BY <1>8, <1>a, <2>2 DEF Times!ParseConvergence, Totals, Made, Own
  <2>4. stopped' /\ \A n \in Host : creating'[n] = 0 /\ applying'[n] = 0
    BY <1>8 DEF Times!ParseConvergence, Times!Idle
  <2>5. ConvergenceMeasured'
    BY <1>0, <1>8, ParseMeasures
  <2> QED
    BY <2>1, <2>3, <2>4, <2>5 DEF TimesInv
<1>9. CASE UNCHANGED convergenceVars
  <2>1. Known'
    BY <1>0, <1>9 DEF Known, convergenceVars
  <2>2. Timed(t, made)'
    BY <1>0, <1>a, <1>9, TimedSame DEF convergenceVars
  <2>3. Timed(Totals, Made)'
    BY <1>9, <1>a, <2>2 DEF convergenceVars, Totals, Made, Own
  <2>4. ConvergenceMeasured'
    BY <1>9 DEF convergenceVars, TimesInv, ConvergenceMeasured, Times!ConvergenceMeasured, Times!Complete
  <2> QED
    BY <1>9, <2>1, <2>3, <2>4 DEF TimesInv, convergenceVars
<1> QED
  BY <1>1, <1>2, <1>3, <1>4, <1>5, <1>6, <1>7, <1>8, <1>9 DEF Times!Next

\* From complete logs, a run that converged has a time of convergence, and none
\* is before the last increment, although a node may log a total ahead of the
\* increment that is part of it.
THEOREM TimesMeasured == Spec => []ConvergenceMeasured
<1>1. TimesInv => ConvergenceMeasured
  BY DEF TimesInv
<1> QED
  BY <1>1, TimesInit, TimesStep, TimesKeeps, PTL DEF Spec

-----------------------------------------------------------------------------
(* Degrees.                                                                *)

Tree == 1 .. Vertices

\* p points upwards in trees whose roots are the values of top, and the sizes s
\* grow on the way: no path is longer than there are nodes.
Forest(p, s, top) ==
  /\ p \in [Tree -> Tree] /\ s \in [Tree -> Tree] /\ top \in [Tree -> Tree]
  /\ \A n \in Tree : /\ p[top[n]] = top[n] /\ top[p[n]] = top[n]
                     /\ p[n] = n => top[n] = n
                     /\ p[n] # n => s[n] < s[p[n]]

\* One round of find's loop, and all of them.
Up(w) ==
  IF w.parent[w.root] = w.root THEN w
  ELSE [root |-> w.parent[w.parent[w.root]],
        parent |-> [w.parent EXCEPT ![w.root] = w.parent[w.parent[w.root]]]]

Walk(p, a) ==
  CHOOSE g : g = [k \in 0 .. Vertices |-> IF k = 0 THEN [root |-> a, parent |-> p] ELSE Up(g[k - 1])]

LEMMA FindIsWalk == \A p, a : Graph!Find(p, a) = Walk(p, a)[Vertices]
  BY Zenon DEF Graph!Find, Walk, Up

\* The first n rounds; every number of rounds is defined.
WalksTo(p, a, n, g) ==
  g = [k \in 0 .. n |-> IF k = 0 THEN [root |-> a, parent |-> p] ELSE Up(g[k - 1])]

LEMMA WalkDefined ==
  ASSUME NEW p, NEW a
  PROVE  WalksTo(p, a, Vertices, Walk(p, a))
  <1> DEFINE C == {n \in Nat : \E g : WalksTo(p, a, n, g)}
  <1>1. 0 \in C
    <2> DEFINE g == [k \in 0 .. 0 |-> [root |-> a, parent |-> p]]
    <2>1. WalksTo(p, a, 0, g)
      <3>1. \A k \in 0 .. 0 : k = 0
        OBVIOUS
      <3> QED
        BY <3>1 DEF WalksTo
    <2> QED
      BY <2>1
  <1>2. ASSUME NEW n \in C PROVE n + 1 \in C
    <2>1. PICK g : WalksTo(p, a, n, g)
      OBVIOUS
    <2> DEFINE h == [k \in 0 .. n + 1 |-> IF k = 0 THEN [root |-> a, parent |-> p] ELSE Up(g[k - 1])]
    <2>2. ASSUME NEW k \in 0 .. n + 1, k # 0 PROVE h[k - 1] = g[k - 1]
      <3>1. PICK j \in 0 .. n : j = k - 1
        BY <2>2
      <3>2. h[j] = IF j = 0 THEN [root |-> a, parent |-> p] ELSE Up(g[j - 1])
        BY <3>1
      <3>3. g[j] = IF j = 0 THEN [root |-> a, parent |-> p] ELSE Up(g[j - 1])
        BY <2>1, <3>1 DEF WalksTo
      <3> QED
        BY <3>1, <3>2, <3>3
    <2>3. WalksTo(p, a, n + 1, h)
      BY <2>2 DEF WalksTo
    <2> QED
      BY <2>3
  <1>3. C = Nat
    <2> HIDE DEF C
    <2>1. C \subseteq Nat
      BY DEF C
    <2> QED
      BY <1>1, <1>2, <2>1, SetOfNat
  <1>4. PICK g : WalksTo(p, a, Vertices, g)
    BY <1>3, VerticesAssumption
  <1> QED
    BY <1>4, Zenon DEF Walk, WalksTo

\* After k rounds: the root is found, or the size met is larger than k.
Climbed(p, s, top, a, k, w) ==
  /\ w.root \in Tree /\ Forest(w.parent, s, top) /\ top[w.root] = top[a]
  /\ w.parent[w.root] = w.root \/ k < s[w.root]

LEMMA UpClimbs ==
  ASSUME NEW p, NEW s, NEW top, NEW a \in Tree, NEW k \in Nat, NEW w,
         Climbed(p, s, top, a, k, w)
  PROVE  Climbed(p, s, top, a, k + 1, Up(w))
  <1>1. CASE w.parent[w.root] = w.root
    BY <1>1 DEF Up, Climbed
  <1>2. CASE w.parent[w.root] # w.root
    <2>1. PICK q \in [Tree -> Tree], r \in Tree : q = w.parent /\ r = w.root
      BY DEF Climbed, Forest
    <2>2. PICK u \in Tree : u = q[q[r]]
      BY <2>1
    <2>3. Up(w) = [root |-> u, parent |-> [q EXCEPT ![r] = u]]
      BY <1>2, <2>1, <2>2 DEF Up
    <2>4. PICK q2 \in [Tree -> Tree] : q2 = [q EXCEPT ![r] = u]
      BY <2>1
    <2>5. Up(w).root = u /\ Up(w).parent = q2
      BY <2>3, <2>4
    <2>6. Forest(q, s, top) /\ q[r] # r /\ top[r] = top[a] /\ k < s[r]
      BY <1>2, <2>1 DEF Climbed
    <2>7. q2[r] = u /\ \A n \in Tree : n # r => q2[n] = q[n]
      BY <2>4
    <2>8. s[r] < s[q[r]] /\ s[q[r]] <= s[u] /\ top[u] = top[r] /\ u # r
      <3>1. PICK v \in Tree : v = q[r]
        OBVIOUS
      <3>2. s[r] < s[v] /\ top[v] = top[r] /\ s[r] \in Int /\ s[v] \in Int /\ s[u] \in Int
        BY <2>6, <3>1, VerticesAssumption DEF Forest, Tree
      <3>3. q[v] = u /\ top[u] = top[v]
        BY <2>2, <2>6, <3>1 DEF Forest
      <3>4. s[v] <= s[u]
        BY <2>6, <3>2, <3>3 DEF Forest
      <3> QED
        BY <3>1, <3>2, <3>3, <3>4
    <2>9. Forest(q2, s, top)
      <3>1. top[r] # r
        BY <2>6 DEF Forest
      <3>2. ASSUME NEW n \in Tree
            PROVE  /\ q2[top[n]] = top[n] /\ top[q2[n]] = top[n]
                   /\ q2[n] = n => top[n] = n
                   /\ q2[n] # n => s[n] < s[q2[n]]
        <4>1. top[n] # r
          BY <2>6 DEF Forest
        <4>2. q2[top[n]] = top[n]
          BY <2>6, <2>7, <4>1 DEF Forest
        <4>3. CASE n = r
          BY <2>6, <2>7, <2>8, <4>2, <4>3 DEF Forest, Tree
        <4>4. CASE n # r
          BY <2>6, <2>7, <4>2, <4>4 DEF Forest
        <4> QED
          BY <4>3, <4>4
      <3> QED
        BY <2>4, <2>6, <3>2 DEF Forest
    <2>10. s[r] \in Tree /\ s[u] \in Tree /\ s[q[r]] \in Tree
      BY <2>6 DEF Forest
    <2>11. k + 1 < s[u]
      BY <2>6, <2>8, <2>10 DEF Tree
    <2> QED
      BY <2>5, <2>6, <2>8, <2>9, <2>11 DEF Climbed
  <1> QED
    BY <1>1, <1>2

\* The loop ends at the top, and the halved paths have the same tops.
LEMMA FindsTop ==
  ASSUME NEW p, NEW s, NEW top, Forest(p, s, top), NEW a \in Tree
  PROVE  /\ Graph!Find(p, a).root = top[a]
         /\ Forest(Graph!Find(p, a).parent, s, top)
  <1>1. PICK g : g = Walk(p, a) /\ WalksTo(p, a, Vertices, g)
    BY WalkDefined
  <1> DEFINE C == {k \in Nat : k <= Vertices => Climbed(p, s, top, a, k, g[k])}
  <1>2. 0 \in C
    <2>1. g[0] = [root |-> a, parent |-> p]
      BY <1>1, VerticesAssumption DEF WalksTo
    <2>2. g[0].root = a /\ g[0].parent = p
      BY <2>1
    <2>3. s[a] \in Tree
      BY DEF Forest
    <2> QED
      BY <2>2, <2>3 DEF Climbed, Tree
  <1>3. ASSUME NEW k \in C PROVE k + 1 \in C
    <2>1. CASE k + 1 <= Vertices
      <3>1. Climbed(p, s, top, a, k, g[k])
        BY <2>1, VerticesAssumption
      <3>2. PICK j \in 0 .. Vertices : j = k + 1
        BY <2>1
      <3>3. g[j] = Up(g[j - 1])
        <4>1. g[j] = IF j = 0 THEN [root |-> a, parent |-> p] ELSE Up(g[j - 1])
          BY <1>1, <3>2 DEF WalksTo
        <4> QED
          BY <3>2, <4>1
      <3>4. g[k + 1] = Up(g[k])
        BY <3>2, <3>3
      <3> QED
        BY <3>1, <3>4, UpClimbs
    <2> QED
      BY <2>1
  <1>4. C = Nat
    <2> HIDE DEF C
    <2>1. C \subseteq Nat
      BY DEF C
    <2> QED
      BY <1>2, <1>3, <2>1, SetOfNat
  <1>5. Climbed(p, s, top, a, Vertices, g[Vertices])
    BY <1>4, VerticesAssumption
  <1>6. PICK w : w = g[Vertices]
    OBVIOUS
  <1>7. Graph!Find(p, a) = w
    BY <1>1, <1>6, FindIsWalk
  <1>8. Climbed(p, s, top, a, Vertices, w)
    BY <1>5, <1>6
  <1>9. w.parent[w.root] = w.root
    <2>1. s[w.root] \in Tree
      BY <1>8 DEF Climbed, Forest
    <2> QED
      BY <1>8, <2>1, VerticesAssumption DEF Climbed, Tree
  <1> QED
    BY <1>7, <1>8, <1>9 DEF Climbed, Forest
\* A root's size is the number of nodes under it.
Class(top, n) == {m \in Tree : top[m] = top[n]}

Sized(s, top) == \A n \in Tree : s[top[n]] = Cardinality(Class(top, n))

\* The tree with the root small becomes part of the one with the root big.
Merged(p, s, top, big, small, p2, s2, top2) ==
  /\ p2 = [p EXCEPT ![small] = big]
  /\ s2 = [s EXCEPT ![big] = s[big] + s[small]]
  /\ top2 = [n \in Tree |-> IF top[n] = small THEN big ELSE top[n]]

LEMMA JoinedForest ==
  ASSUME NEW p, NEW s, NEW top, Forest(p, s, top), Sized(s, top),
         NEW big \in Tree, NEW small \in Tree, big # small, top[big] = big, top[small] = small,
         NEW p2, NEW s2, NEW top2, Merged(p, s, top, big, small, p2, s2, top2)
  PROVE  Forest(p2, s2, top2) /\ Sized(s2, top2)
  <1> USE DEF Merged
  <1>1. /\ p \in [Tree -> Tree] /\ s \in [Tree -> Tree] /\ top \in [Tree -> Tree]
        /\ p[big] = big /\ p[small] = small
    BY DEF Forest
  <1>2. /\ p2 \in [Tree -> Tree] /\ top2 \in [Tree -> Tree]
        /\ p2[small] = big /\ \A n \in Tree : n # small => p2[n] = p[n]
        /\ \A n \in Tree : top2[n] = IF top[n] = small THEN big ELSE top[n]
    BY <1>1
  <1>3. /\ DOMAIN s2 = Tree /\ s2[big] = s[big] + s[small]
        /\ \A n \in Tree : n # big => s2[n] = s[n]
    BY <1>1
  <1>4. IsFiniteSet(Tree) /\ Cardinality(Tree) = Vertices
    BY VerticesAssumption, FS_Interval DEF Tree
  <1>5. Class(top2, big) = Class(top, big) \union Class(top, small)
    BY <1>2 DEF Class
  <1>6. Class(top, big) \intersect Class(top, small) = {}
    BY DEF Class
  <1>7. IsFiniteSet(Class(top, big)) /\ IsFiniteSet(Class(top, small)) /\ IsFiniteSet(Class(top2, big))
    BY <1>4, FS_Subset DEF Class
  <1>8. Cardinality(Class(top2, big)) = s[big] + s[small]
    <2>1. Cardinality(Class(top2, big)) =
            Cardinality(Class(top, big)) + Cardinality(Class(top, small)) - Cardinality({})
      BY <1>5, <1>6, <1>7, FS_Union
    <2>2. Cardinality(Class(top, big)) = s[big] /\ Cardinality(Class(top, small)) = s[small]
      BY DEF Sized
    <2>3. s[big] \in Int /\ s[small] \in Int
      BY <1>1 DEF Tree
    <2> QED
      BY <2>1, <2>2, <2>3, FS_EmptySet
  <1>9. Cardinality(Class(top2, big)) <= Vertices
    <2>1. Class(top2, big) \subseteq Tree
      BY DEF Class
    <2> QED
      BY <1>4, <2>1, FS_Subset
  <1>10. s[big] \in Tree /\ s[small] \in Tree
    BY <1>1
  <1>11. s2[big] \in Tree /\ s[small] < s2[big] /\ s[big] < s2[big]
    BY <1>3, <1>8, <1>9, <1>10, VerticesAssumption DEF Tree
  <1>12. s2 \in [Tree -> Tree]
    <2>1. \A n \in Tree : s2[n] \in Tree
      BY <1>1, <1>3, <1>11
    <2>2. s2 = [n \in Tree |-> s2[n]]
      BY <1>1
    <2> QED
      BY <2>1, <2>2
  <1>13. ASSUME NEW n \in Tree
         PROVE  /\ p2[top2[n]] = top2[n] /\ top2[p2[n]] = top2[n]
                /\ p2[n] = n => top2[n] = n
                /\ p2[n] # n => s2[n] < s2[p2[n]]
    <2>1. /\ p[top[n]] = top[n] /\ top[p[n]] = top[n] /\ p[n] \in Tree /\ top[n] \in Tree
          /\ p[n] = n => top[n] = n
          /\ p[n] # n => s[n] < s[p[n]]
      BY <1>1 DEF Forest
    <2>2. p2[top2[n]] = top2[n]
      BY <1>1, <1>2, <2>1
    <2>3. CASE n = small
      BY <1>2, <1>3, <1>11, <2>2, <2>3
    <2>4. CASE n # small
      <3>1. top2[p2[n]] = top2[n] /\ (p2[n] = n => top2[n] = n)
        BY <1>2, <2>1, <2>4
      <3>2. ASSUME p[n] # n PROVE s2[n] < s2[p[n]]
        <4>1. n # big
          BY <1>1, <3>2
        <4>2. s2[n] = s[n] /\ s[n] < s[p[n]]
          BY <1>3, <2>1, <3>2, <4>1
        <4>3. s[p[n]] = s2[p[n]] \/ p[n] = big
          BY <1>3, <2>1
        <4>4. s[n] \in Int /\ s[big] \in Int /\ s2[big] \in Int
          <5>1. s[n] \in Tree /\ s[big] \in Tree /\ s2[big] \in Tree
            BY <1>1, <1>11
          <5>2. Tree \subseteq Int
            BY VerticesAssumption DEF Tree
          <5> QED
            BY <5>1, <5>2
        <4> QED
          BY <1>11, <4>2, <4>3, <4>4
      <3> QED
        BY <1>2, <2>2, <2>4, <3>1, <3>2
    <2> QED
      BY <2>3, <2>4
  <1>14. Forest(p2, s2, top2)
    BY <1>2, <1>12, <1>13 DEF Forest
  <1>15. ASSUME NEW n \in Tree PROVE s2[top2[n]] = Cardinality(Class(top2, n))
    <2>1. CASE top2[n] = big
      <3>1. Class(top2, n) = Class(top2, big)
        BY <1>2, <2>1 DEF Class
      <3> QED
        BY <1>3, <1>8, <2>1, <3>1
    <2>2. CASE top2[n] # big
      <3>1. top2[n] = top[n] /\ top[n] # small /\ top[n] # big /\ top[n] \in Tree
        BY <1>1, <1>2, <2>2
      <3>2. Class(top2, n) = Class(top, n)
        BY <1>2, <3>1 DEF Class
      <3>3. s2[top[n]] = s[top[n]]
        BY <1>3, <3>1
      <3> QED
        BY <3>1, <3>2, <3>3 DEF Sized
    <2> QED
      BY <2>1, <2>2
  <1> QED
    BY <1>14, <1>15 DEF Sized

\* The pairs E connect m to n.
Linked(E, V, m, n) ==
  \A S \in SUBSET V : m \in S /\ (\A e \in E : e[1] \in S <=> e[2] \in S) => n \in S

\* Two nodes have one top exactly if the pairs E connect them.
Classes(E, V, top) ==
  /\ \A e \in E : top[e[1]] = top[e[2]]
  /\ \A m, n \in Tree : top[m] = top[n] => m = n \/ (m \in V /\ n \in V /\ Linked(E, V, m, n))

Grouped(E, V, p, s) == \E top : Forest(p, s, top) /\ Sized(s, top) /\ Classes(E, V, top)

\* One more pair.
LEMMA UniteGroups ==
  ASSUME NEW V, V \subseteq Tree, NEW E, \A f \in E : f[1] \in V /\ f[2] \in V,
         Grouped(E, V, parent, treeSize), NEW e, e[1] \in V, e[2] \in V,
         Graph!Unite(e[1], e[2]), NEW F, F = E \union {e}
  PROVE  Grouped(F, V, parent', treeSize')
  <1>1. PICK top : Forest(parent, treeSize, top) /\ Sized(treeSize, top) /\ Classes(E, V, top)
    BY DEF Grouped
  <1>2. PICK a \in Tree, b \in Tree : a = e[1] /\ b = e[2] /\ a \in V /\ b \in V
    OBVIOUS
  <1>3. PICK fa : fa = Graph!Find(parent, a)
    OBVIOUS
  <1>4. fa.root = top[a] /\ Forest(fa.parent, treeSize, top)
    BY <1>1, <1>3, FindsTop
  <1>5. PICK fb : fb = Graph!Find(fa.parent, b)
    OBVIOUS
  <1>6. fb.root = top[b] /\ Forest(fb.parent, treeSize, top)
    BY <1>4, <1>5, FindsTop
  <1>7. PICK p : p = fb.parent /\ Forest(p, treeSize, top)
    BY <1>6
  <1>8. PICK ra \in Tree, rb \in Tree : ra = top[a] /\ rb = top[b] /\ top[ra] = ra /\ top[rb] = rb
    BY <1>1 DEF Forest
  <1>9. IF ra = rb THEN parent' = p /\ treeSize' = treeSize ELSE Graph!Joined(p, ra, rb)
    BY <1>2, <1>3, <1>4, <1>5, <1>6, <1>7, <1>8 DEF Graph!Unite
  <1>10. \A m, n : Linked(E, V, m, n) => Linked(F, V, m, n)
    BY DEF Linked
  <1>11. Linked(F, V, a, b) /\ Linked(F, V, b, a)
    BY <1>2 DEF Linked
  <1>12. \A k, m, n : Linked(F, V, k, m) /\ Linked(F, V, m, n) => Linked(F, V, k, n)
    BY DEF Linked
  <1>13. \A m \in Tree : top[m] = ra => m \in V /\ (m = a \/ (Linked(F, V, m, a) /\ Linked(F, V, a, m)))
    BY <1>1, <1>2, <1>8, <1>10 DEF Classes
  <1>14. \A m \in Tree : top[m] = rb => m \in V /\ (m = b \/ (Linked(F, V, m, b) /\ Linked(F, V, b, m)))
    BY <1>1, <1>2, <1>8, <1>10 DEF Classes
  <1>15. CASE ra = rb
    <2>1. Classes(F, V, top)
      BY <1>1, <1>2, <1>8, <1>10, <1>15 DEF Classes
    <2> QED
      BY <1>1, <1>7, <1>9, <1>15, <2>1 DEF Grouped
  <1>16. CASE ra # rb
    <2>1. PICK big \in Tree, small \in Tree :
            /\ big = IF treeSize[ra] < treeSize[rb] THEN rb ELSE ra
            /\ small = IF treeSize[ra] < treeSize[rb] THEN ra ELSE rb
      OBVIOUS
    <2>2. {big, small} = {ra, rb} /\ big # small /\ top[big] = big /\ top[small] = small
      BY <1>8, <1>16, <2>1
    <2>3. /\ parent' = [p EXCEPT ![small] = big]
          /\ treeSize' = [treeSize EXCEPT ![big] = treeSize[big] + treeSize[small]]
      <3>1. treeSize \in [Tree -> Tree]
        BY <1>1 DEF Forest
      <3> QED
        BY <1>9, <1>16, <2>1, <3>1 DEF Graph!Joined
    <2>4. PICK top2 : top2 = [n \in Tree |-> IF top[n] = small THEN big ELSE top[n]]
      OBVIOUS
    <2>5. Forest(parent', treeSize', top2) /\ Sized(treeSize', top2)
      <3>1. PICK p2, s2 : p2 = parent' /\ s2 = treeSize'
        OBVIOUS
      <3>2. /\ p2 = [p EXCEPT ![small] = big]
            /\ s2 = [treeSize EXCEPT ![big] = treeSize[big] + treeSize[small]]
        BY <2>3, <3>1
      <3>3. Forest(p, treeSize, top) /\ Sized(treeSize, top)
        BY <1>1, <1>7
      <3>4. big \in Tree /\ small \in Tree /\ big # small /\ top[big] = big /\ top[small] = small
        BY <2>2
      <3>5. Merged(p, treeSize, top, big, small, p2, s2, top2)
        BY <2>4, <3>2 DEF Merged
      <3>6. Forest(p2, s2, top2) /\ Sized(s2, top2)
        BY <3>3, <3>4, <3>5, JoinedForest
      <3> QED
        BY <3>1, <3>6
    <2>6. top \in [Tree -> Tree] /\ \A n \in Tree : top2[n] = IF top[n] = small THEN big ELSE top[n]
      BY <1>1, <2>4 DEF Forest
    <2>7. ASSUME NEW f \in F PROVE top2[f[1]] = top2[f[2]]
      <3>1. CASE f = e
        BY <1>2, <1>8, <2>2, <2>6, <3>1
      <3>2. CASE f \in E
        <4>1. top[f[1]] = top[f[2]]
          BY <1>1, <3>2 DEF Classes
        <4> QED
          BY <2>6, <3>2, <4>1
      <3> QED
        BY <3>1, <3>2
    <2>8. ASSUME NEW m \in Tree, NEW n \in Tree, top2[m] = top2[n]
          PROVE  m = n \/ (m \in V /\ n \in V /\ Linked(F, V, m, n))
      <3>1. CASE top[m] = top[n]
        BY <1>1, <1>10, <3>1 DEF Classes
      <3>2. CASE top[m] # top[n]
        <4>1. (top[m] = ra /\ top[n] = rb) \/ (top[m] = rb /\ top[n] = ra)
          BY <2>2, <2>6, <2>8, <3>2
        <4> QED
          BY <1>11, <1>12, <1>13, <1>14, <4>1
      <3> QED
        BY <3>1, <3>2
    <2>9. Classes(F, V, top2)
      BY <2>7, <2>8 DEF Classes
    <2> QED
      BY <2>5, <2>9 DEF Grouped
  <1> QED
    BY <1>15, <1>16
SizeOf == [n \in Graph!Valid |-> Cardinality(Graph!Component(n))]

GraphInv ==
  /\ edges \subseteq Graph!Upper
  /\ step = "bin" => parent = [n \in Tree |-> n] /\ treeSize = [n \in Tree |-> 1]
  /\ step \in {"union", "table"} => Grouped(Graph!United, Graph!Valid, parent, treeSize)
  /\ step = "table" =>
       /\ DOMAIN table = Graph!Valid
       /\ \A n \in Graph!Valid :
            /\ table[n].component_size = Cardinality(Graph!Component(n))
            /\ table[n].components_count = Cardinality({Graph!Component(m) : m \in Graph!Valid})
  /\ step = "ecdf" =>
       ecdf = Graph!EcdfPoints(SizeOf)

\* What find answers is what the pairs united so far say.
LEMMA GroupsAreComponents ==
  Grouped(Graph!United, Graph!Valid, parent, treeSize) =>
    \A n \in Graph!Valid :
      /\ {m \in Graph!Valid : Graph!Root(m) = Graph!Root(n)} = Graph!Component(n)
      /\ treeSize[Graph!Root(n)] = Cardinality(Graph!Component(n))
  <1> SUFFICES ASSUME Grouped(Graph!United, Graph!Valid, parent, treeSize), NEW n \in Graph!Valid
               PROVE  /\ {m \in Graph!Valid : Graph!Root(m) = Graph!Root(n)} = Graph!Component(n)
                      /\ treeSize[Graph!Root(n)] = Cardinality(Graph!Component(n))
    OBVIOUS
  <1>1. PICK V : V = Graph!Valid /\ V \subseteq Tree /\ n \in V
    BY DEF Graph!Valid, Graph!Node, Tree
  <1>2. PICK E : E = Graph!United /\ \A e \in E : e[1] \in V /\ e[2] \in V
    BY <1>1 DEF Graph!United, Graph!Upper, Graph!Adj
  <1>3. PICK top : Forest(parent, treeSize, top) /\ Sized(treeSize, top) /\ Classes(E, V, top)
    BY <1>1, <1>2 DEF Grouped
  <1>4. \A m \in Tree : Graph!Root(m) = top[m]
    BY <1>3, FindsTop DEF Graph!Root
  <1>5. Graph!Component(n) = {m \in V : Linked(E, V, n, m)}
    BY <1>1, <1>2 DEF Graph!Component, Graph!Closed, Linked
  <1>6. PICK S : S = {m \in V : top[m] = top[n]}
    OBVIOUS
  <1>7. S = {m \in V : Linked(E, V, n, m)}
    <2>1. n \in S /\ S \subseteq V
      BY <1>1, <1>6
    <2>2. \A e \in E : e[1] \in S <=> e[2] \in S
      BY <1>2, <1>3, <1>6 DEF Classes
    <2>3. \A m : Linked(E, V, n, m) => m \in S
      BY <2>1, <2>2 DEF Linked
    <2>4. ASSUME NEW m \in S PROVE Linked(E, V, n, m)
      <3>1. m \in Tree /\ n \in Tree /\ top[n] = top[m]
        BY <1>1, <1>6
      <3>2. n = m \/ Linked(E, V, n, m)
        BY <1>3, <3>1 DEF Classes
      <3> QED
        BY <3>2 DEF Linked
    <2> QED
      BY <2>1, <2>3, <2>4
  <1>8. {m \in Graph!Valid : Graph!Root(m) = Graph!Root(n)} = S
    BY <1>1, <1>4, <1>6
  <1>9. Class(top, n) = S
    <2>1. \A m \in Tree : top[m] = top[n] => m \in V
      BY <1>1, <1>3 DEF Classes
    <2> QED
      BY <1>1, <1>6, <2>1 DEF Class
  <1>10. treeSize[top[n]] = Cardinality(S)
    BY <1>1, <1>3, <1>9 DEF Sized
  <1> QED
    BY <1>1, <1>4, <1>5, <1>7, <1>8, <1>10

\* There are as many roots as components.
LEMMA RootsCounted ==
  Grouped(Graph!United, Graph!Valid, parent, treeSize) =>
    Cardinality({Graph!Root(m) : m \in Graph!Valid}) =
      Cardinality({Graph!Component(m) : m \in Graph!Valid})
  <1> SUFFICES ASSUME Grouped(Graph!United, Graph!Valid, parent, treeSize)
               PROVE  Cardinality({Graph!Root(m) : m \in Graph!Valid}) =
                        Cardinality({Graph!Component(m) : m \in Graph!Valid})
    OBVIOUS
  <1>1. PICK V : V = Graph!Valid /\ V \subseteq Tree
    BY DEF Graph!Valid, Graph!Node, Tree
  <1>2. PICK R, C : /\ R = {Graph!Root(m) : m \in Graph!Valid}
                    /\ C = {Graph!Component(m) : m \in Graph!Valid}
    OBVIOUS
  <1>3. \A m \in V : Graph!Component(m) = {k \in V : Graph!Root(k) = Graph!Root(m)}
    BY <1>1, GroupsAreComponents
  <1>4. R \subseteq Tree
    <2>1. PICK top : Forest(parent, treeSize, top)
      BY DEF Grouped
    <2>a. \A m \in Tree : Graph!Root(m) = top[m]
      BY <2>1, FindsTop DEF Graph!Root
    <2>2. \A m \in Tree : Graph!Root(m) = top[m] /\ top[m] \in Tree
      BY <2>1, <2>a DEF Forest
    <2> QED
      BY <1>1, <1>2, <2>2
  <1>5. IsFiniteSet(R)
    <2>1. IsFiniteSet(Tree)
      BY VerticesAssumption, FS_Interval DEF Tree
    <2> QED
      BY <1>4, <2>1, FS_Subset
  <1>6. PICK f : f = [r \in R |-> {k \in V : Graph!Root(k) = r}]
    OBVIOUS
  <1>7. DOMAIN f = R /\ \A m \in V : f[Graph!Root(m)] = Graph!Component(m)
    BY <1>1, <1>2, <1>3, <1>6
  <1>8. f \in [R -> C]
    BY <1>1, <1>2, <1>6, <1>7
  <1>9. \A c \in C : \E r \in R : f[r] = c
    BY <1>1, <1>2, <1>7
  <1>10. ASSUME NEW q \in R, NEW r \in R, f[q] = f[r] PROVE q = r
    <2>1. PICK m \in V : q = Graph!Root(m)
      BY <1>1, <1>2
    <2>2. m \in f[q] /\ f[r] = {k \in V : Graph!Root(k) = r}
      BY <1>6, <2>1
    <2> QED
      BY <1>10, <2>1, <2>2
  <1>11. f \in Bijection(R, C)
    BY <1>7, <1>8, <1>9, <1>10 DEF Bijection, Injection, Surjection, IsInjective
  <1> QED
    BY <1>2, <1>5, <1>11, FS_Bijection DEF ExistsBijection

\* Nothing is united at first.
LEMMA SingleNodes ==
  ASSUME NEW V
  PROVE  Grouped({}, V, [n \in Tree |-> n], [n \in Tree |-> 1])
  <1>1. PICK p \in [Tree -> Tree] : p = [n \in Tree |-> n]
    OBVIOUS
  <1>a. PICK s : s = [n \in Tree |-> 1]
    OBVIOUS
  <1>2. \A n \in Tree : s[n] = 1
    BY <1>a
  <1>3. s \in [Tree -> Tree]
    <2>1. \A n \in Tree : 1 \in Tree
      BY VerticesAssumption DEF Tree
    <2> QED
      BY <1>a, <2>1
  <1>4. \A n \in Tree : p[n] = n
    BY <1>1
  <1>5. Forest(p, s, p)
    BY <1>3, <1>4 DEF Forest
  <1>6. Sized(s, p)
    <2>1. \A n \in Tree : Class(p, n) = {n}
      BY <1>4 DEF Class
    <2> QED
      BY <1>2, <1>4, <2>1, FS_Singleton DEF Sized
  <1>7. Classes({}, V, p)
    BY <1>4 DEF Classes
  <1> QED
    BY <1>1, <1>a, <1>5, <1>6, <1>7 DEF Grouped

LEMMA GraphCardinality == \A S : Graph!Cardinality(S) = Cardinality(S)
  BY DEF Graph!Cardinality, Cardinality

LEMMA GraphStep == [Next]_vars => [Graph!Next]_degreesVars
  BY DEF Next, Others, vars

LEMMA GraphInit == Init => GraphInv
  BY DEF Init, Graph!Init, GraphInv, Tree, Graph!Node

\* The first of the pairs left is one of them.
LEMMA FirstEdge ==
  ASSUME NEW E, E \subseteq Tree \X Tree, E # {}
  PROVE  \E e \in E : \A f \in E : e[1] < f[1] \/ (e[1] = f[1] /\ e[2] <= f[2])
  <1>1. IsFiniteSet(Tree) /\ Tree \subseteq Int
    BY VerticesAssumption, FS_Interval DEF Tree
  <1>2. PICK A : A = {x \in Tree : \E e \in E : e[1] = x}
    OBVIOUS
  <1>3. IsFiniteSet(A) /\ A # {} /\ A \subseteq Int
    BY <1>1, <1>2, FS_Subset
  <1>4. PICK x \in A : \A y \in A : x <= y
    BY <1>3, Extremes
  <1>5. PICK B : B = {y \in Tree : <<x, y>> \in E}
    OBVIOUS
  <1>6. IsFiniteSet(B) /\ B # {} /\ B \subseteq Int
    <2>1. PICK e \in E : e[1] = x
      BY <1>2
    <2>2. e = <<x, e[2]>> /\ e[2] \in Tree
      BY <2>1
    <2> QED
      BY <1>1, <1>5, <2>2, FS_Subset
  <1>7. PICK y \in B : \A z \in B : y <= z
    BY <1>6, Extremes
  <1>8. <<x, y>> \in E
    BY <1>5
  <1>9. ASSUME NEW f \in E PROVE x < f[1] \/ (x = f[1] /\ y <= f[2])
    <2>1. f[1] \in A /\ f = <<f[1], f[2]>> /\ f[2] \in Tree
      BY <1>2
    <2>2. x <= f[1] /\ x \in Int /\ f[1] \in Int
      BY <1>3, <1>4, <2>1
    <2>3. x = f[1] => f[2] \in B
      BY <1>5, <2>1
    <2> QED
      BY <1>7, <2>2, <2>3
  <1> QED
    BY <1>8, <1>9

LEMMA GraphKeeps == GraphInv /\ [Graph!Next]_degreesVars => GraphInv'
  <1> SUFFICES ASSUME GraphInv, [Graph!Next]_degreesVars PROVE GraphInv'
    OBVIOUS
  <1>1. ASSUME Graph!ReadBin PROVE GraphInv'
    <2>1. /\ step' = "union" /\ edges' = Graph!Upper'
          /\ parent' = [n \in Tree |-> n] /\ treeSize' = [n \in Tree |-> 1]
      <3>1. edges' = Graph!Upper'
        <4>1. edges' = {e \in Graph!Node \X Graph!Node :
                /\ e[1] < e[2] /\ pos'[e[1]] # Graph!NoFix /\ pos'[e[2]] # Graph!NoFix
                /\ Graph!InRange(e[1], e[2])'}
          BY <1>1 DEF Graph!ReadBin
        <4>2. Graph!Valid' = {n \in Graph!Node : pos'[n] # Graph!NoFix}
          BY DEF Graph!Valid
        <4>3. Graph!Upper' = {e \in Graph!Valid' \X Graph!Valid' :
                e[1] # e[2] /\ Graph!InRange(e[1], e[2])' /\ e[1] < e[2]}
          BY DEF Graph!Upper, Graph!Adj
        <4>4. \A n \in Graph!Node : n \in Int
          BY VerticesAssumption DEF Graph!Node
        <4> QED
          BY <4>1, <4>2, <4>3, <4>4
      <3> QED
        BY <1>1, <3>1 DEF Graph!ReadBin, GraphInv
    <2>2. Graph!United' = {}
      BY <2>1 DEF Graph!United
    <2>3. Grouped(Graph!United, Graph!Valid, parent, treeSize)'
      <3>1. PICK V : V = Graph!Valid'
        OBVIOUS
      <3>2. Grouped({}, V, parent', treeSize')
        BY <2>1, SingleNodes
      <3> QED
        BY <2>2, <3>1, <3>2
    <2> QED
      BY <2>1, <2>3 DEF GraphInv
  <1>2. ASSUME Graph!NextEdge PROVE GraphInv'
    <2>1. PICK e : /\ e = CHOOSE d \in edges : \A f \in edges : d[1] < f[1] \/ (d[1] = f[1] /\ d[2] <= f[2])
                   /\ Graph!Unite(e[1], e[2]) /\ edges' = edges \ {e}
      BY <1>2 DEF Graph!NextEdge
    <2>2. edges \subseteq Graph!Upper /\ Graph!Upper \subseteq Tree \X Tree
      BY DEF GraphInv, Graph!Upper, Graph!Adj, Graph!Valid, Graph!Node, Tree
    <2>3. e \in edges
      <3>1. edges \subseteq Tree \X Tree /\ edges # {}
        BY <1>2, <2>2 DEF Graph!NextEdge
      <3>2. \E d \in edges : \A f \in edges : d[1] < f[1] \/ (d[1] = f[1] /\ d[2] <= f[2])
        BY <3>1, FirstEdge
      <3> QED
        BY <2>1, <3>2
    <2>4. step = "union" /\ step' = "union" /\ pos' = pos
      BY <1>2 DEF Graph!NextEdge
    <2>5. Graph!Valid' = Graph!Valid /\ Graph!Upper' = Graph!Upper
      BY <2>4 DEF Graph!Valid, Graph!Upper, Graph!Adj, Graph!InRange
    <2>6. Graph!United' = Graph!United \union {e}
      BY <2>1, <2>2, <2>3, <2>5 DEF Graph!United
    <2>7. PICK V : V = Graph!Valid /\ V \subseteq Tree
      BY DEF Graph!Valid, Graph!Node, Tree
    <2>8. PICK E : E = Graph!United /\ \A f \in E : f[1] \in V /\ f[2] \in V
      <3>1. Graph!United \subseteq Graph!Valid \X Graph!Valid
        BY DEF Graph!United, Graph!Upper, Graph!Adj
      <3> QED
        BY <2>7, <3>1
    <2>9. e[1] \in V /\ e[2] \in V
      BY <2>2, <2>3, <2>7 DEF Graph!Upper, Graph!Adj
    <2>10. Grouped(E, V, parent, treeSize)
      BY <2>4, <2>7, <2>8 DEF GraphInv
    <2>11. PICK F : F = E \union {e} /\ Grouped(F, V, parent', treeSize')
      <3>1. PICK F : F = E \union {e}
        OBVIOUS
      <3> QED
        BY <2>1, <2>7, <2>8, <2>9, <2>10, <3>1, UniteGroups
    <2>12. Grouped(Graph!United, Graph!Valid, parent, treeSize)'
      BY <2>5, <2>6, <2>7, <2>8, <2>11
    <2> QED
      BY <2>1, <2>2, <2>4, <2>5, <2>12 DEF GraphInv
  <1>3. ASSUME Graph!Tabulate PROVE GraphInv'
    <2>1. /\ step = "union" /\ step' = "table"
          /\ pos' = pos /\ edges' = edges /\ parent' = parent /\ treeSize' = treeSize
      BY <1>3 DEF Graph!Tabulate
    <2>2. Graph!Valid' = Graph!Valid /\ Graph!Upper' = Graph!Upper
      BY <2>1 DEF Graph!Valid, Graph!Upper, Graph!Adj, Graph!InRange
    <2>3. Graph!United' = Graph!United
      BY <2>1, <2>2 DEF Graph!United
    <2>4. \A n : Graph!Component(n)' = Graph!Component(n)
      BY <2>2, <2>3 DEF Graph!Component, Graph!Closed
    <2>5. DOMAIN table' = Graph!Valid
          /\ \A n \in Graph!Valid :
               /\ table'[n].component_size = treeSize[Graph!Root(n)]
               /\ table'[n].components_count = Cardinality({Graph!Root(m) : m \in Graph!Valid})
      BY <1>3, GraphCardinality DEF Graph!Tabulate
    <2>6. Grouped(Graph!United, Graph!Valid, parent, treeSize)
      BY <2>1 DEF GraphInv
    <2>7. \A n \in Graph!Valid : treeSize[Graph!Root(n)] = Cardinality(Graph!Component(n))
      BY <2>6, GroupsAreComponents
    <2>a. {Graph!Component(m) : m \in Graph!Valid}' = {Graph!Component(m) : m \in Graph!Valid}
      BY <2>2, <2>4
    <2>8. \A n \in Graph!Valid' :
            /\ table'[n].component_size = Cardinality(Graph!Component(n)')
            /\ table'[n].components_count = Cardinality({Graph!Component(m) : m \in Graph!Valid}')
      BY <2>2, <2>4, <2>5, <2>6, <2>7, <2>a, RootsCounted
    <2>9. Grouped(Graph!United, Graph!Valid, parent, treeSize)'
      BY <2>1, <2>2, <2>3, <2>6
    <2> QED
      BY <2>1, <2>2, <2>5, <2>8, <2>9 DEF GraphInv
  <1>4. ASSUME Graph!Plot PROVE GraphInv'
    <2>1. /\ step = "table" /\ step' = "ecdf" /\ pos' = pos /\ edges' = edges
          /\ ecdf' = Graph!EcdfPoints([n \in DOMAIN table |-> table[n].component_size])
      BY <1>4 DEF Graph!Plot
    <2>2. Graph!Valid' = Graph!Valid /\ Graph!Upper' = Graph!Upper
      BY <2>1 DEF Graph!Valid, Graph!Upper, Graph!Adj, Graph!InRange
    <2>3. Graph!United' = Graph!United
      BY <2>1, <2>2 DEF Graph!United
    <2>4. \A n : Graph!Component(n)' = Graph!Component(n)
      BY <2>2, <2>3 DEF Graph!Component, Graph!Closed
    <2>5. [n \in DOMAIN table |-> table[n].component_size] = SizeOf
      BY <2>1 DEF GraphInv, SizeOf
    <2>6. SizeOf' = SizeOf
      BY <2>2, <2>4 DEF SizeOf
    <2>7. ecdf' = Graph!EcdfPoints(SizeOf)'
      BY <2>1, <2>5, <2>6 DEF Graph!EcdfPoints
    <2> QED
      BY <2>1, <2>2, <2>7 DEF GraphInv
  <1>5. ASSUME Graph!NextBin PROVE GraphInv'
    <2>1. /\ step' = "bin" /\ edges' = {}
          /\ parent' = [n \in Tree |-> n] /\ treeSize' = [n \in Tree |-> 1]
      BY <1>5 DEF Graph!NextBin, Tree, Graph!Node
    <2> QED
      BY <2>1 DEF GraphInv
  <1>6. CASE UNCHANGED degreesVars
    <2>1. /\ step' = step /\ pos' = pos /\ edges' = edges /\ parent' = parent
          /\ treeSize' = treeSize /\ table' = table /\ ecdf' = ecdf
      BY <1>6 DEF degreesVars
    <2>2. Graph!Valid' = Graph!Valid /\ Graph!Upper' = Graph!Upper
      BY <2>1 DEF Graph!Valid, Graph!Upper, Graph!Adj, Graph!InRange
    <2>3. Graph!United' = Graph!United
      BY <2>1, <2>2 DEF Graph!United
    <2>4. \A n : Graph!Component(n)' = Graph!Component(n)
      BY <2>2, <2>3 DEF Graph!Component, Graph!Closed
    <2>a. {Graph!Component(m) : m \in Graph!Valid}' = {Graph!Component(m) : m \in Graph!Valid}
      BY <2>2, <2>4
    <2>5. SizeOf' = SizeOf
      BY <2>2, <2>4 DEF SizeOf
    <2>6. Graph!EcdfPoints(SizeOf)' = Graph!EcdfPoints(SizeOf)
      BY <2>5 DEF Graph!EcdfPoints
    <2> QED
      BY <2>1, <2>2, <2>3, <2>4, <2>6, <2>a DEF GraphInv
  <1> QED
    BY <1>1, <1>2, <1>3, <1>4, <1>5, <1>6 DEF Graph!Next

\* Two nodes have one root exactly if pairs united so far connect them, a root's
\* size is that of its component and the curve counts each node in its own.
THEOREM ComponentsFound == Spec => []ComponentsRight
  <1>1. GraphInv => ComponentsRight
    <2> SUFFICES ASSUME GraphInv PROVE Graph!ComponentsRight
      BY DEF ComponentsRight
    <2>1. step \in {"union", "table"} =>
            \A n \in Graph!Valid :
              /\ {m \in Graph!Valid : Graph!Root(m) = Graph!Root(n)} = Graph!Component(n)
              /\ treeSize[Graph!Root(n)] = Cardinality(Graph!Component(n))
      BY GroupsAreComponents DEF GraphInv
    <2>2. ASSUME step = "ecdf", NEW x \in DOMAIN ecdf
          PROVE  ecdf[x] = Cardinality({n \in Graph!Valid : Cardinality(Graph!Component(n)) <= x})
      <3>1. PICK f : f = SizeOf
        OBVIOUS
      <3>2. DOMAIN f = Graph!Valid
        BY <3>1 DEF SizeOf
      <3>3. ecdf[x] = Cardinality({n \in Graph!Valid : f[n] <= x})
        <4>1. ecdf = Graph!EcdfPoints(f)
          BY <2>2, <3>1 DEF GraphInv
        <4>2. ecdf = [y \in {f[n] : n \in DOMAIN f} |->
                       Graph!Cardinality({n \in DOMAIN f : f[n] <= y})]
          BY <4>1, Zenon DEF Graph!EcdfPoints
        <4> QED
          BY <2>2, <3>2, <4>2, GraphCardinality
      <3>4. {n \in Graph!Valid : f[n] <= x} =
              {n \in Graph!Valid : Cardinality(Graph!Component(n)) <= x}
        BY <3>1 DEF SizeOf
      <3> QED
        BY <3>3, <3>4
    <2>3. step = "ecdf" =>
            \A x \in DOMAIN ecdf :
              ecdf[x] = Cardinality({n \in Graph!Valid : Cardinality(Graph!Component(n)) <= x})
      BY <2>2
    <2>4. step = "table" =>
            \A n \in Graph!Valid :
              table[n].components_count = Cardinality({Graph!Component(m) : m \in Graph!Valid})
      BY DEF GraphInv
    <2> QED
      BY <2>1, <2>3, <2>4, GraphCardinality DEF Graph!ComponentsRight
  <1> QED
    BY <1>1, GraphInit, GraphStep, GraphKeeps, PTL DEF Spec
=============================================================================
