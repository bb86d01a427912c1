---------------------------- MODULE DetectorProofs ----------------------------
(* Two proofs.  The Fast detector keeps track of every server: a row that    *)
(* _refresh takes away is replaced by something else only over several steps *)
(* of two kinds of threads, so the invariant says what holds the server in   *)
(* between: a chain from its suspicion to its entry in faulty that only a    *)
(* beacon of the server itself may break.  And neither detector suspects a   *)
(* server without a cause: what the servers that failed set off stays theirs.*)
EXTENDS FaultDetector, TLAPS

-----------------------------------------------------------------------------
(* The inductive invariant                                                  *)

\* The lists of the Fast detector, and who waits where in its threads; what an
\* echo's job holds does not matter here.
Shapes ==
  /\ phase \in {"off", "started", "on", "disabled"}
  /\ running \in [Peer -> Nat] /\ faulty \in [Peer -> Nat]
  /\ echoes \in [Peer -> Nat \cup {None}]
  /\ watch \in [Peer -> [Steps -> Nat]]
  /\ stale \in SUBSET Peer /\ raced \in SUBSET Peer
  /\ refreshing \in Peer \cup {Nobody}

\* No thread of Fast asks a server or takes it out of running at its end: those
\* are steps of Simple's beacon threads.
Threads ==
  /\ beat = [p \in Peer |-> [s \in Slot |-> beat[p][s]]]
  /\ \A p \in Peer, s \in Slot :
       /\ "pc" \in DOMAIN beat[p][s]
       /\ beat[p][s].pc \in {"idle", "append", "echo"}

\* A silent server is held: its fault is in the list, or is about to be, or is
\* waited for by a thread that the suspicion keeps from giving up.
Held(p) ==
  /\ p \in stale
  /\ \/ faulty[p] > 0
     \/ watch[p]["declare"] > 0
     \/ watch[p]["watch"] > 0 /\ echoes[p] # None

\* A thread that is done with declaring has left its entry, and the server has
\* not been heard since: a thread that forgets the suspicion loses nothing.
Declared ==
  \A p \in stale : watch[p]["report"] > 0 \/ watch[p]["forget"] > 0 => faulty[p] > 0

\* _refresh suspects before it removes.
Suspected == refreshing # Nobody /\ refreshing \in stale => Held(refreshing)

\* A server without a row is held.
Missed ==
  phase \notin {"off", "started"} =>
    \A p \in Peer : running[p] = 0 => p \in raced \/ Held(p)

Kept == Shapes /\ Threads /\ Declared /\ Suspected /\ Missed

FastInv == Fast => Kept

-----------------------------------------------------------------------------
(* The steps, grouped by what they may change                               *)

\* What a step of a suspicion's thread does to the counts: one less where the
\* thread was, one more where it goes, nothing to anyone else.
LEMMA GoEffect ==
  ASSUME watch \in [Peer -> [Steps -> Nat]], NEW p \in Peer, NEW from \in Steps, NEW to,
         from # to, Go(p, from, to)
  PROVE  /\ watch' \in [Peer -> [Steps -> Nat]]
         /\ \A q \in Peer : q # p => watch'[q] = watch[q]
         /\ watch[p][from] > 0 /\ watch'[p][from] = watch[p][from] - 1
         /\ \A k \in Steps : k \notin {from, to} => watch'[p][k] = watch[p][k]
         /\ to \in Steps => watch'[p][to] = watch[p][to] + 1
<1>1. PICK w \in [Peer -> [Steps -> Nat]] : w = watch
  OBVIOUS
<1> DEFINE moved(k) == w[p][k] - (IF k = from THEN 1 ELSE 0) + (IF k = to THEN 1 ELSE 0)
<1>2. /\ w[p][from] > 0
      /\ watch' = [w EXCEPT ![p] = [k \in Steps |-> moved(k)]]
  BY <1>1 DEF Go
<1>3. \A k \in Steps : w[p][k] \in Nat
  BY <1>1
<1>4. [k \in Steps |-> moved(k)] \in [Steps -> Nat]
  BY <1>2, <1>3
<1>5. /\ watch' \in [Peer -> [Steps -> Nat]]
      /\ \A q \in Peer : q # p => watch'[q] = w[q]
      /\ watch'[p] = [k \in Steps |-> moved(k)]
  BY <1>1, <1>2, <1>4
<1>6. \A k \in Steps : watch'[p][k] = moved(k)
  BY <1>5
<1>7. \A k \in Steps : k \notin {from, to} => moved(k) = w[p][k]
  BY <1>3
<1>8. moved(from) = w[p][from] - 1 /\ (to \in Steps => moved(to) = w[p][to] + 1)
  BY <1>3
<1> QED
  BY <1>1, <1>2, <1>5, <1>6, <1>7, <1>8

\* Only a thread that has nothing to do may be given something: the shape of
\* the threads is kept by every assignment to one of them.
LEMMA ThreadsKept ==
  ASSUME Threads, NEW p \in Peer, NEW s \in Slot, NEW t,
         "pc" \in DOMAIN t, t.pc \in {"idle", "append", "echo"},
         beat' = [beat EXCEPT ![p][s] = t]
  PROVE  Threads'
<1>1. PICK b : b = beat
  OBVIOUS
<1>2. /\ b = [q \in Peer |-> [r \in Slot |-> b[q][r]]]
      /\ \A q \in Peer, r \in Slot :
           /\ "pc" \in DOMAIN b[q][r]
           /\ b[q][r].pc \in {"idle", "append", "echo"}
  BY <1>1, Zenon DEF Threads
<1> DEFINE row == [r \in Slot |-> IF r = s THEN t ELSE b[p][r]]
<1>3. b[p] = [r \in Slot |-> b[p][r]]
  BY <1>2
<1>4. [b[p] EXCEPT ![s] = t] = row
  BY <1>3
<1>5. beat' = [b EXCEPT ![p] = [b[p] EXCEPT ![s] = t]]
  BY <1>1
<1>6. beat' = [q \in Peer |-> IF q = p THEN row ELSE b[q]]
  BY <1>2, <1>4, <1>5
<1>7. \A q \in Peer, r \in Slot : beat'[q][r] = IF q = p /\ r = s THEN t ELSE b[q][r]
  BY <1>6
<1>8. \A q \in Peer : beat'[q] = [r \in Slot |-> beat'[q][r]]
  <2> TAKE q \in Peer
  <2>1. CASE q = p
    <3>1. beat'[q] = row
      BY <2>1, <1>6
    <3>2. \A r \in Slot : row[r] = beat'[q][r]
      BY <3>1
    <3>3. row = [r \in Slot |-> row[r]]
      OBVIOUS
    <3> HIDE DEF row
    <3> QED
      BY <3>1, <3>2, <3>3
  <2>2. CASE q # p
    <3>1. beat'[q] = b[q]
      BY <2>2, <1>6
    <3>2. b[q] = [r \in Slot |-> b[q][r]]
      BY <1>2
    <3> QED
      BY <3>1, <3>2
  <2> QED
    BY <2>1, <2>2
<1>9. beat' = [q \in Peer |-> [r \in Slot |-> beat'[q][r]]]
  BY <1>6, <1>8
<1>10. \A q \in Peer, r \in Slot :
        /\ "pc" \in DOMAIN beat'[q][r]
        /\ beat'[q][r].pc \in {"idle", "append", "echo"}
  <2> TAKE q \in Peer, r \in Slot
  <2>1. CASE q = p /\ r = s
    BY <2>1, <1>7
  <2>2. CASE ~(q = p /\ r = s)
    BY <2>2, <1>7, <1>2
  <2> QED
    BY <2>1, <2>2
<1> QED
  BY <1>9, <1>10 DEF Threads

\* The values that the steps of Fast give a thread.
LEMMA ThreadValues ==
  /\ "pc" \in DOMAIN Idle /\ Idle.pc = "idle"
  /\ "pc" \in DOMAIN At("append") /\ At("append").pc = "append"
  /\ "pc" \in DOMAIN EchoJob /\ EchoJob.pc = "echo"
  BY DEF Idle, At, EchoJob

-----------------------------------------------------------------------------
(* One step per action                                                      *)

\* At the start nobody is followed, and nothing runs.
LEMMA InitKept == Init => Kept
<1> SUFFICES ASSUME Init PROVE Kept
  OBVIOUS
<1>1. Shapes
  BY DEF Init, Shapes, None
<1>2. Threads
  <2>1. beat = [p \in Peer |-> [s \in Slot |-> Idle]]
    BY DEF Init
  <2>2. \A p \in Peer, s \in Slot : beat[p][s] = Idle
    BY <2>1
  <2>3. beat = [p \in Peer |-> [s \in Slot |-> beat[p][s]]]
    BY <2>1, <2>2
  <2> QED
    BY <2>2, <2>3 DEF Threads, Idle
<1>3. Declared /\ Suspected /\ Missed
  BY DEF Init, Declared, Suspected, Missed
<1> QED
  BY <1>1, <1>2, <1>3 DEF Kept

\* Starting, stopping, subscribing and what happens elsewhere leave the lists
\* and their threads alone, and nobody begins to be followed without a row.
LEMMA QuietKept ==
  ASSUME Kept,
         UNCHANGED <<lists, beat, watch, refreshing, raced>>,
         phase' \in {"off", "started", "on", "disabled"},
         phase' \in {"off", "started"} \/ phase \notin {"off", "started"}
  PROVE  Kept'
<1>1. Shapes' /\ Threads'
  BY DEF Kept, lists, Shapes, Threads
<1>2. Declared' /\ Suspected'
  BY DEF Kept, lists, Declared, Suspected, Held
<1>3. Missed'
  BY DEF Kept, lists, Missed, Held
<1> QED
  BY <1>1, <1>2, <1>3 DEF Kept

\* A step of a thread that touches no list.
LEMMA BeatKept ==
  ASSUME Kept, Threads',
         UNCHANGED <<phase, lists, watch, refreshing, raced>>
  PROVE  Kept'
<1>1. Shapes'
  BY DEF Kept, lists, Shapes
<1>2. Declared' /\ Suspected'
  BY DEF Kept, lists, Declared, Suspected, Held
<1>3. Missed'
  BY DEF Kept, lists, Missed, Held
<1> QED
  BY <1>1, <1>2, <1>3 DEF Kept

\* _initialize adds a row for every server.
LEMMA InitializeKept ==
  ASSUME Kept, InitializeFast
  PROVE  Kept'
<1>1. /\ running' = [p \in Peer |-> running[p] + 1] /\ phase' = "on"
      /\ UNCHANGED <<stale, echoes, faulty, beat, watch, refreshing, raced>>
  BY DEF InitializeFast
<1>2. running \in [Peer -> Nat]
  BY DEF Kept, Shapes
<1>3. running' \in [Peer -> Nat] /\ \A p \in Peer : running'[p] # 0
  BY <1>1, <1>2
<1>4. Shapes' /\ Threads'
  BY <1>1, <1>3 DEF Kept, Shapes, Threads
<1>5. Declared' /\ Suspected'
  BY <1>1 DEF Kept, Declared, Suspected, Held
<1>6. Missed'
  BY <1>3 DEF Missed
<1> QED
  BY <1>4, <1>5, <1>6 DEF Kept

\* A beacon makes the server fresh: whatever was said of a silent one is void.
LEMMA NoteRunningKept ==
  ASSUME Kept, NEW p \in Peer, NEW s \in Slot, NoteRunning(p, s)
  PROVE  Kept'
<1>1. /\ running' = [running EXCEPT ![p] = IF @ = 0 THEN 1 ELSE @]
      /\ stale' = stale \ {p} /\ raced' = raced \ {p}
      /\ echoes' = [echoes EXCEPT ![p] = None]
      /\ faulty' = [faulty EXCEPT ![p] = Decrement(@)]
      /\ beat' = [beat EXCEPT ![p][s] = Idle]
      /\ UNCHANGED <<phase, watch, refreshing>>
  BY DEF NoteRunning
<1>2. Shapes /\ Threads
  BY DEF Kept
<1>3. /\ running' \in [Peer -> Nat] /\ running'[p] # 0
      /\ \A q \in Peer : q # p => running'[q] = running[q]
  BY <1>1, <1>2 DEF Shapes
<1>4. /\ echoes' \in [Peer -> Nat \cup {None}]
      /\ \A q \in Peer : q # p => echoes'[q] = echoes[q]
  BY <1>1, <1>2 DEF Shapes
<1>5. /\ faulty' \in [Peer -> Nat]
      /\ \A q \in Peer : q # p => faulty'[q] = faulty[q]
  BY <1>1, <1>2 DEF Shapes, Decrement
<1>6. Shapes'
  BY <1>1, <1>2, <1>3, <1>4, <1>5 DEF Shapes
<1>7. Threads'
  BY <1>1, <1>2, ThreadValues, ThreadsKept
<1>8. \A q \in Peer : q # p => (Held(q) => Held(q)')
  BY <1>1, <1>4, <1>5 DEF Held
<1>9. Declared'
  BY <1>1, <1>2, <1>5 DEF Kept, Declared, Shapes
<1>10. Suspected'
  BY <1>1, <1>2, <1>8 DEF Kept, Suspected, Shapes
<1>11. Missed'
  BY <1>1, <1>2, <1>3, <1>8 DEF Kept, Missed, Shapes
<1> QED
  BY <1>6, <1>7, <1>9, <1>10, <1>11 DEF Kept

\* A server falls silent only while its row is in the list and nobody who looked
\* at it before is still at work.
LEMMA AgeKept ==
  ASSUME Kept, NEW p \in Peer, Age(p)
  PROVE  Kept'
<1>1. /\ stale' = stale \cup {p} /\ running[p] > 0 /\ refreshing # p
      /\ watch[p]["report"] = 0 /\ watch[p]["forget"] = 0
      /\ UNCHANGED <<phase, running, echoes, faulty, beat, watch, refreshing, raced>>
  BY DEF Age, Steps
<1>2. \A q \in Peer : Held(q) => Held(q)'
  BY <1>1 DEF Held
<1>3. Shapes' /\ Threads'
  BY <1>1 DEF Kept, Shapes, Threads
<1>4. Declared'
  BY <1>1 DEF Kept, Declared
<1>5. Suspected'
  BY <1>1, <1>2 DEF Kept, Suspected, Shapes
<1>6. Missed'
  BY <1>1, <1>2 DEF Kept, Missed
<1> QED
  BY <1>3, <1>4, <1>5, <1>6 DEF Kept

\* _refresh starts a thread and leaves a suspicion that keeps it waiting.
LEMMA RefreshKept ==
  ASSUME Kept, NEW p \in Peer, Refresh(p)
  PROVE  Kept'
<1>1. /\ running[p] > 0 /\ p \in stale /\ refreshing' = p
      /\ echoes' = [echoes EXCEPT ![p] = IF @ = None THEN 0 ELSE @]
      /\ watch' = [watch EXCEPT ![p].watch = @ + 1]
      /\ UNCHANGED <<phase, running, stale, faulty, beat, raced>>
  BY DEF Refresh
<1>2. Shapes
  BY DEF Kept
<1>3. PICK w \in [Peer -> [Steps -> Nat]] : w = watch
  BY <1>2 DEF Shapes
<1>4. w[p] \in [Steps -> Nat] /\ "watch" \in Steps
  BY <1>3 DEF Steps
<1>5. /\ [w[p] EXCEPT !["watch"] = @ + 1] \in [Steps -> Nat]
      /\ [w[p] EXCEPT !["watch"] = @ + 1]["watch"] > 0
      /\ \A k \in Steps : k # "watch" => [w[p] EXCEPT !["watch"] = @ + 1][k] = w[p][k]
  BY <1>4
<1>6. watch' = [w EXCEPT ![p] = [w[p] EXCEPT !["watch"] = @ + 1]]
  BY <1>1, <1>3
<1>7. /\ watch' \in [Peer -> [Steps -> Nat]] /\ watch'[p]["watch"] > 0
      /\ \A q \in Peer : q # p => watch'[q] = w[q]
      /\ \A k \in Steps : k # "watch" => watch'[p][k] = w[p][k]
  BY <1>3, <1>5, <1>6
<1>8. /\ echoes' \in [Peer -> Nat \cup {None}] /\ echoes'[p] # None
      /\ \A q \in Peer : q # p => echoes'[q] = echoes[q]
  BY <1>1, <1>2 DEF Shapes, None
<1>9. Held(p)'
  BY <1>1, <1>7, <1>8 DEF Held
<1>10. \A q \in Peer : Held(q) => Held(q)'
  BY <1>1, <1>3, <1>7, <1>8, <1>9 DEF Held
<1>11. Shapes' /\ Threads'
  BY <1>1, <1>2, <1>7, <1>8 DEF Kept, Shapes, Threads
<1>12. Declared'
  BY <1>1, <1>2, <1>3, <1>7 DEF Kept, Declared, Steps, Shapes
<1>13. Suspected'
  BY <1>1, <1>9 DEF Suspected
<1>14. Missed'
  BY <1>1, <1>10 DEF Kept, Missed
<1> QED
  BY <1>11, <1>12, <1>13, <1>14 DEF Kept

\* It removes the row of a server that it holds, or of one heard just before.
LEMMA RefreshRemoveKept ==
  ASSUME Kept, NEW s \in Slot, RefreshRemove(s)
  PROVE  Kept'
<1>1. PICK p \in Peer : p = refreshing
  BY DEF RefreshRemove, Kept, Shapes
<1>2. /\ p # Nobody
      /\ running' = [running EXCEPT ![p] = Decrement(@)]
      /\ raced' = IF p \in stale THEN raced ELSE raced \cup {p}
      /\ beat' = [beat EXCEPT ![p][s] = EchoJob]
      /\ refreshing' = Nobody
      /\ UNCHANGED <<phase, stale, echoes, faulty, watch>>
  BY <1>1 DEF RefreshRemove
<1>3. Shapes
  BY DEF Kept
<1>4. /\ running' \in [Peer -> Nat]
      /\ \A q \in Peer : q # p => running'[q] = running[q]
  BY <1>2, <1>3 DEF Shapes, Decrement
<1>5. Shapes'
  BY <1>2, <1>3, <1>4 DEF Shapes
<1>6. Threads'
  BY <1>2, ThreadValues, ThreadsKept DEF Kept
<1>7. p \in raced' \/ Held(p)
  BY <1>1, <1>2 DEF Kept, Suspected
<1>8. \A q \in Peer : Held(q) => Held(q)'
  BY <1>2 DEF Held
<1>9. Declared' /\ Suspected'
  BY <1>2 DEF Kept, Declared, Suspected
<1>10. Missed'
  BY <1>2, <1>4, <1>7, <1>8 DEF Kept, Missed
<1> QED
  BY <1>5, <1>6, <1>9, <1>10 DEF Kept

\* A thread moves on and leaves the lists alone, from a step where it is not
\* needed, or to its declaration: what is held stays held.
LEMMA MoveKept ==
  ASSUME Kept, NEW p \in Peer, NEW from \in Steps, NEW to, from # to, Go(p, from, to),
         \/ from = "watch" /\ to = "end" /\ echoes[p] = None
         \/ from = "watch" /\ to = "declare"
         \/ from = "report" /\ to = "forget",
         UNCHANGED <<phase, lists, beat, refreshing, raced>>
  PROVE  Kept'
<1>1. Shapes /\ UNCHANGED <<running, stale, echoes, faulty>>
  BY DEF Kept, lists
<1>2. /\ watch' \in [Peer -> [Steps -> Nat]]
      /\ \A q \in Peer : q # p => watch'[q] = watch[q]
      /\ watch[p][from] > 0 /\ watch'[p][from] = watch[p][from] - 1
      /\ \A k \in Steps : k \notin {from, to} => watch'[p][k] = watch[p][k]
      /\ to \in Steps => watch'[p][to] = watch[p][to] + 1
  BY <1>1, GoEffect DEF Shapes
<1>3. \A k \in Steps : watch[p][k] \in Nat
  BY <1>1 DEF Shapes
<1>4. Shapes' /\ Threads'
  BY <1>1, <1>2 DEF Kept, Shapes, Threads
<1>5. Held(p) => Held(p)'
  BY <1>1, <1>2, <1>3 DEF Held, Steps
<1>6. \A q \in Peer : Held(q) => Held(q)'
  BY <1>1, <1>2, <1>5 DEF Held
<1>7. Declared'
  BY <1>1, <1>2, <1>3 DEF Kept, Declared, Steps, Shapes
<1>8. Suspected'
  BY <1>1, <1>6 DEF Kept, Suspected, Shapes
<1>9. Missed'
  BY <1>1, <1>6 DEF Kept, Missed
<1> QED
  BY <1>4, <1>7, <1>8, <1>9 DEF Kept

\* A declaration leaves an entry, which holds the server by itself.
LEMMA DeclareKept ==
  ASSUME Kept, NEW p \in Peer, Declare(p)
  PROVE  Kept'
<1> DEFINE to == IF p = Leader THEN "report" ELSE "forget"
<1>1. /\ Go(p, "declare", to) /\ faulty' = [faulty EXCEPT ![p] = @ + 1]
      /\ UNCHANGED <<phase, running, stale, echoes, beat, refreshing, raced>>
  BY DEF Declare
<1>2. Shapes
  BY DEF Kept
<1>3. to \in Steps /\ to # "declare" /\ to # "watch" /\ "declare" \in Steps
  BY DEF Steps
<1>4. /\ watch' \in [Peer -> [Steps -> Nat]]
      /\ \A q \in Peer : q # p => watch'[q] = watch[q]
  <2> HIDE DEF to
  <2> QED
    BY <1>1, <1>2, <1>3, GoEffect DEF Shapes
<1>5. /\ faulty' \in [Peer -> Nat] /\ faulty'[p] > 0
      /\ \A q \in Peer : q # p => faulty'[q] = faulty[q]
  BY <1>1, <1>2 DEF Shapes
<1>6. Shapes' /\ Threads'
  BY <1>1, <1>2, <1>4, <1>5 DEF Kept, Shapes, Threads
<1>7. \A q \in Peer : Held(q) => Held(q)'
  BY <1>1, <1>4, <1>5 DEF Held
<1>8. Declared'
  BY <1>1, <1>2, <1>4, <1>5 DEF Kept, Declared, Shapes
<1>9. Suspected'
  BY <1>1, <1>2, <1>7 DEF Kept, Suspected, Shapes
<1>10. Missed'
  BY <1>1, <1>7 DEF Kept, Missed
<1> QED
  BY <1>6, <1>8, <1>9, <1>10 DEF Kept

\* The suspicion of a silent server is forgotten only after its declaration.
LEMMA ForgetKept ==
  ASSUME Kept, NEW p \in Peer, Forget(p)
  PROVE  Kept'
<1>1. /\ Go(p, "forget", "end") /\ echoes' = [echoes EXCEPT ![p] = None]
      /\ UNCHANGED <<phase, running, stale, faulty, beat, refreshing, raced>>
  BY DEF Forget
<1>2. Shapes
  BY DEF Kept
<1>3. "forget" \in Steps /\ "end" \notin Steps
  BY DEF Steps
<1>4. /\ watch' \in [Peer -> [Steps -> Nat]]
      /\ \A q \in Peer : q # p => watch'[q] = watch[q]
      /\ watch[p]["forget"] > 0
  BY <1>1, <1>2, <1>3, GoEffect DEF Shapes
<1>5. /\ echoes' \in [Peer -> Nat \cup {None}]
      /\ \A q \in Peer : q # p => echoes'[q] = echoes[q]
  BY <1>1, <1>2 DEF Shapes
<1>6. p \in stale => faulty[p] > 0
  BY <1>4 DEF Kept, Declared
<1>7. Shapes' /\ Threads'
  BY <1>1, <1>2, <1>4, <1>5 DEF Kept, Shapes, Threads
<1>8. \A q \in Peer : Held(q) => Held(q)'
  BY <1>1, <1>4, <1>5, <1>6 DEF Held
<1>9. Declared'
  BY <1>1, <1>2, <1>4, <1>6 DEF Kept, Declared, Shapes
<1>10. Suspected'
  BY <1>1, <1>2, <1>8 DEF Kept, Suspected, Shapes
<1>11. Missed'
  BY <1>1, <1>8 DEF Kept, Missed
<1> QED
  BY <1>7, <1>9, <1>10, <1>11 DEF Kept

\* An echo of another server makes or strengthens a suspicion.
LEMMA RecvEchoKept ==
  ASSUME Kept, NEW p \in Peer, NEW q, RecvEchoFast(q, p)
  PROVE  Kept'
<1>1. /\ echoes' = [echoes EXCEPT ![p] = IF @ = None THEN 1 ELSE @ + 1]
      /\ UNCHANGED <<phase, running, stale, faulty, beat, watch, refreshing, raced>>
  BY DEF RecvEchoFast
<1>2. Shapes
  BY DEF Kept
<1>3. /\ echoes' \in [Peer -> Nat \cup {None}] /\ echoes'[p] # None
      /\ \A r \in Peer : r # p => echoes'[r] = echoes[r]
  BY <1>1, <1>2 DEF Shapes, None
<1>4. \A r \in Peer : Held(r) => Held(r)'
  BY <1>1, <1>3 DEF Held
<1>5. Shapes' /\ Threads'
  BY <1>1, <1>2, <1>3 DEF Kept, Shapes, Threads
<1>6. Declared'
  BY <1>1 DEF Kept, Declared
<1>7. Suspected'
  BY <1>1, <1>2, <1>4 DEF Kept, Suspected, Shapes
<1>8. Missed'
  BY <1>1, <1>4 DEF Kept, Missed
<1> QED
  BY <1>5, <1>6, <1>7, <1>8 DEF Kept

\* An echo's job goes on with fewer addressees, or is over.
LEMMA EchoKept ==
  ASSUME Fast, Kept, NEW p \in Peer, NEW s \in Slot, Echo(p, s)
  PROVE  Kept'
<1>1. UNCHANGED <<phase, lists, watch, refreshing, raced>>
  BY DEF Echo
<1>2. Threads
  BY DEF Kept
<1>3. ~Simple
  BY DEF Fast, Simple
<1>4. PICK b : b = beat[p][s] /\ b.pc = "echo" /\ "pc" \in DOMAIN b
  BY <1>2 DEF Threads, Echo
<1>5. CASE beat' = [beat EXCEPT ![p][s] = IF Simple THEN At("remove") ELSE Idle]
  <2>1. beat' = [beat EXCEPT ![p][s] = Idle]
    BY <1>3, <1>5
  <2>2. Threads'
    BY <1>2, <2>1, ThreadValues, ThreadsKept
  <2> QED
    BY <1>1, <2>2, BeatKept
<1>6. CASE \E silent : beat' = [beat EXCEPT ![p][s] =
             [b EXCEPT !.job = Round(@, ToSet(@) \ silent), !.tries = @ - 1]]
  <2>1. PICK silent : beat' = [beat EXCEPT ![p][s] =
               [b EXCEPT !.job = Round(@, ToSet(@) \ silent), !.tries = @ - 1]]
    BY <1>6
  <2>2. PICK j, n : beat' = [beat EXCEPT ![p][s] = [b EXCEPT !.job = j, !.tries = n]]
    BY <2>1
  <2>3. PICK t : t = [b EXCEPT !.job = j, !.tries = n]
    OBVIOUS
  <2>4. "pc" \in DOMAIN t /\ t.pc = "echo"
    BY <1>4, <2>3
  <2>5. Threads'
    BY <1>2, <2>2, <2>3, <2>4, ThreadsKept
  <2> QED
    BY <1>1, <2>5, BeatKept
<1>7. \/ beat' = [beat EXCEPT ![p][s] = IF Simple THEN At("remove") ELSE Idle]
      \/ \E silent : beat' = [beat EXCEPT ![p][s] =
             [beat[p][s] EXCEPT !.job = Round(@, ToSet(@) \ silent), !.tries = @ - 1]]
  BY DEF Echo
<1> QED
  BY <1>4, <1>5, <1>6, <1>7

\* Every step of the Fast detector, and of those around it.
LEMMA StepKept == Fast /\ Kept /\ [Next]_vars => Fast' /\ Kept'
<1> SUFFICES ASSUME Fast, Kept, [Next]_vars PROVE Fast' /\ Kept'
  OBVIOUS
<1>1. ~Simple
  BY DEF Fast, Simple
<1>2. phase \in {"off", "started", "on", "disabled"} /\ Threads
  BY DEF Kept, Shapes
<1>3. CASE UNCHANGED vars
  <2>1. UNCHANGED <<kind, phase, lists, beat, watch, refreshing, raced>>
    BY <1>3 DEF vars
  <2> QED
    BY <1>2, <2>1, QuietKept DEF Fast
<1>4. ASSUME \/ Start \/ Disable \/ Enable
             \/ \E p \in Peer : Subscribe(p) \/ Recover(p)
             \/ \E q \in Subscriber : RecvSubscribe(q)
             \/ \E p \in Peer, how \in {"down", "cut"} : Fail(p, how)
      PROVE  Fast' /\ Kept'
  <2>1. UNCHANGED <<kind, lists, beat, watch, refreshing, raced>>
    BY <1>4 DEF Start, Disable, Enable, Subscribe, Recover, RecvSubscribe, Fail
  <2>2. /\ phase' \in {"off", "started", "on", "disabled"}
        /\ phase' \in {"off", "started"} \/ phase \notin {"off", "started"}
    BY <1>2, <1>4 DEF Start, Disable, Enable, Subscribe, Recover, RecvSubscribe, Fail
  <2> QED
    BY <2>1, <2>2, QuietKept DEF Fast
<1>5. CASE InitializeFast
  BY <1>5, InitializeKept DEF InitializeFast, Fast
<1>6. ASSUME NEW p \in Peer, Age(p) PROVE Fast' /\ Kept'
  BY <1>6, AgeKept DEF Age, Fast
<1>7. ASSUME NEW p \in Peer, Refresh(p) PROVE Fast' /\ Kept'
  BY <1>7, RefreshKept DEF Refresh, Fast
<1>8. ASSUME NEW p \in Peer, Expire(p) PROVE Fast' /\ Kept'
  <2>1. Go(p, "watch", "declare") /\ UNCHANGED <<kind, phase, lists, beat, refreshing, raced>>
    BY <1>8 DEF Expire
  <2> QED
    BY <2>1, MoveKept DEF Steps, Fast
<1>9. ASSUME NEW p \in Peer, Watch(p) PROVE Fast' /\ Kept'
  <2>1. CASE Poll(p)
    <3>1. /\ UNCHANGED <<kind, phase, lists, beat, refreshing, raced>>
          /\ \/ echoes[p] = None /\ Go(p, "watch", "end")
             \/ Go(p, "watch", "declare")
      BY <2>1 DEF Poll
    <3> QED
      BY <3>1, MoveKept DEF Steps, Fast
  <2>2. CASE Declare(p)
    BY <2>2, DeclareKept DEF Declare, Fast
  <2>3. CASE Report(p)
    <3>1. Go(p, "report", "forget") /\ UNCHANGED <<kind, phase, lists, beat, refreshing, raced>>
      BY <2>3 DEF Report
    <3> QED
      BY <3>1, MoveKept DEF Steps, Fast
  <2>4. CASE Forget(p)
    BY <2>4, ForgetKept DEF Forget, Fast
  <2> QED
    BY <1>9, <2>1, <2>2, <2>3, <2>4 DEF Watch
<1>10. ASSUME NEW p \in Peer, NEW q \in Peer \cup Other, RecvEcho(q, p) \/ RecvEchoFast(q, p)
       PROVE  Fast' /\ Kept'
  <2>1. RecvEchoFast(q, p)
    BY <1>1, <1>10 DEF RecvEcho
  <2> QED
    BY <2>1, RecvEchoKept DEF RecvEchoFast, Fast
<1>11. ASSUME NEW p \in Peer, NEW s \in Slot, RecvBeacon(p, s) PROVE Fast' /\ Kept'
  <2>1. /\ beat' = [beat EXCEPT ![p][s] = At("append")]
        /\ UNCHANGED <<kind, phase, lists, watch, refreshing, raced>>
    BY <1>11 DEF RecvBeacon
  <2>2. Threads'
    BY <1>2, <2>1, ThreadValues, ThreadsKept
  <2> QED
    BY <2>1, <2>2, BeatKept DEF Fast
<1>12. ASSUME NEW p \in Peer, NEW s \in Slot, Beat(p, s) PROVE Fast' /\ Kept'
  <2>1. beat[p][s].pc \in {"idle", "append", "echo"}
    BY <1>2 DEF Threads
  <2>2. NoteRunning(p, s) \/ Echo(p, s)
    BY <1>12, <2>1 DEF Beat, BeaconAnswer, Raise, NotRunning
  <2>3. CASE NoteRunning(p, s)
    BY <2>3, NoteRunningKept DEF NoteRunning, Fast
  <2>4. CASE Echo(p, s)
    BY <2>4, EchoKept DEF Echo, Fast
  <2> QED
    BY <2>2, <2>3, <2>4
<1>13. ASSUME NEW s \in Slot, RefreshRemove(s) PROVE Fast' /\ Kept'
  BY <1>13, RefreshRemoveKept DEF RefreshRemove, Fast
<1>14. ~Initialize /\ \A p \in Peer, s \in Slot : ~SendBeacon(p, s)
  BY <1>1 DEF Initialize, SendBeacon
<1>15. CASE Next
  BY <1>4, <1>5, <1>6, <1>7, <1>8, <1>9, <1>10, <1>11, <1>12, <1>13, <1>14, <1>15 DEF Next
<1> QED
  BY <1>3, <1>15

\* The class of the detector is chosen once.
LEMMA KindKept == [Next]_vars => kind' = kind
<1> SUFFICES ASSUME Next PROVE kind' = kind
  BY DEF vars
<1>1. CASE Start \/ Initialize \/ InitializeFast \/ Disable \/ Enable
  BY <1>1 DEF Start, Initialize, InitializeFast, Disable, Enable
<1>2. ASSUME NEW p \in Peer,
             \/ Subscribe(p) \/ Age(p) \/ Refresh(p) \/ Expire(p) \/ Watch(p) \/ Recover(p)
             \/ \E q \in Peer \cup Other : RecvEcho(q, p) \/ RecvEchoFast(q, p)
      PROVE  kind' = kind
  BY <1>2 DEF Subscribe, Age, Refresh, Expire, Watch, Poll, Declare, Report, Forget, Recover,
              RecvEcho, RecvEchoFast
<1>3. ASSUME NEW p \in Peer, NEW s \in Slot, SendBeacon(p, s) \/ RecvBeacon(p, s) \/ Beat(p, s)
      PROVE  kind' = kind
  BY <1>3 DEF SendBeacon, RecvBeacon, Beat, BeaconAnswer, NoteRunning, Raise, Echo, NotRunning
<1>4. CASE \/ \E q \in Subscriber : RecvSubscribe(q)
           \/ \E s \in Slot : RefreshRemove(s)
           \/ \E p \in Peer, how \in {"down", "cut"} : Fail(p, how)
  BY <1>4 DEF RecvSubscribe, RefreshRemove, Fail
<1> QED
  BY <1>1, <1>2, <1>3, <1>4 DEF Next

-----------------------------------------------------------------------------
(* The theorem                                                              *)

\* No server falls out of the Fast detector's lists, however many servers,
\* beacons, suspicions and echoes there are at a time and however they are
\* interleaved, but the one whose fresh row _refresh removes.
THEOREM PeersTracked == Spec => []Tracked
<1>1. Init => FastInv
  BY InitKept DEF FastInv
<1>2. FastInv /\ [Next]_vars => FastInv'
  <2> SUFFICES ASSUME FastInv, [Next]_vars, Fast' PROVE Kept'
    BY DEF FastInv
  <2>1. Fast
    BY KindKept DEF Fast
  <2> QED
    BY <2>1, StepKept DEF FastInv
<1>3. FastInv => Tracked
  <2> SUFFICES ASSUME Fast, Kept, phase \notin {"off", "started"}, NEW p \in Peer,
                      running[p] = 0, p \notin raced
               PROVE  Watched(p) \/ faulty[p] > 0
    BY DEF FastInv, Tracked, Kept, Shapes
  <2>1. Held(p)
    BY DEF Kept, Missed
  <2>2. "declare" \in Steps /\ "watch" \in Steps
    BY DEF Steps
  <2> QED
    BY <2>1, <2>2 DEF Held, Watched
<1> QED
  BY <1>1, <1>2, <1>3, PTL DEF Spec

-----------------------------------------------------------------------------
(* Both detectors: no false alarm                                           *)

\* Nothing has happened that this server could be suspected for: it has not failed
\* and nobody sent an echo; for Fast, which knows of servers by their beacons only,
\* no beacon was late either, and the node has listened all the time.
Unprovoked(p) == flaps[p] = 0 /\ echoed = 0 /\ (Fast => lost = 0 /\ disabled = 0)

\* It is in running, in no other list, and no thread is about to change that.
Trusted(p) ==
  /\ up[p] = "up" /\ p \notin stale /\ p \notin raced /\ (refreshing # Nobody => refreshing # p)
  /\ echoes[p] = None /\ faulty[p] = 0 /\ \A k \in Steps : watch[p][k] = 0
  /\ \A s \in Slot : beat[p][s].pc \in {"idle", "sent", "append"}
  /\ phase \notin {"off", "started"} => running[p] > 0

\* Every slot holds a thread, or is idle.
Rows == beat = [p \in Peer |-> [s \in Slot |-> beat[p][s]]]

Counters ==
  /\ kind \in {"Simple", "Fast"}
  /\ up \in [Peer -> {"up", "down", "cut"}] /\ flaps \in [Peer -> Nat]
  /\ echoed \in Nat /\ lost \in Nat /\ disabled \in Nat
  /\ phase = "disabled" => disabled > 0
  /\ Rows

FairInv == Shapes /\ Counters /\ \A p \in Peer : Unprovoked(p) => Trusted(p)

\* One thread is given something else to do.
Turned(p, s, t) == beat' = [beat EXCEPT ![p][s] = t]

\* The others stay as they are.
LEMMA BeatSet ==
  ASSUME Rows, NEW p \in Peer, NEW s \in Slot, NEW t, Turned(p, s, t)
  PROVE  /\ Rows'
         /\ \A q \in Peer, r \in Slot : beat'[q][r] = IF q = p /\ r = s THEN t ELSE beat[q][r]
<1>1. PICK b : b = beat
  OBVIOUS
<1>2. b = [q \in Peer |-> [r \in Slot |-> b[q][r]]]
  BY <1>1 DEF Rows
<1> DEFINE row == [r \in Slot |-> IF r = s THEN t ELSE b[p][r]]
<1>3. b[p] = [r \in Slot |-> b[p][r]]
  BY <1>2
<1>4. [b[p] EXCEPT ![s] = t] = row
  BY <1>3
<1>5. beat' = [b EXCEPT ![p] = [b[p] EXCEPT ![s] = t]]
  BY <1>1 DEF Turned
<1>6. beat' = [q \in Peer |-> IF q = p THEN row ELSE b[q]]
  BY <1>2, <1>4, <1>5
<1>7. \A q \in Peer, r \in Slot : beat'[q][r] = IF q = p /\ r = s THEN t ELSE b[q][r]
  BY <1>6
<1>8. \A q \in Peer : beat'[q] = [r \in Slot |-> beat'[q][r]]
  <2> TAKE q \in Peer
  <2>1. CASE q = p
    <3>1. beat'[q] = row
      BY <2>1, <1>6
    <3>2. \A r \in Slot : row[r] = beat'[q][r]
      BY <3>1
    <3>3. row = [r \in Slot |-> row[r]]
      OBVIOUS
    <3> HIDE DEF row
    <3> QED
      BY <3>1, <3>2, <3>3
  <2>2. CASE q # p
    <3>1. beat'[q] = b[q]
      BY <2>2, <1>6
    <3>2. b[q] = [r \in Slot |-> b[q][r]]
      BY <1>2
    <3> QED
      BY <3>1, <3>2
  <2> QED
    BY <2>1, <2>2
<1>9. beat' = [q \in Peer |-> [r \in Slot |-> beat'[q][r]]]
  BY <1>6, <1>8
<1> QED
  BY <1>1, <1>7, <1>9 DEF Rows

LEMMA FairInit == Init => FairInv
<1> SUFFICES ASSUME Init PROVE FairInv
  OBVIOUS
<1>1. beat = [p \in Peer |-> [s \in Slot |-> Idle]]
  BY DEF Init
<1>2. \A p \in Peer, s \in Slot : beat[p][s] = Idle /\ Idle.pc = "idle"
  BY <1>1 DEF Idle
<1>3. Rows
  BY <1>1, <1>2 DEF Rows
<1>4. Shapes
  BY DEF Init, Shapes, None
<1>5. Counters
  BY <1>3 DEF Init, Counters
<1> QED
  BY <1>2, <1>4, <1>5
  DEF Init, FairInv, Trusted

\* Causes are not forgotten, so a server that is unprovoked after a step was so before.
LEMMA CausesStay ==
  ASSUME Counters, [Next]_vars
  PROVE  /\ kind' = kind
         /\ \A p \in Peer : Unprovoked(p)' => Unprovoked(p)
<1>1. kind' = kind
  BY KindKept
<1>2. flaps' = flaps \/ \E p \in Peer : flaps' = [flaps EXCEPT ![p] = @ + 1]
  <2>1. CASE Start \/ Initialize \/ InitializeFast \/ Disable \/ Enable \/ UNCHANGED vars
    BY <2>1 DEF Start, Initialize, InitializeFast, Disable, Enable, vars, world
  <2>2. ASSUME NEW p \in Peer,
               \/ Subscribe(p) \/ Age(p) \/ Refresh(p) \/ Expire(p) \/ Watch(p) \/ Recover(p)
               \/ \E q \in Peer \cup Other : RecvEcho(q, p) \/ RecvEchoFast(q, p)
        PROVE  flaps' = flaps
    BY <2>2 DEF Subscribe, Age, Refresh, Expire, Watch, Poll, Declare, Report, Forget, Recover,
                RecvEcho, RecvEchoFast, world
  <2>3. ASSUME NEW p \in Peer, NEW s \in Slot, SendBeacon(p, s) \/ RecvBeacon(p, s) \/ Beat(p, s)
        PROVE  flaps' = flaps
    BY <2>3 DEF SendBeacon, RecvBeacon, Beat, BeaconAnswer, NoteRunning, Raise, Echo, NotRunning, world
  <2>4. CASE (\E q \in Subscriber : RecvSubscribe(q)) \/ (\E s \in Slot : RefreshRemove(s))
    BY <2>4 DEF RecvSubscribe, RefreshRemove, world
  <2>5. ASSUME NEW p \in Peer, NEW how \in {"down", "cut"}, Fail(p, how)
        PROVE  flaps' = [flaps EXCEPT ![p] = @ + 1]
    BY <2>5 DEF Fail
  <2> QED
    BY <2>1, <2>2, <2>3, <2>4, <2>5 DEF Next
<1>3. /\ echoed' \in {echoed, echoed + 1} /\ lost' \in {lost, lost + 1}
      /\ disabled' \in {disabled, disabled + 1}
  <2>1. CASE Start \/ Initialize \/ InitializeFast \/ Disable \/ Enable \/ UNCHANGED vars
    BY <2>1 DEF Start, Initialize, InitializeFast, Disable, Enable, vars, world
  <2>2. ASSUME NEW p \in Peer,
               \/ Subscribe(p) \/ Age(p) \/ Refresh(p) \/ Expire(p) \/ Watch(p) \/ Recover(p)
               \/ \E q \in Peer \cup Other : RecvEcho(q, p) \/ RecvEchoFast(q, p)
        PROVE  /\ echoed' \in {echoed, echoed + 1} /\ lost' \in {lost, lost + 1} /\ disabled' = disabled
    BY <2>2 DEF Counters, Subscribe, Age, Refresh, Expire, Watch, Poll, Declare, Report, Forget, Recover,
                RecvEcho, RecvEchoFast, world
  <2>3. ASSUME NEW p \in Peer, NEW s \in Slot, SendBeacon(p, s) \/ RecvBeacon(p, s) \/ Beat(p, s)
        PROVE  /\ echoed' \in {echoed, echoed + 1} /\ lost' \in {lost, lost + 1} /\ disabled' = disabled
    <3>1. CASE BeaconAnswer(p, s)
      <4>1. echoed' = echoed /\ disabled' = disabled /\ \E answer : Spend(p, answer)
        BY <3>1 DEF BeaconAnswer
      <4> QED
        BY <4>1 DEF Counters, Spend
    <3>2. CASE Echo(p, s)
      <4>1. echoed' = echoed /\ disabled' = disabled /\ (lost' = lost \/ lost' = lost + 1)
        BY <3>2 DEF Echo
      <4> QED
        BY <4>1
    <3>3. CASE SendBeacon(p, s) \/ RecvBeacon(p, s) \/ NoteRunning(p, s) \/ Raise(p, s) \/ NotRunning(p, s)
      BY <3>3 DEF SendBeacon, RecvBeacon, NoteRunning, Raise, NotRunning, world
    <3> QED
      BY <2>3, <3>1, <3>2, <3>3 DEF Beat
  <2>4. CASE \/ \E q \in Subscriber : RecvSubscribe(q)
             \/ \E s \in Slot : RefreshRemove(s)
             \/ \E p \in Peer, how \in {"down", "cut"} : Fail(p, how)
    BY <2>4 DEF RecvSubscribe, RefreshRemove, Fail, world
  <2> QED
    BY <2>1, <2>2, <2>3, <2>4 DEF Next
<1>4. ASSUME NEW p \in Peer, flaps'[p] = 0 PROVE flaps[p] = 0
  BY <1>2, <1>4 DEF Counters
<1> QED
  BY <1>1, <1>3, <1>4 DEF Counters, Unprovoked, Fast

\* What a step has to be shown to do.
Keeps ==
  /\ Shapes' /\ Counters'
  /\ \A q \in Peer : Unprovoked(q) /\ Unprovoked(q)' /\ Trusted(q) => Trusted(q)'

\* A step of one thread between its accesses to the lists.
LEMMA ThreadMoves ==
  ASSUME Shapes, Counters, NEW p \in Peer, NEW s \in Slot, NEW t,
         beat' = [beat EXCEPT ![p][s] = t],
         Unprovoked(p) /\ Trusted(p) => t.pc \in {"idle", "sent", "append"},
         UNCHANGED <<kind, phase, lists, watch, refreshing, raced, up, flaps, echoed, disabled>>,
         lost' \in Nat
  PROVE  Keeps
<1>0. Rows /\ Turned(p, s, t)
  BY DEF Counters, Turned
<1>1. /\ Rows'
      /\ \A q \in Peer, r \in Slot : beat'[q][r] = IF q = p /\ r = s THEN t ELSE beat[q][r]
  BY <1>0, BeatSet
<1>2. Shapes' /\ Counters'
  BY <1>1 DEF Rows, Shapes, Counters, lists
<1>3. ASSUME NEW q \in Peer, Unprovoked(q), Trusted(q) PROVE Trusted(q)'
  <2>1. \A r \in Slot : beat'[q][r].pc \in {"idle", "sent", "append"}
    BY <1>1, <1>3 DEF Trusted
  <2> QED
    BY <1>3, <2>1 DEF Trusted, lists
<1> QED
  BY <1>2, <1>3 DEF Keeps

\* A step of a thread that watches a suspicion: there is none of a trusted server.
LEMMA WatcherMoves ==
  ASSUME Shapes, Counters, NEW p \in Peer, NEW from \in Steps, NEW to, from # to, Go(p, from, to),
         UNCHANGED <<kind, phase, running, stale, beat, refreshing, raced, world>>,
         NEW e \in Nat \cup {None}, NEW f \in Nat,
         echoes' = [echoes EXCEPT ![p] = e], faulty' = [faulty EXCEPT ![p] = f]
  PROVE  Keeps
<1>1. watch \in [Peer -> [Steps -> Nat]]
  BY DEF Shapes
<1>2. /\ watch' \in [Peer -> [Steps -> Nat]]
      /\ \A q \in Peer : q # p => watch'[q] = watch[q]
      /\ watch[p][from] > 0
  BY <1>1, GoEffect
<1>3. Shapes' /\ Counters'
  BY <1>2 DEF Rows, Shapes, Counters, world
<1>4. ASSUME NEW q \in Peer, Trusted(q) PROVE Trusted(q)'
  <2>1. q # p
    BY <1>2, <1>4 DEF Trusted
  <2>2. echoes'[q] = echoes[q] /\ faulty'[q] = faulty[q]
    BY <2>1 DEF Shapes
  <2> QED
    BY <1>2, <1>4, <2>1, <2>2 DEF Trusted, world
<1> QED
  BY <1>3, <1>4 DEF Keeps

LEMMA FairKeeps == FairInv /\ [Next]_vars => FairInv'
<1> SUFFICES ASSUME Shapes, Counters, [Next]_vars,
                    \A q \in Peer : Unprovoked(q) => Trusted(q)
             PROVE  Keeps
  BY CausesStay DEF Keeps, FairInv
<1>0. Rows
  BY DEF Counters
<1>1. CASE UNCHANGED vars
  BY <1>1 DEF vars, Keeps, Rows, Shapes, Counters, Trusted, lists, world
<1>2. CASE Start \/ Enable
  BY <1>2 DEF Start, Enable, Keeps, Rows, Shapes, Counters, Trusted, lists, world
<1>3. CASE Disable
  BY <1>3 DEF Disable, Keeps, Rows, Shapes, Counters, Trusted, lists
<1>4. CASE Initialize \/ InitializeFast
  <2>1. /\ phase' = "on"
        /\ UNCHANGED <<kind, stale, echoes, faulty, beat, watch, refreshing, raced, world>>
        /\ running' = [p \in Peer |-> 1] \/ running' = [p \in Peer |-> running[p] + 1]
    BY <1>4 DEF Initialize, InitializeFast
  <2>2. running' \in [Peer -> Nat] /\ \A p \in Peer : running'[p] > 0
    BY <2>1 DEF Shapes
  <2> QED
    BY <2>1, <2>2 DEF Keeps, Rows, Shapes, Counters, Trusted, world
<1>5. ASSUME NEW p \in Peer, Subscribe(p) \/ Recover(p) PROVE Keeps
  <2>1. CASE Subscribe(p)
    BY <2>1 DEF Subscribe, Keeps, Rows, Shapes, Counters, Trusted, lists, world
  <2>2. CASE Recover(p)
    <3>1. /\ UNCHANGED <<kind, phase, lists, beat, watch, refreshing, raced, flaps, echoed, lost, disabled>>
          /\ up' = [up EXCEPT ![p] = "up"]
      BY <2>2 DEF Recover
    <3>2. up' \in [Peer -> {"up", "down", "cut"}] /\ \A q \in Peer : up[q] = "up" => up'[q] = "up"
      BY <3>1 DEF Counters
    <3>3. Shapes' /\ Counters'
      BY <3>1, <3>2 DEF Rows, Shapes, Counters, lists
    <3> QED
      BY <3>1, <3>2, <3>3 DEF Keeps, Trusted, lists
  <2> QED
    BY <1>5, <2>1, <2>2
<1>6. ASSUME NEW q \in Subscriber, RecvSubscribe(q) PROVE Keeps
  BY <1>6 DEF RecvSubscribe, Keeps, Rows, Shapes, Counters, Trusted, lists, world
<1>7. ASSUME NEW p \in Peer, NEW how \in {"down", "cut"}, Fail(p, how) PROVE Keeps
  <2>1. /\ UNCHANGED <<kind, phase, lists, beat, watch, refreshing, raced, echoed, lost, disabled>>
        /\ up' = [up EXCEPT ![p] = how] /\ flaps' = [flaps EXCEPT ![p] = @ + 1]
    BY <1>7 DEF Fail
  <2>2. up' \in [Peer -> {"up", "down", "cut"}] /\ flaps' \in [Peer -> Nat] /\ flaps'[p] > 0
        /\ \A q \in Peer : q # p => up'[q] = up[q]
    BY <2>1 DEF Counters
  <2>3. Shapes' /\ Counters'
    BY <2>1, <2>2 DEF Rows, Shapes, Counters, lists
  <2>4. \A q \in Peer : Unprovoked(q)' => q # p
    BY <2>2 DEF Unprovoked
  <2> QED
    BY <2>1, <2>2, <2>3, <2>4 DEF Keeps, Trusted, lists
<1>8. ASSUME NEW p \in Peer, NEW q \in Peer \cup Other, RecvEcho(q, p) \/ RecvEchoFast(q, p)
      PROVE  Keeps
  <2>1. /\ UNCHANGED <<kind, phase, stale, faulty, beat, refreshing, raced, up, flaps, lost, disabled>>
        /\ echoed' = echoed + 1
        /\ running' = running \/ running' = [r \in Peer |-> IF r = q THEN 0 ELSE running[r]]
        /\ echoes' = [echoes EXCEPT ![p] = IF @ = None THEN 1 ELSE @ + 1]
        /\ watch' = watch \/ watch' = [watch EXCEPT ![p].watch = IF echoes[p] = None THEN @ + 1 ELSE @]
    BY <1>8 DEF RecvEcho, RecvEchoFast
  <2>2. running' \in [Peer -> Nat] /\ echoes' \in [Peer -> Nat \cup {None}]
    BY <2>1 DEF Shapes, None
  <2>3. watch' \in [Peer -> [Steps -> Nat]]
    <3>1. PICK w \in [Peer -> [Steps -> Nat]] : w = watch
      BY DEF Shapes
    <3>2. w[p].watch \in Nat
      BY DEF Steps
    <3>3. watch' = w \/ watch' = [w EXCEPT ![p].watch = w[p].watch] \/ watch' = [w EXCEPT ![p].watch = w[p].watch + 1]
      BY <2>1, <3>1
    <3> QED
      BY <3>2, <3>3 DEF Steps
  <2>4. Shapes' /\ Counters'
    BY <2>1, <2>2, <2>3 DEF Rows, Shapes, Counters
  <2>5. \A r \in Peer : ~Unprovoked(r)'
    BY <2>1 DEF Unprovoked, Counters
  <2> QED
    BY <2>4, <2>5 DEF Keeps
<1>9. ASSUME NEW p \in Peer, Age(p) PROVE Keeps
  <2>1. /\ UNCHANGED <<kind, phase, running, echoes, faulty, beat, watch, refreshing, raced, up, flaps, echoed, disabled>>
        /\ stale' = stale \cup {p} /\ Fast
        /\ lost' = lost + (IF up[p] = "up" /\ phase # "disabled" THEN 1 ELSE 0)
    BY <1>9 DEF Age
  <2>2. Shapes' /\ Counters'
    BY <2>1 DEF Rows, Shapes, Counters
  <2>3. \A q \in Peer : Unprovoked(q) /\ Unprovoked(q)' /\ Trusted(q) => q # p
    BY <2>1 DEF Unprovoked, Counters, Trusted, Fast
  <2> QED
    BY <2>1, <2>2, <2>3 DEF Keeps, Trusted
<1>10. ASSUME NEW p \in Peer, Refresh(p) PROVE Keeps
  <2>1. /\ UNCHANGED <<kind, phase, running, stale, faulty, beat, raced, world>>
        /\ p \in stale /\ refreshing' = p
        /\ echoes' = [echoes EXCEPT ![p] = IF @ = None THEN 0 ELSE @]
        /\ watch' = [watch EXCEPT ![p].watch = @ + 1]
    BY <1>10 DEF Refresh
  <2>2. PICK w \in [Peer -> [Steps -> Nat]] : w = watch
    BY DEF Shapes
  <2>3. watch' \in [Peer -> [Steps -> Nat]] /\ \A q \in Peer : q # p => watch'[q] = watch[q]
    <3>1. w[p].watch + 1 \in Nat
      BY DEF Steps
    <3>2. watch' = [w EXCEPT ![p].watch = w[p].watch + 1]
      BY <2>1, <2>2
    <3> QED
      BY <2>2, <3>1, <3>2 DEF Steps
  <2>4. echoes' \in [Peer -> Nat \cup {None}] /\ \A q \in Peer : q # p => echoes'[q] = echoes[q]
    BY <2>1 DEF Shapes
  <2>5. Shapes' /\ Counters'
    BY <2>1, <2>3, <2>4 DEF Rows, Shapes, Counters, world
  <2>6. \A q \in Peer : Trusted(q) => q # p
    BY <2>1 DEF Trusted
  <2> QED
    BY <2>1, <2>3, <2>4, <2>5, <2>6 DEF Keeps, Trusted, world
<1>11. ASSUME NEW p \in Peer, Expire(p) \/ Watch(p) PROVE Keeps
  <2>0. echoes \in [Peer -> Nat \cup {None}] /\ faulty \in [Peer -> Nat]
    BY DEF Shapes
  <2>1. CASE Expire(p)
    <3>1. Go(p, "watch", "declare") /\ UNCHANGED <<kind, phase, running, stale, beat, refreshing, raced, world>>
          /\ UNCHANGED <<echoes, faulty>>
      BY <2>1 DEF Expire, lists
    <3>2. echoes' = [echoes EXCEPT ![p] = echoes[p]] /\ faulty' = [faulty EXCEPT ![p] = faulty[p]]
      BY <2>0, <3>1
    <3> QED
      BY <2>0, <3>1, <3>2, WatcherMoves DEF Steps
  <2>2. CASE Poll(p)
    <3>1. /\ Go(p, "watch", "end") \/ Go(p, "watch", "declare")
          /\ UNCHANGED <<kind, phase, running, stale, beat, refreshing, raced, world>>
          /\ UNCHANGED <<echoes, faulty>>
      BY <2>2 DEF Poll, lists
    <3>2. echoes' = [echoes EXCEPT ![p] = echoes[p]] /\ faulty' = [faulty EXCEPT ![p] = faulty[p]]
      BY <2>0, <3>1
    <3> QED
      BY <2>0, <3>1, <3>2, WatcherMoves DEF Steps
  <2>3. CASE Declare(p)
    <3>1. /\ Go(p, "declare", IF p = Leader THEN "report" ELSE "forget")
          /\ UNCHANGED <<kind, phase, running, stale, beat, refreshing, raced, world>>
          /\ faulty' = [faulty EXCEPT ![p] = faulty[p] + 1] /\ echoes' = echoes
      BY <2>3 DEF Declare
    <3>2. echoes' = [echoes EXCEPT ![p] = echoes[p]] /\ faulty[p] + 1 \in Nat
      BY <2>0, <3>1
    <3> QED
      BY <2>0, <3>1, <3>2, WatcherMoves DEF Steps
  <2>4. CASE Report(p)
    <3>1. /\ Go(p, "report", "forget")
          /\ UNCHANGED <<kind, phase, running, stale, beat, refreshing, raced, world>>
          /\ UNCHANGED <<echoes, faulty>>
      BY <2>4 DEF Report, lists
    <3>2. echoes' = [echoes EXCEPT ![p] = echoes[p]] /\ faulty' = [faulty EXCEPT ![p] = faulty[p]]
      BY <2>0, <3>1
    <3> QED
      BY <2>0, <3>1, <3>2, WatcherMoves DEF Steps
  <2>5. CASE Forget(p)
    <3>1. /\ Go(p, "forget", "end")
          /\ UNCHANGED <<kind, phase, running, stale, beat, refreshing, raced, world>>
          /\ echoes' = [echoes EXCEPT ![p] = None] /\ faulty' = faulty
      BY <2>5 DEF Forget
    <3>2. faulty' = [faulty EXCEPT ![p] = faulty[p]]
      BY <2>0, <3>1
    <3> QED
      BY <2>0, <3>1, <3>2, WatcherMoves DEF Steps
  <2> QED
    BY <1>11, <2>1, <2>2, <2>3, <2>4, <2>5 DEF Watch
<1>12. ASSUME NEW p \in Peer, NEW s \in Slot, SendBeacon(p, s) \/ RecvBeacon(p, s) PROVE Keeps
  <2>1. PICK t \in {At("sent"), At("append")} :
          /\ beat' = [beat EXCEPT ![p][s] = t]
          /\ UNCHANGED <<kind, phase, lists, watch, refreshing, raced, world>>
    BY <1>12 DEF SendBeacon, RecvBeacon
  <2>2. t.pc \in {"idle", "sent", "append"}
    BY DEF At, Idle
  <2>3. UNCHANGED <<up, flaps, echoed, disabled>> /\ lost' \in Nat
    BY <2>1 DEF world, Counters
  <2> QED
    BY <2>1, <2>2, <2>3, ThreadMoves
<1>13. ASSUME NEW p \in Peer, NEW s \in Slot, BeaconAnswer(p, s) PROVE Keeps
  <2>1. PICK answer \in Outcome(p) :
          /\ beat' = [beat EXCEPT ![p][s] =
               CASE answer = "OK" -> At("append")
                 [] answer = "TIMEOUT" -> At("suspect")
                 [] answer = "nothing" -> Idle]
          /\ Spend(p, answer)
          /\ UNCHANGED <<kind, phase, lists, watch, refreshing, raced, up, flaps, echoed, disabled>>
    BY <1>13 DEF BeaconAnswer
  <2>2. lost' \in Nat
    BY <2>1 DEF Spend, Counters
  <2>3. CASE answer = "TIMEOUT"
    <3>1. beat' = [beat EXCEPT ![p][s] = At("suspect")]
      BY <2>1, <2>3
    <3>2. ~(Unprovoked(p) /\ Trusted(p))
      BY <2>3 DEF Trusted, Outcome, State
    <3>3. Unprovoked(p) /\ Trusted(p) => At("suspect").pc \in {"idle", "sent", "append"}
      BY <3>2
    <3> QED
      BY <2>1, <2>2, <3>1, <3>3, ThreadMoves
  <2>4. CASE answer = "OK"
    <3>1. beat' = [beat EXCEPT ![p][s] = At("append")]
      BY <2>1, <2>4
    <3>2. At("append").pc \in {"idle", "sent", "append"}
      BY DEF At, Idle
    <3> QED
      BY <2>1, <2>2, <3>1, <3>2, ThreadMoves
  <2>5. CASE answer = "nothing"
    <3>1. beat' = [beat EXCEPT ![p][s] = Idle]
      BY <2>1, <2>5
    <3>2. Idle.pc \in {"idle", "sent", "append"}
      BY DEF Idle
    <3> QED
      BY <2>1, <2>2, <3>1, <3>2, ThreadMoves
  <2> QED
    BY <2>3, <2>4, <2>5 DEF Outcome, State, Counters
<1>14. ASSUME NEW p \in Peer, NEW s \in Slot, Echo(p, s) PROVE Keeps
  <2>1. ~Trusted(p)
    BY <1>14 DEF Echo, Trusted
  <2>2. PICK t : beat' = [beat EXCEPT ![p][s] = t]
    BY <1>14 DEF Echo
  <2>3. /\ UNCHANGED <<kind, phase, lists, watch, refreshing, raced, up, flaps, echoed, disabled>>
        /\ lost' = lost \/ lost' = lost + 1
    BY <1>14 DEF Echo
  <2>4. lost' \in Nat
    BY <2>3 DEF Counters
  <2> QED
    BY <2>1, <2>2, <2>3, <2>4, ThreadMoves
<1>15. ASSUME NEW p \in Peer, NEW s \in Slot, NoteRunning(p, s) PROVE Keeps
  <2>1. /\ running' = [running EXCEPT ![p] = IF @ = 0 THEN 1 ELSE @]
        /\ stale' = stale \ {p} /\ raced' = raced \ {p}
        /\ echoes' = [echoes EXCEPT ![p] = None]
        /\ faulty' = [faulty EXCEPT ![p] = Decrement(@)]
        /\ beat' = [beat EXCEPT ![p][s] = Idle]
        /\ UNCHANGED <<kind, phase, watch, refreshing, world>>
    BY <1>15 DEF NoteRunning
  <2>2. /\ Rows'
        /\ \A q \in Peer, r \in Slot : beat'[q][r] = IF q = p /\ r = s THEN Idle ELSE beat[q][r]
    <3>1. Turned(p, s, Idle)
      BY <2>1 DEF Turned
    <3> QED
      BY <1>0, <3>1, BeatSet
  <2>3. /\ running' \in [Peer -> Nat] /\ faulty' \in [Peer -> Nat] /\ echoes' \in [Peer -> Nat \cup {None}]
        /\ \A q \in Peer : q # p => running'[q] = running[q] /\ faulty'[q] = faulty[q] /\ echoes'[q] = echoes[q]
        /\ running'[p] > 0 /\ echoes'[p] = None /\ (faulty[p] = 0 => faulty'[p] = 0)
    BY <2>1 DEF Shapes, Decrement
  <2>4. Shapes' /\ Counters'
    BY <2>1, <2>2, <2>3 DEF Rows, Shapes, Counters, world
  <2>5. ASSUME NEW q \in Peer, Trusted(q) PROVE Trusted(q)'
    <3>1. \A r \in Slot : beat'[q][r].pc \in {"idle", "sent", "append"}
      BY <2>2, <2>5 DEF Trusted, Idle
    <3> QED
      BY <2>1, <2>3, <2>5, <3>1 DEF Trusted, world
  <2> QED
    BY <2>4, <2>5 DEF Keeps
<1>16. ASSUME NEW p \in Peer, NEW s \in Slot, Raise(p, s) PROVE Keeps
  <2>1. /\ echoes' = [echoes EXCEPT ![p] = IF echoes[p] = None /\ faulty[p] = 0 THEN 0 ELSE @]
        /\ watch' = [watch EXCEPT ![p].watch = IF echoes[p] = None /\ faulty[p] = 0 THEN @ + 1 ELSE @]
        /\ beat' = [beat EXCEPT ![p][s] = EchoJob] /\ beat[p][s].pc = "suspect"
        /\ UNCHANGED <<kind, phase, running, stale, faulty, refreshing, raced, world>>
    BY <1>16 DEF Raise
  <2>2. /\ Rows'
        /\ \A q \in Peer, r \in Slot : beat'[q][r] = IF q = p /\ r = s THEN EchoJob ELSE beat[q][r]
    <3>1. Turned(p, s, EchoJob)
      BY <2>1 DEF Turned
    <3> QED
      BY <1>0, <3>1, BeatSet
  <2>3. PICK w \in [Peer -> [Steps -> Nat]] : w = watch
    BY DEF Shapes
  <2>4. watch' \in [Peer -> [Steps -> Nat]] /\ \A q \in Peer : q # p => watch'[q] = watch[q]
    <3>1. w[p].watch \in Nat /\ w[p].watch + 1 \in Nat
      BY DEF Steps
    <3>2. watch' = [w EXCEPT ![p].watch = w[p].watch] \/ watch' = [w EXCEPT ![p].watch = w[p].watch + 1]
      BY <2>1, <2>3
    <3> QED
      BY <2>3, <3>1, <3>2 DEF Steps
  <2>5. echoes' \in [Peer -> Nat \cup {None}] /\ \A q \in Peer : q # p => echoes'[q] = echoes[q]
    BY <2>1 DEF Shapes
  <2>6. Shapes' /\ Counters'
    BY <2>1, <2>2, <2>4, <2>5 DEF Rows, Shapes, Counters, world
  <2>7. ASSUME NEW q \in Peer, Trusted(q) PROVE Trusted(q)'
    <3>1. q # p
      BY <2>1, <2>7 DEF Trusted
    <3>2. \A r \in Slot : beat'[q][r] = beat[q][r]
      BY <2>2, <3>1
    <3> QED
      BY <2>1, <2>4, <2>5, <2>7, <3>1, <3>2 DEF Trusted, world
  <2> QED
    BY <2>6, <2>7 DEF Keeps
<1>17. ASSUME NEW p \in Peer, NEW s \in Slot, NEW t,
              running' = [running EXCEPT ![p] = Decrement(@)], beat' = [beat EXCEPT ![p][s] = t],
              raced' = raced \/ raced' = raced \cup {p}, refreshing' \in {refreshing, Nobody}, ~Trusted(p),
              UNCHANGED <<kind, phase, stale, echoes, faulty, watch, world>>
       PROVE  Keeps
  <2>1. /\ Rows'
        /\ \A q \in Peer, r \in Slot : beat'[q][r] = IF q = p /\ r = s THEN t ELSE beat[q][r]
    <3>1. Turned(p, s, t)
      BY <1>17 DEF Turned
    <3> QED
      BY <1>0, <3>1, BeatSet
  <2>2. running' \in [Peer -> Nat] /\ \A q \in Peer : q # p => running'[q] = running[q]
    BY <1>17 DEF Shapes, Decrement
  <2>3. Shapes' /\ Counters'
    BY <1>17, <2>1, <2>2 DEF Rows, Shapes, Counters, world
  <2>4. ASSUME NEW q \in Peer, Trusted(q) PROVE Trusted(q)'
    <3>1. q # p
      BY <1>17, <2>4
    <3>2. \A r \in Slot : beat'[q][r] = beat[q][r]
      BY <2>1, <3>1
    <3> QED
      BY <1>17, <2>2, <2>4, <3>1, <3>2 DEF Trusted, world
  <2> QED
    BY <2>3, <2>4 DEF Keeps
<1>18. ASSUME NEW p \in Peer, NEW s \in Slot, NotRunning(p, s) PROVE Keeps
  <2>1. ~Trusted(p)
    BY <1>18 DEF NotRunning, Trusted
  <2> QED
    BY <1>17, <1>18, <2>1 DEF NotRunning
<1>19. ASSUME NEW s \in Slot, RefreshRemove(s) PROVE Keeps
  <2>1. refreshing \in Peer /\ refreshing # Nobody
    BY <1>19 DEF RefreshRemove, Shapes
  <2>2. ~Trusted(refreshing)
    BY <2>1 DEF Trusted
  <2>3. PICK p \in Peer : p = refreshing
    BY <2>1
  <2> QED
    BY <1>17, <1>19, <2>2, <2>3 DEF RefreshRemove
<1> QED
  BY <1>1, <1>2, <1>3, <1>4, <1>5, <1>6, <1>7, <1>8, <1>9, <1>10, <1>11, <1>12, <1>13, <1>14, <1>15, <1>16,
     <1>18, <1>19 DEF Next, Beat

\* A server that has given no cause is not suspected: it has its row, no entry in
\* suspect or faulty, and no thread is watching it, however many other servers fail
\* and for Simple whatever answers are lost.
NoFalseAlarm ==
  \A p \in Peer : Unprovoked(p) =>
    /\ echoes[p] = None /\ faulty[p] = 0 /\ ~Watched(p)
    /\ phase \notin {"off", "started"} => running[p] > 0

THEOREM AlarmsHaveCause == Spec => []NoFalseAlarm
<1>1. FairInv => NoFalseAlarm
  BY DEF FairInv, Shapes, NoFalseAlarm, Trusted, Watched
<1> QED
  BY <1>1, FairInit, FairKeeps, PTL DEF Spec
=============================================================================
