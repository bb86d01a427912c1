---------------------------- MODULE ProgramProofs ----------------------------
(***************************************************************************)
(* What the programs of ProgramSuite promise for every value of their      *)
(* constants.  Each program has an inductive invariant over its own        *)
(* variables; a step of another program does not touch them.               *)
(***************************************************************************)
EXTENDS ProgramSuite, FiniteSetTheorems, SequenceTheorems, Sums, TLAPS

-----------------------------------------------------------------------------
(* UtmServer.                                                              *)

\* etcd never forgets a record, and holds those of servers only; a bank names a
\* server only where etcd holds a record.
Status == Server \cup {"none", "pending"}

UtmInv ==
  /\ store \in [Turbine -> Server \cup {"none"}]
  /\ bank \in [Server -> [Turbine -> Status]]
  /\ uavFound \in [Server -> Turbine \cup {"none"}]
  /\ SyncedIsStored

LEMMA UtmStep == [Next]_vars => [Utm!Next]_utmVars
  BY DEF Next, Others, vars

LEMMA UtmInit == Init => UtmInv
  BY UtmAssumption DEF Init, Utm!Init, Utm!None, Utm!Pending, Status, UtmInv, SyncedIsStored,
                       Utm!SyncedIsStored

LEMMA UtmKeeps == UtmInv /\ [Utm!Next]_utmVars => UtmInv'
  <1> SUFFICES ASSUME UtmInv, [Utm!Next]_utmVars PROVE UtmInv'
    OBVIOUS
  <1> USE UtmAssumption DEF Status, UtmInv, SyncedIsStored, Utm!SyncedIsStored, Utm!None, Utm!Pending
  <1>1. ASSUME NEW s \in Server, Utm!UavPositionUpdate(s) PROVE UtmInv'
    BY <1>1 DEF Utm!UavPositionUpdate
  <1>2. ASSUME NEW s \in Server, Utm!CompareDistances(s) PROVE UtmInv'
    BY <1>2 DEF Utm!CompareDistances
  <1>3. ASSUME NEW s \in Server, Utm!RecordFound(s) PROVE UtmInv'
    BY <1>3 DEF Utm!RecordFound
  <1>4. ASSUME NEW s \in Server, NEW i \in Instances, Utm!CollectUnsynced(s, i) PROVE UtmInv'
    BY <1>4 DEF Utm!CollectUnsynced
  <1>5. ASSUME NEW s \in Server, NEW i \in Instances, NEW w \in Turbine, Utm!Ask(s, i, w)
        PROVE  UtmInv'
    BY <1>5 DEF Utm!Ask
  <1>6. ASSUME NEW s \in Server, NEW i \in Instances, Utm!Put(s, i) PROVE UtmInv'
    <2> DEFINE w == job[s][i].put
    <2>1. PICK v \in {"pending", bank[s][w]} :
            /\ store' = [store EXCEPT ![w] = s] \/ store' = store
            /\ bank' = [bank EXCEPT ![s][w] = v] /\ uavFound' = uavFound
      BY <1>6 DEF Utm!Put
    <2> HIDE DEF w
    <2>2. /\ store' \in [Turbine -> Server \cup {"none"}]
          /\ \A x \in Turbine : store[x] # "none" => store'[x] # "none"
      BY <2>1
    <2>3. bank \in [Server -> [Turbine -> Status]] /\ (w \in Turbine => v \in Status)
      BY <2>1 DEF Status
    <2> HIDE DEF Status, UtmInv, SyncedIsStored, Utm!SyncedIsStored
    <2>4. /\ bank' \in [Server -> [Turbine -> Status]]
          /\ \A t \in Server, x \in Turbine : bank'[t][x] = IF t = s /\ x = w THEN v ELSE bank[t][x]
      BY <2>1, <2>3
    <2>5. QED
      BY <2>1, <2>2, <2>4 DEF UtmInv, SyncedIsStored, Utm!SyncedIsStored, Status
  <1>7. ASSUME NEW s \in Server, Utm!EtcdCallback(s) PROVE UtmInv'
    <2> DEFINE w == Head(events[s])
    <2>1. PICK v \in {store[w], bank[s][w]} :
            bank' = [bank EXCEPT ![s][w] = v] /\ UNCHANGED <<store, uavFound>>
      BY <1>7 DEF Utm!EtcdCallback
    <2> HIDE DEF w
    <2>2. bank \in [Server -> [Turbine -> Status]] /\ (w \in Turbine => v \in Status)
      BY <2>1 DEF Status
    <2> HIDE DEF Status, UtmInv, SyncedIsStored, Utm!SyncedIsStored
    <2>3. /\ bank' \in [Server -> [Turbine -> Status]]
          /\ \A t \in Server, x \in Turbine : bank'[t][x] = IF t = s /\ x = w THEN v ELSE bank[t][x]
      BY <2>1, <2>2
    <2>4. QED
      BY <2>1, <2>3 DEF UtmInv, SyncedIsStored, Utm!SyncedIsStored, Status
  <1>8. ASSUME NEW s \in Server,
               Utm!SaveToFile(s) \/ Utm!LoseEtcd(s) \/ Utm!RegainEtcd(s)
        PROVE  UtmInv'
    BY <1>8 DEF Utm!SaveToFile, Utm!LoseEtcd, Utm!RegainEtcd
  <1>9. CASE UNCHANGED utmVars
    BY <1>9 DEF utmVars
  <1>10. QED
    BY <1>1, <1>2, <1>3, <1>4, <1>5, <1>6, <1>7, <1>8, <1>9 DEF Utm!Next, Utm!WriteJob

\* However the write jobs, the watch and compare_distances interleave, and
\* however puts fail: a record with status True is in etcd.
THEOREM SyncedStored == Spec => []SyncedIsStored
  <1>1. UtmInv => SyncedIsStored
    BY DEF UtmInv
  <1>2. QED
    BY <1>1, UtmInit, UtmStep, UtmKeeps, PTL DEF Spec

\* What a write job is left with: turbines to ask about and the one to put.
Todo == [todo : SUBSET Turbine, put : Turbine \cup {"none"}]

\* A turbine a job holds, or whose record names the server, has a record in data_bank;
\* an event is of a turbine in the store.
StoreInv ==
  /\ UtmInv
  /\ job \in [Server -> [Instances -> Todo]]
  /\ listed \in [Server -> [Turbine -> Server \cup {"none"}]]
  /\ events \in [Server -> Seq(Turbine)]
  /\ \A s \in Server, w \in Turbine :
       /\ store[w] = s => bank[s][w] # "none"
       /\ \A i \in Instances : w \in job[s][i].todo \/ job[s][i].put = w => bank[s][w] # "none"
  /\ \A s \in Server : \A k \in 1 .. Len(events[s]) : store[events[s][k]] # "none"

\* Whether a server claims a turbine.
Claiming(s, w) ==
  \/ uavFound[s] = w \/ bank[s][w] \in {"pending", s}
  \/ \E i \in Instances : w \in job[s][i].todo \/ job[s][i].put = w

LEMMA ClaimsAre ==
  /\ Utm!Claims \in [Turbine -> SUBSET Server]
  /\ \A w \in Turbine, s \in Server : s \in Utm!Claims[w] <=> Claiming(s, w)
  /\ Utm!Marked \in [Server -> SUBSET Turbine]
  /\ \A w \in Turbine, s \in Server : w \in Utm!Marked[s] <=> bank[s][w] \in Server
  BY DEF Utm!Claims, Utm!Marked, Claiming, Utm!Pending

LEMMA ClaimsAreNext ==
  (/\ Utm!Claims \in [Turbine -> SUBSET Server]
   /\ \A w \in Turbine, s \in Server : s \in Utm!Claims[w] <=> Claiming(s, w)
   /\ Utm!Marked \in [Server -> SUBSET Turbine]
   /\ \A w \in Turbine, s \in Server : w \in Utm!Marked[s] <=> bank[s][w] \in Server)'
  BY ClaimsAre, PTL

\* Two families of sets that differ in one element of one set at most.
DifferAt(A, B, f, g, a, b) ==
  /\ f \in [A -> SUBSET B] /\ g \in [A -> SUBSET B] /\ a \in A /\ b \in B
  /\ \A x \in A, y \in B : (x = a /\ y = b) \/ (y \in g[x] <=> y \in f[x])

LEMMA OneMember ==
  ASSUME NEW A, NEW B, NEW f, NEW g, NEW a, NEW b, DifferAt(A, B, f, g, a, b)
  PROVE  /\ (b \in g[a] <=> b \in f[a]) => g = f
         /\ b \in g[a] => g = [f EXCEPT ![a] = f[a] \cup {b}]
         /\ b \notin g[a] => g = [f EXCEPT ![a] = f[a] \ {b}]
  <1> USE DEF DifferAt
  <1>1. \A x \in A : x # a => g[x] = f[x]
    OBVIOUS
  <1>2. /\ (b \in g[a] <=> b \in f[a]) => g[a] = f[a]
        /\ b \in g[a] => g[a] = f[a] \cup {b}
        /\ b \notin g[a] => g[a] = f[a] \ {b}
    OBVIOUS
  <1> QED
    BY <1>1, <1>2

\* A step that changes the records of one server for one turbine at most.
Touches(s, w) ==
  \A t \in Server, x \in Turbine :
    (t = s /\ x = w) \/ ((Claiming(t, x)' <=> Claiming(t, x)) /\ bank'[t][x] = bank[t][x])

LEMMA Touched ==
  ASSUME NEW s \in Server, NEW w \in Turbine, Touches(s, w)
  PROVE  /\ (Claiming(s, w)' <=> Claiming(s, w)) => Utm!Claims' = Utm!Claims
         /\ Claiming(s, w)' => Utm!Claims' = [Utm!Claims EXCEPT ![w] = @ \cup {s}]
         /\ ~Claiming(s, w)' => Utm!Claims' = [Utm!Claims EXCEPT ![w] = @ \ {s}]
         /\ (bank'[s][w] \in Server <=> bank[s][w] \in Server) => Utm!Marked' = Utm!Marked
         /\ bank'[s][w] \in Server => Utm!Marked' = [Utm!Marked EXCEPT ![s] = @ \cup {w}]
         /\ bank'[s][w] \notin Server => Utm!Marked' = [Utm!Marked EXCEPT ![s] = @ \ {w}]
  <1>1. PICK f \in [Turbine -> SUBSET Server], g \in [Turbine -> SUBSET Server] :
          f = Utm!Claims /\ g = Utm!Claims'
    BY ClaimsAre, ClaimsAreNext
  <1>2. PICK h \in [Server -> SUBSET Turbine], k \in [Server -> SUBSET Turbine] :
          h = Utm!Marked /\ k = Utm!Marked'
    BY ClaimsAre, ClaimsAreNext
  <1>3. /\ \A x \in Turbine, t \in Server : t \in f[x] <=> Claiming(t, x)
        /\ \A x \in Turbine, t \in Server : t \in g[x] <=> Claiming(t, x)'
        /\ \A x \in Turbine, t \in Server : x \in h[t] <=> bank[t][x] \in Server
        /\ \A x \in Turbine, t \in Server : x \in k[t] <=> bank'[t][x] \in Server
    BY <1>1, <1>2, ClaimsAre, ClaimsAreNext
  <1>4. DifferAt(Turbine, Server, f, g, w, s)
    BY <1>3 DEF Touches, DifferAt
  <1>5. DifferAt(Server, Turbine, h, k, s, w)
    BY <1>3 DEF Touches, DifferAt
  <1>6. /\ (s \in g[w] <=> s \in f[w]) => g = f
        /\ s \in g[w] => g = [f EXCEPT ![w] = f[w] \cup {s}]
        /\ s \notin g[w] => g = [f EXCEPT ![w] = f[w] \ {s}]
    BY <1>4, OneMember
  <1>7. /\ (w \in k[s] <=> w \in h[s]) => k = h
        /\ w \in k[s] => k = [h EXCEPT ![s] = h[s] \cup {w}]
        /\ w \notin k[s] => k = [h EXCEPT ![s] = h[s] \ {w}]
    BY <1>5, OneMember
  <1> QED
    BY <1>1, <1>2, <1>3, <1>6, <1>7

LEMMA StoreInit == Init => StoreInv
  <1> SUFFICES ASSUME Init PROVE StoreInv
    OBVIOUS
  <1>1. UtmInv
    BY UtmInit
  <1>2. Utm!Init
    BY DEF Init
  <1>3. PICK d \in Todo : d = Utm!Idle /\ d.todo = {} /\ d.put = "none"
    <2>1. PICK d : d = [todo |-> {}, put |-> "none"]
      OBVIOUS
    <2>2. d \in Todo /\ d.todo = {} /\ d.put = "none"
      BY <2>1 DEF Todo
    <2>3. d = Utm!Idle
      BY <2>1 DEF Utm!Idle, Utm!None
    <2> QED
      BY <2>2, <2>3
  <1>4. /\ job \in [Server -> [Instances -> Todo]]
        /\ \A s \in Server, i \in Instances : job[s][i] = d
    BY <1>2, <1>3 DEF Utm!Init
  <1>5. /\ listed \in [Server -> [Turbine -> Server \cup {"none"}]]
        /\ events \in [Server -> Seq(Turbine)] /\ \A s \in Server : Len(events[s]) = 0
        /\ \A w \in Turbine : store[w] = "none"
    BY <1>2 DEF Utm!Init, Utm!None
  <1>6. \A s \in Server, w \in Turbine :
          /\ store[w] # s
          /\ \A i \in Instances : w \notin job[s][i].todo /\ job[s][i].put # w
    BY <1>3, <1>4, <1>5, UtmAssumption
  <1> QED
    BY <1>1, <1>4, <1>5, <1>6 DEF StoreInv

LEMMA StoreKeeps == StoreInv /\ [Utm!Next]_utmVars => StoreInv'
  <1> SUFFICES ASSUME StoreInv, [Utm!Next]_utmVars PROVE StoreInv'
    OBVIOUS
  <1>0. UtmInv' /\ UtmInv
    BY UtmKeeps DEF StoreInv
  <1> USE UtmAssumption DEF StoreInv, Todo, Utm!None, Utm!Pending
  <1>a. bank \in [Server -> [Turbine -> Status]] /\ store \in [Turbine -> Server \cup {"none"}]
    BY <1>0 DEF UtmInv
  <1>1. ASSUME NEW s \in Server,
               \/ Utm!UavPositionUpdate(s) \/ Utm!CompareDistances(s)
               \/ Utm!SaveToFile(s) \/ Utm!LoseEtcd(s) \/ Utm!RegainEtcd(s)
        PROVE  StoreInv'
    BY <1>0, <1>1 DEF Utm!UavPositionUpdate, Utm!CompareDistances, Utm!SaveToFile, Utm!LoseEtcd, Utm!RegainEtcd
  <1>2. ASSUME NEW s \in Server, Utm!RecordFound(s) PROVE StoreInv'
    <2>1. \A t \in Server, x \in Turbine : bank'[t][x] = bank[t][x] \/ bank'[t][x] = "pending"
      BY <1>2, <1>a DEF Utm!RecordFound
    <2> QED
      BY <1>0, <1>2, <2>1 DEF Utm!RecordFound
  <1>3. ASSUME NEW s \in Server, NEW i \in Instances, Utm!CollectUnsynced(s, i) PROVE StoreInv'
    <2>1. PICK u \in SUBSET Turbine :
            /\ job' = [job EXCEPT ![s][i].todo = u] /\ \A w \in u : bank[s][w] = "pending"
            /\ UNCHANGED <<bank, listed, store, events>>
      BY <1>3 DEF Utm!CollectUnsynced
    <2>2. /\ job' \in [Server -> [Instances -> Todo]]
          /\ \A t \in Server, j \in Instances :
               /\ job'[t][j].put = job[t][j].put
               /\ job'[t][j].todo = IF t = s /\ j = i THEN u ELSE job[t][j].todo
      BY <2>1
    <2> QED
      BY <1>0, <2>1, <2>2
  <1>4. ASSUME NEW s \in Server, NEW i \in Instances, NEW w \in Turbine, Utm!Ask(s, i, w)
        PROVE  StoreInv'
    <2>1. PICK v \in {w, "none"} :
            /\ job' = [job EXCEPT ![s][i] = [todo |-> job[s][i].todo \ {w}, put |-> v]]
            /\ w \in job[s][i].todo /\ UNCHANGED <<listed, store, events>>
      BY <1>4 DEF Utm!Ask
    <2>2. /\ job' \in [Server -> [Instances -> Todo]]
          /\ \A t \in Server, j \in Instances :
               /\ job'[t][j].put = IF t = s /\ j = i THEN v ELSE job[t][j].put
               /\ job'[t][j].todo \subseteq job[t][j].todo
      BY <2>1
    <2>3. \A t \in Server, x \in Turbine : bank[t][x] # "none" => bank'[t][x] # "none"
      <3>1. \A t \in Server, x \in Turbine : bank'[t][x] = bank[t][x] \/ bank'[t][x] = s
        BY <1>4, <1>a DEF Utm!Ask
      <3> QED
        BY <3>1
    <2>4. \A t \in Server, x \in Turbine :
            /\ store'[x] = t => bank'[t][x] # "none"
            /\ \A j \in Instances : x \in job'[t][j].todo \/ job'[t][j].put = x => bank'[t][x] # "none"
      BY <2>1, <2>2, <2>3
    <2> QED
      BY <1>0, <2>1, <2>2, <2>4
  <1>5. ASSUME NEW s \in Server, NEW i \in Instances, Utm!Put(s, i) PROVE StoreInv'
    <2>0. PICK w \in Turbine : w = job[s][i].put
      BY <1>5 DEF Utm!Put
    <2>1. /\ job' = [job EXCEPT ![s][i].put = "none"] /\ listed' = listed
          /\ \/ store' = [store EXCEPT ![w] = s] /\ events' = [t \in Server |-> Append(events[t], w)]
             \/ store' = store /\ events' = events
          /\ \E v \in {"pending", bank[s][w]} : bank' = [bank EXCEPT ![s][w] = v]
      BY <1>5, <2>0 DEF Utm!Put
    <2>2. /\ job' \in [Server -> [Instances -> Todo]]
          /\ \A t \in Server, j \in Instances :
               /\ job'[t][j].put = IF t = s /\ j = i THEN "none" ELSE job[t][j].put
               /\ job'[t][j].todo = job[t][j].todo
      <3>1. PICK d \in Todo : d = [job[s][i] EXCEPT !.put = "none"] /\ d.put = "none" /\ d.todo = job[s][i].todo
        <4>1. PICK c \in Todo : c = job[s][i]
          BY <1>5 DEF Utm!Put
        <4>2. PICK d : d = [c EXCEPT !.put = "none"]
          OBVIOUS
        <4>3. d \in Todo /\ d.put = "none" /\ d.todo = c.todo
          BY <4>2
        <4> QED
          BY <4>1, <4>2, <4>3
      <3>2. job' = [job EXCEPT ![s] = [job[s] EXCEPT ![i] = d]]
        BY <2>1, <3>1
      <3> HIDE DEF Todo
      <3>3. job' \in [Server -> [Instances -> Todo]]
        BY <3>2
      <3>4. \A t \in Server, j \in Instances : job'[t][j] = IF t = s /\ j = i THEN d ELSE job[t][j]
        BY <3>2
      <3> QED
        BY <3>1, <3>3, <3>4
    <2>3. \A t \in Server, x \in Turbine : bank'[t][x] = bank[t][x] \/ bank'[t][x] = "pending"
      BY <1>a, <2>1
    <2>4. bank[s][w] # "none"
      BY <2>0
    <2>5. \A x \in Turbine : store'[x] = store[x] \/ (x = w /\ store'[x] = s)
      BY <1>a, <2>1
    <2>6. /\ events' \in [Server -> Seq(Turbine)]
          /\ \A t \in Server : \A k \in 1 .. Len(events'[t]) : store'[events'[t][k]] # "none"
      <3>1. CASE store' = store /\ events' = events
        BY <3>1
      <3>2. CASE store' = [store EXCEPT ![w] = s] /\ events' = [t \in Server |-> Append(events[t], w)]
        <4>1. \A t \in Server : /\ events'[t] \in Seq(Turbine)
                                /\ Len(events'[t]) = Len(events[t]) + 1
                                /\ events'[t][Len(events[t]) + 1] = w
                                /\ \A k \in 1 .. Len(events[t]) : events'[t][k] = events[t][k]
          BY <3>2
        <4>2. events' \in [Server -> Seq(Turbine)]
          BY <3>2, <4>1
        <4>3. \A x \in Turbine : (x = w \/ store[x] # "none") => store'[x] # "none"
          BY <1>a, <3>2
        <4>4. ASSUME NEW t \in Server, NEW k \in 1 .. Len(events'[t]) PROVE store'[events'[t][k]] # "none"
          <5>1. PICK e \in Seq(Turbine) : e = events[t]
            OBVIOUS
          <5>2. CASE k = Len(e) + 1
            BY <4>1, <4>3, <5>1, <5>2
          <5>3. CASE k # Len(e) + 1
            <6>1. k \in 1 .. Len(e)
              BY <4>1, <5>1, <5>3
            <6>2. e[k] \in Turbine /\ store[e[k]] # "none" /\ events'[t][k] = e[k]
              BY <4>1, <5>1, <6>1
            <6> QED
              BY <4>3, <6>2
          <5> QED
            BY <5>2, <5>3
        <4> QED
          BY <4>2, <4>4
      <3> QED
        BY <2>1, <3>1, <3>2
    <2>7. \A t \in Server, x \in Turbine :
            /\ store'[x] = t => bank'[t][x] # "none"
            /\ \A j \in Instances : x \in job'[t][j].todo \/ job'[t][j].put = x => bank'[t][x] # "none"
      <3>1. \A t \in Server, x \in Turbine : bank[t][x] # "none" => bank'[t][x] # "none"
        BY <2>3
      <3>2. \A t \in Server, x \in Turbine : store'[x] = t => bank[t][x] # "none"
        BY <2>4, <2>5
      <3>3. \A t \in Server, x \in Turbine, j \in Instances :
              x \in job'[t][j].todo \/ job'[t][j].put = x => bank[t][x] # "none"
        <4> SUFFICES ASSUME NEW t \in Server, NEW x \in Turbine, NEW j \in Instances,
                            x \in job'[t][j].todo \/ job'[t][j].put = x
                     PROVE  bank[t][x] # "none"
          OBVIOUS
        <4>1. x \in job[t][j].todo \/ job[t][j].put = x
          BY <2>2
        <4> QED
          BY <4>1
      <3> QED
        BY <3>1, <3>2, <3>3
    <2> QED
      BY <1>0, <2>1, <2>2, <2>6, <2>7
  <1>6. ASSUME NEW s \in Server, Utm!EtcdCallback(s) PROVE StoreInv'
    <2>1. PICK w \in Turbine : w = Head(events[s]) /\ store[w] # "none"
      <3>1. events[s] \in Seq(Turbine) /\ events[s] # <<>>
        BY <1>6 DEF Utm!EtcdCallback
      <3>2. Head(events[s]) = events[s][1] /\ 1 \in 1 .. Len(events[s]) /\ Head(events[s]) \in Turbine
        BY <3>1
      <3> QED
        BY <3>2
    <2>2. PICK v \in {store[w], bank[s][w]} :
            bank' = [bank EXCEPT ![s][w] = v] /\ UNCHANGED <<store, job>>
      BY <1>6, <2>1 DEF Utm!EtcdCallback
    <2>3. \A t \in Server, x \in Turbine : bank[t][x] # "none" => bank'[t][x] # "none"
      BY <1>a, <2>1, <2>2
    <2>4. listed' \in [Server -> [Turbine -> Server \cup {"none"}]]
      <3>1. PICK l \in {store[w], listed[s][w]} : listed' = [listed EXCEPT ![s][w] = l]
        BY <1>6, <2>1 DEF Utm!EtcdCallback
      <3>2. l \in Server \cup {"none"}
        BY <1>a, <3>1
      <3> QED
        BY <3>1, <3>2
    <2>5. /\ events' \in [Server -> Seq(Turbine)]
          /\ \A t \in Server : \A k \in 1 .. Len(events'[t]) : store'[events'[t][k]] # "none"
      <3>1. events' = [events EXCEPT ![s] = Tail(events[s])] /\ events[s] # <<>> /\ events[s] \in Seq(Turbine)
        BY <1>6 DEF Utm!EtcdCallback
      <3>2. PICK e \in Seq(Turbine) : e = events[s] /\ e # <<>>
        BY <3>1
      <3>3. /\ Tail(e) \in Seq(Turbine) /\ Len(Tail(e)) = Len(e) - 1
            /\ \A k \in 1 .. Len(Tail(e)) : Tail(e)[k] = e[k + 1] /\ k + 1 \in 1 .. Len(e)
        BY <3>2
      <3>4. \A t \in Server : events'[t] = IF t = s THEN Tail(e) ELSE events[t]
        BY <3>1, <3>2
      <3>5. events' \in [Server -> Seq(Turbine)]
        BY <3>1, <3>2, <3>3
      <3>6. \A k \in 1 .. Len(Tail(e)) : store[Tail(e)[k]] # "none"
        BY <3>2, <3>3
      <3>7. ASSUME NEW t \in Server, NEW k \in 1 .. Len(events'[t]) PROVE store[events'[t][k]] # "none"
        <4>1. CASE t = s
          BY <3>4, <3>6, <4>1
        <4>2. CASE t # s
          BY <3>4, <4>2
        <4> QED
          BY <4>1, <4>2
      <3> QED
        BY <2>2, <3>5, <3>7
    <2> QED
      BY <1>0, <2>2, <2>3, <2>4, <2>5
  <1>7. CASE UNCHANGED utmVars
    BY <1>0, <1>7 DEF utmVars
  <1> QED
    BY <1>1, <1>2, <1>3, <1>4, <1>5, <1>6, <1>7 DEF Utm!Next, Utm!WriteJob

\* What a step does to one server's records of one turbine decides which step of
\* the abstract store it is.
LEMMA IsClaim ==
  ASSUME NEW s \in Server, NEW w \in Turbine, Touches(s, w), Claiming(s, w)',
         bank'[s][w] = bank[s][w], store' = store, listed' = listed
  PROVE  Utm!Abstract!Claim(s, w)
  BY Touched DEF Utm!Abstract!Claim

LEMMA IsReopen ==
  ASSUME NEW s \in Server, NEW w \in Turbine, Touches(s, w), Claiming(s, w), Claiming(s, w)',
         bank'[s][w] \notin Server, store' = store, listed' = listed
  PROVE  Utm!Abstract!Reopen(s, w)
  <1>1. s \in Utm!Claims[w]
    BY ClaimsAre
  <1> QED
    BY <1>1, Touched DEF Utm!Abstract!Reopen

LEMMA IsWrite ==
  ASSUME NEW s \in Server, NEW w \in Turbine, Touches(s, w), Claiming(s, w),
         bank'[s][w] = bank[s][w] \/ bank'[s][w] \notin Server,
         store' = [store EXCEPT ![w] = s], listed' = listed
  PROVE  Utm!Abstract!Write(s, w)
  <1>1. s \in Utm!Claims[w]
    BY ClaimsAre
  <1>2. Utm!Claims' = Utm!Claims \/ Utm!Claims' = [Utm!Claims EXCEPT ![w] = @ \ {s}]
    BY Touched
  <1>3. Utm!Marked' = Utm!Marked \/ Utm!Marked' = [Utm!Marked EXCEPT ![s] = @ \ {w}]
    BY Touched
  <1> QED
    BY <1>1, <1>2, <1>3 DEF Utm!Abstract!Write, Utm!Abstract!MayGiveUp

LEMMA IsLearn ==
  ASSUME NEW s \in Server, NEW w \in Turbine, Touches(s, w), store[w] # Utm!None,
         Claiming(s, w)' => Claiming(s, w),
         bank'[s][w] = bank[s][w] \/ bank'[s][w] \in Server,
         store' = store,
         listed' = listed \/ (listed[s][w] = Utm!None /\ listed' = [listed EXCEPT ![s][w] = store[w]])
  PROVE  Utm!Abstract!Learn(s, w)
  <1>1. Utm!Claims' = Utm!Claims \/ Utm!Claims' = [Utm!Claims EXCEPT ![w] = @ \ {s}]
    BY Touched
  <1>2. Utm!Marked' = Utm!Marked \/ Utm!Marked' = [Utm!Marked EXCEPT ![s] = @ \cup {w}]
    BY Touched
  <1> QED
    BY <1>1, <1>2 DEF Utm!Abstract!Learn, Utm!Abstract!MayGiveUp

LEMMA IsStutter ==
  ASSUME NEW s \in Server, NEW w \in Turbine, Touches(s, w), Claiming(s, w)' <=> Claiming(s, w),
         bank'[s][w] = bank[s][w], store' = store, listed' = listed
  PROVE  UNCHANGED Utm!Abstract!vars
  BY Touched DEF Utm!Abstract!vars

Implemented == Utm!Abstract!Next \/ UNCHANGED Utm!Abstract!vars

LEMMA StoreRefines == StoreInv /\ [Utm!Next]_utmVars => Implemented
  <1> SUFFICES ASSUME StoreInv, [Utm!Next]_utmVars PROVE Implemented
    OBVIOUS
  <1> USE UtmAssumption DEF Utm!None, Utm!Pending
  <1>a. /\ bank \in [Server -> [Turbine -> Status]] /\ store \in [Turbine -> Server \cup {"none"}]
        /\ uavFound \in [Server -> Turbine \cup {"none"}]
        /\ job \in [Server -> [Instances -> Todo]]
    BY DEF StoreInv, UtmInv
  <1>b. \A s \in Server, w \in Turbine : bank[s][w] \in Server => store[w] # "none"
    BY DEF StoreInv, UtmInv, SyncedIsStored, Utm!SyncedIsStored
  <1>c. ASSUME NEW s \in Server, NEW w \in Turbine,
               Utm!Abstract!Claim(s, w) \/ Utm!Abstract!Reopen(s, w)
                 \/ Utm!Abstract!Write(s, w) \/ Utm!Abstract!Learn(s, w)
        PROVE  Implemented
    BY <1>c DEF Implemented, Utm!Abstract!Next
  <1>1. ASSUME uavFound' = uavFound, bank' = bank, job' = job, store' = store, listed' = listed
        PROVE  Implemented
    BY <1>1 DEF Implemented, Utm!Abstract!vars, Utm!Claims, Utm!Marked
  <1>2. ASSUME NEW s \in Server, Utm!CompareDistances(s) PROVE Implemented
    <2>1. PICK w \in Turbine : w = position[s]
      BY <1>2 DEF Utm!CompareDistances
    <2>2. /\ uavFound' = [uavFound EXCEPT ![s] = w] /\ uavFound[s] = "none"
          /\ UNCHANGED <<bank, job, listed, store>>
      BY <1>2, <2>1 DEF Utm!CompareDistances
    <2>3. Touches(s, w) /\ Claiming(s, w)'
      BY <1>a, <2>2 DEF Touches, Claiming
    <2> QED
      BY <1>c, <2>2, <2>3, IsClaim
  <1>3. ASSUME NEW s \in Server, Utm!RecordFound(s) PROVE Implemented
    <2>1. PICK w \in Turbine : w = uavFound[s]
      BY <1>3, <1>a DEF Utm!RecordFound
    <2>2. /\ uavFound' = [uavFound EXCEPT ![s] = "none"] /\ bank' = [bank EXCEPT ![s][w] = "pending"]
          /\ UNCHANGED <<job, listed, store>>
      BY <1>3, <2>1 DEF Utm!RecordFound
    <2>3. \A t \in Server, x \in Turbine : bank'[t][x] = IF t = s /\ x = w THEN "pending" ELSE bank[t][x]
      BY <1>a, <2>2
    <2>4. \A t \in Server : uavFound'[t] = IF t = s THEN "none" ELSE uavFound[t]
      BY <1>a, <2>2
    <2>5. Touches(s, w)
      BY <2>1, <2>2, <2>3, <2>4 DEF Touches, Claiming
    <2>6. Claiming(s, w) /\ Claiming(s, w)'
      BY <2>1, <2>3 DEF Claiming
    <2> QED
      BY <1>c, <2>2, <2>3, <2>5, <2>6, IsReopen
  <1>4. ASSUME NEW s \in Server, NEW i \in Instances, Utm!CollectUnsynced(s, i) PROVE Implemented
    <2>1. PICK u \in SUBSET Turbine :
            /\ job' = [job EXCEPT ![s][i].todo = u] /\ \A w \in u : bank[s][w] = "pending" /\ u # {}
            /\ job[s][i] = Utm!Idle
            /\ UNCHANGED <<uavFound, bank, listed, store>>
      BY <1>4 DEF Utm!CollectUnsynced
    <2>2. \A t \in Server, j \in Instances :
            /\ job'[t][j].put = job[t][j].put
            /\ job'[t][j].todo = IF t = s /\ j = i THEN u ELSE job[t][j].todo
      BY <1>a, <2>1 DEF Todo
    <2>3. job[s][i].todo = {}
      BY <2>1 DEF Utm!Idle
    <2>4. \A t \in Server, x \in Turbine : Claiming(t, x)' <=> Claiming(t, x)
      BY <2>1, <2>2, <2>3 DEF Claiming
    <2>5. PICK w \in Turbine : TRUE
      BY <1>4 DEF Utm!CollectUnsynced
    <2>6. Touches(s, w)
      BY <2>1, <2>4 DEF Touches
    <2> QED
      BY <2>1, <2>4, <2>6, IsStutter DEF Implemented
  <1>5. ASSUME NEW s \in Server, NEW i \in Instances, NEW w \in Turbine, Utm!Ask(s, i, w)
        PROVE  Implemented
    <2>1. PICK v \in {w, "none"} :
            /\ job' = [job EXCEPT ![s][i] = [todo |-> job[s][i].todo \ {w}, put |-> v]]
            /\ v = IF reach[s] /\ store[w] = "none" THEN w ELSE "none"
            /\ w \in job[s][i].todo /\ job[s][i].put = "none" /\ UNCHANGED <<uavFound, listed, store>>
      BY <1>5 DEF Utm!Ask
    <2>2. \A t \in Server, j \in Instances :
            /\ job'[t][j].put = IF t = s /\ j = i THEN v ELSE job[t][j].put
            /\ job'[t][j].todo = IF t = s /\ j = i THEN job[s][i].todo \ {w} ELSE job[t][j].todo
      BY <1>a, <2>1
    <2>3. \A t \in Server, x \in Turbine :
            bank'[t][x] = IF t = s /\ x = w /\ reach[s] /\ store[w] # "none" THEN s ELSE bank[t][x]
      BY <1>5, <1>a DEF Utm!Ask
    <2>4. Touches(s, w)
      <3>1. ASSUME NEW t \in Server, NEW x \in Turbine, t # s \/ x # w
            PROVE  Claiming(t, x)' <=> Claiming(t, x)
        <4>1. \A j \in Instances : /\ x \in job'[t][j].todo <=> x \in job[t][j].todo
                                   /\ job'[t][j].put = x <=> job[t][j].put = x
          BY <2>1, <2>2, <3>1
        <4>2. bank'[t][x] = bank[t][x]
          BY <2>3, <3>1
        <4> QED
          BY <2>1, <4>1, <4>2 DEF Claiming
      <3> QED
        BY <2>3, <3>1 DEF Touches
    <2>5. Claiming(s, w)
      BY <2>1 DEF Claiming
    <2>6. CASE reach[s] /\ store[w] # "none"
      <3>1. bank'[s][w] = s
        BY <2>3, <2>6
      <3> QED
        BY <1>c, <2>1, <2>4, <2>5, <2>6, <3>1, IsLearn
    <2>7. CASE reach[s] /\ store[w] = "none"
      <3>1. bank'[s][w] = bank[s][w]
        BY <2>3, <2>7
      <3>2. Claiming(s, w)'
        BY <2>1, <2>2, <2>7 DEF Claiming
      <3> QED
        BY <2>1, <2>4, <2>5, <3>1, <3>2, IsStutter DEF Implemented
    <2>8. CASE ~reach[s]
      <3>1. bank'[s][w] = bank[s][w]
        BY <2>3, <2>8
      <3>2. CASE Claiming(s, w)'
        BY <2>1, <2>4, <2>5, <3>1, <3>2, IsStutter DEF Implemented
      <3>3. CASE ~Claiming(s, w)'
        <4>1. bank[s][w] \in Status /\ bank[s][w] # "pending" /\ bank[s][w] # "none"
          BY <1>a, <2>1, <3>1, <3>3 DEF Claiming, StoreInv
        <4>2. store[w] # "none"
          BY <1>b, <4>1 DEF Status
        <4> QED
          BY <1>c, <2>1, <2>4, <2>5, <3>1, <3>3, <4>2, IsLearn
      <3> QED
        BY <3>2, <3>3
    <2> QED
      BY <2>6, <2>7, <2>8
  <1>6. ASSUME NEW s \in Server, NEW i \in Instances, Utm!Put(s, i) PROVE Implemented
    <2>0. PICK w \in Turbine : w = job[s][i].put
      BY <1>6, <1>a DEF Utm!Put, Todo
    <2>1. PICK v \in {"pending", bank[s][w]} :
            /\ job' = [job EXCEPT ![s][i].put = "none"] /\ UNCHANGED <<uavFound, listed>>
            /\ store' = [store EXCEPT ![w] = s] \/ (store' = store /\ v = "pending")
            /\ bank' = [bank EXCEPT ![s][w] = v]
      BY <1>6, <2>0 DEF Utm!Put
    <2>2. \A t \in Server, j \in Instances :
            /\ job'[t][j].put = IF t = s /\ j = i THEN "none" ELSE job[t][j].put
            /\ job'[t][j].todo = job[t][j].todo
      <3>1. PICK c : c = job[s][i] /\ c \in Todo
        BY <1>a
      <3>2. PICK d : d = [c EXCEPT !.put = "none"]
        OBVIOUS
      <3>3. d.put = "none" /\ d.todo = c.todo
        BY <3>1, <3>2 DEF Todo
      <3>4. job' = [job EXCEPT ![s] = [job[s] EXCEPT ![i] = d]]
        BY <2>1, <3>1, <3>2
      <3>5. \A t \in Server, j \in Instances : job'[t][j] = IF t = s /\ j = i THEN d ELSE job[t][j]
        BY <1>a, <3>4
      <3> QED
        BY <3>1, <3>3, <3>5
    <2>3. \A t \in Server, x \in Turbine : bank'[t][x] = IF t = s /\ x = w THEN v ELSE bank[t][x]
      BY <1>a, <2>1
    <2>4. Touches(s, w)
      <3>1. ASSUME NEW t \in Server, NEW x \in Turbine, t # s \/ x # w
            PROVE  Claiming(t, x)' <=> Claiming(t, x)
        <4>1. \A j \in Instances : /\ x \in job'[t][j].todo <=> x \in job[t][j].todo
                                   /\ job'[t][j].put = x <=> job[t][j].put = x
          BY <2>0, <2>2, <3>1
        <4>2. bank'[t][x] = bank[t][x]
          BY <2>3, <3>1
        <4> QED
          BY <2>1, <4>1, <4>2 DEF Claiming
      <3> QED
        BY <2>3, <3>1 DEF Touches
    <2>5. Claiming(s, w)
      BY <2>0 DEF Claiming
    <2>6. CASE store' = [store EXCEPT ![w] = s]
      <3>1. bank'[s][w] = bank[s][w] \/ bank'[s][w] \notin Server
        BY <2>1, <2>3
      <3> QED
        BY <1>c, <2>1, <2>4, <2>5, <2>6, <3>1, IsWrite
    <2>7. CASE store' = store /\ v = "pending"
      <3>1. bank'[s][w] = "pending" /\ Claiming(s, w)'
        BY <2>3, <2>7 DEF Claiming
      <3> QED
        BY <1>c, <2>1, <2>4, <2>5, <2>7, <3>1, IsReopen
    <2> QED
      BY <2>1, <2>6, <2>7
  <1>7. ASSUME NEW s \in Server, Utm!EtcdCallback(s) PROVE Implemented
    <2>1. PICK w \in Turbine : w = Head(events[s]) /\ store[w] # "none"
      <3>1. events[s] \in Seq(Turbine) /\ events[s] # <<>>
        BY <1>7 DEF Utm!EtcdCallback, StoreInv
      <3>2. Head(events[s]) = events[s][1] /\ 1 \in 1 .. Len(events[s]) /\ Head(events[s]) \in Turbine
        BY <3>1
      <3> QED
        BY <3>2 DEF StoreInv
    <2>2. PICK v : /\ v = bank[s][w] \/ (v = store[w] /\ bank[s][w] \in {"none", "pending"})
                   /\ bank' = [bank EXCEPT ![s][w] = v] /\ UNCHANGED <<uavFound, store, job>>
      BY <1>7, <2>1 DEF Utm!EtcdCallback
    <2>3. \A t \in Server, x \in Turbine : bank'[t][x] = IF t = s /\ x = w THEN v ELSE bank[t][x]
      BY <1>a, <2>2
    <2>4. Touches(s, w)
      BY <2>2, <2>3 DEF Touches, Claiming
    <2>5. Claiming(s, w)' => Claiming(s, w)
      <3>1. v \in {"pending", s} => bank[s][w] \in {"pending", s}
        <4>1. store[w] # "pending" /\ (store[w] = s => bank[s][w] # "none")
          BY <1>a, <2>1 DEF StoreInv
        <4> QED
          BY <2>2, <4>1
      <3> QED
        BY <2>2, <2>3, <3>1 DEF Claiming
    <2>6. bank'[s][w] = bank[s][w] \/ bank'[s][w] \in Server
      BY <1>a, <2>1, <2>2, <2>3
    <2>7. listed' = listed \/ (listed[s][w] = "none" /\ listed' = [listed EXCEPT ![s][w] = store[w]])
      BY <1>7, <2>1 DEF Utm!EtcdCallback, StoreInv
    <2> QED
      BY <1>c, <2>1, <2>2, <2>4, <2>5, <2>6, <2>7, IsLearn
  <1>8. ASSUME NEW s \in Server,
               Utm!UavPositionUpdate(s) \/ Utm!SaveToFile(s) \/ Utm!LoseEtcd(s) \/ Utm!RegainEtcd(s)
        PROVE  Implemented
    BY <1>1, <1>8 DEF Utm!UavPositionUpdate, Utm!SaveToFile, Utm!LoseEtcd, Utm!RegainEtcd
  <1>9. CASE UNCHANGED utmVars
    BY <1>1, <1>9 DEF utmVars
  <1> QED
    BY <1>2, <1>3, <1>4, <1>5, <1>6, <1>7, <1>8, <1>9 DEF Utm!Next, Utm!WriteJob

\* A server holds its inspection until etcd has a record of the turbine, etcd names
\* only servers that were there, and what is marked or reported is in etcd.
THEOREM StoreImplemented == Spec => ImplementsInspections
  <1>1. Init => Utm!Abstract!Init
    BY UtmAssumption DEF Init, Utm!Init, Utm!Abstract!Init, Utm!Claims, Utm!Marked, Utm!None, Utm!Pending, Utm!Idle
  <1>2. StoreInv /\ [Utm!Next]_utmVars => [Utm!Abstract!Next]_(Utm!Abstract!vars)
    BY StoreRefines DEF Implemented
  <1> QED
    BY <1>1, <1>2, StoreInit, UtmStep, StoreKeeps, PTL
       DEF Spec, ImplementsInspections, Utm!ImplementsInspections, Utm!Abstract!Spec

\* A turbine that was inspected, as a claim or a record in etcd says.
Inspected(w) == Utm!Claims[w] # {} \/ store[w] # "none"

\* No inspection is lost: a claim is given up to a record only, and etcd keeps it,
\* through failed puts, overwritten entries of data_bank and sessions that end.
THEOREM InspectionsKept == Spec => [][\A w \in Turbine : Inspected(w) => Inspected(w)']_utmVars
  <1>1. StoreInv /\ [Utm!Next]_utmVars => [\A w \in Turbine : Inspected(w) => Inspected(w)']_utmVars
    <2> SUFFICES ASSUME StoreInv, [Utm!Next]_utmVars, NEW w \in Turbine, Inspected(w)
                 PROVE  Inspected(w)'
      OBVIOUS
    <2> USE UtmAssumption DEF Inspected, Utm!None
    <2>1. PICK c \in [Turbine -> SUBSET Server], st \in [Turbine -> Server \cup {"none"}] :
            c = Utm!Claims /\ st = store
      BY ClaimsAre DEF StoreInv, UtmInv
    <2>2. PICK d \in [Turbine -> SUBSET Server] : d = Utm!Claims'
      BY ClaimsAreNext
    <2>3. CASE Utm!Abstract!Next
      <3>1. PICK s \in Server, x \in Turbine :
              Utm!Abstract!Claim(s, x) \/ Utm!Abstract!Reopen(s, x)
                \/ Utm!Abstract!Write(s, x) \/ Utm!Abstract!Learn(s, x)
        BY <2>3 DEF Utm!Abstract!Next
      <3>2. CASE Utm!Abstract!Claim(s, x) \/ Utm!Abstract!Reopen(s, x)
        <4>1. /\ store' = store
              /\ d = [c EXCEPT ![x] = c[x] \cup {s}] \/ d = c
          BY <2>1, <2>2, <3>2 DEF Utm!Abstract!Claim, Utm!Abstract!Reopen
        <4> QED
          BY <2>1, <2>2, <4>1
      <3>3. CASE Utm!Abstract!Write(s, x) \/ Utm!Abstract!Learn(s, x)
        <4>1. /\ d = c \/ d = [c EXCEPT ![x] = c[x] \ {s}]
              /\ store' = [st EXCEPT ![x] = s] \/ (store' = st /\ st[x] # "none")
          BY <2>1, <2>2, <3>3 DEF Utm!Abstract!Write, Utm!Abstract!Learn, Utm!Abstract!MayGiveUp
        <4> QED
          BY <2>1, <2>2, <4>1
      <3> QED
        BY <3>1, <3>2, <3>3
    <2>4. CASE UNCHANGED Utm!Abstract!vars
      BY <2>4 DEF Utm!Abstract!vars
    <2> QED
      BY <2>3, <2>4, StoreRefines DEF Implemented
  <1> QED
    BY <1>1, StoreInit, UtmStep, StoreKeeps, PTL DEF Spec

-----------------------------------------------------------------------------
(* Transport.                                                              *)

\* From the end of stop()'s "bye" on, a thread that waits in accept() or
\* recvfrom() finds something that wakes it: the bye, or what filled the buffer
\* before it.  A thread in recv() has a connection to receive from.
SocketsInv ==
  /\ queue \in Seq([from : Client \cup {"self"}, data : Sockets!Data])
  /\ socketRuns \in BOOLEAN /\ (socketRuns <=> stopping = "no")
  /\ stopping \in {"no", "bye", "close", "stopped"}
  /\ thread = "recv" => class = "interface" /\ connections # {}
  /\ stopping \in {"close", "stopped"} => thread \in {"ended", "recv"} \/ queue # <<>>

LEMMA SocketsStep == [Next]_vars => [Sockets!Next]_socketsVars
  BY DEF Next, Others, vars

LEMMA SocketsInit == Init => SocketsInv
  BY DEF Init, Sockets!Init, SocketsInv

LEMMA SocketsKeep == SocketsInv /\ [Sockets!Next]_socketsVars => SocketsInv'
  <1> DEFINE Msg == [from : Client \cup {"self"}, data : Sockets!Data]
  <1> SUFFICES ASSUME SocketsInv, [Sockets!Next]_socketsVars PROVE SocketsInv'
    OBVIOUS
  <1> USE DEF SocketsInv
  <1>0. PICK q \in Seq(Msg) : q = queue
    OBVIOUS
  <1>a. \A c \in Client \cup {"self"}, d \in Sockets!Data :
          Sockets!Arrives(c, d) => queue' \in Seq(Msg) /\ queue' # <<>>
    <2> SUFFICES ASSUME NEW c \in Client \cup {"self"}, NEW d \in Sockets!Data,
                        Sockets!Arrives(c, d)
                 PROVE  queue' \in Seq(Msg) /\ queue' # <<>>
      OBVIOUS
    <2>1. PICK m \in Msg : m = [from |-> c, data |-> d]
      OBVIOUS
    <2>2. queue' = Append(q, m)
      BY <1>0, <2>1 DEF Sockets!Arrives
    <2> HIDE DEF Msg
    <2>3. Append(q, m) \in Seq(Msg) /\ Len(Append(q, m)) = Len(q) + 1
      BY <2>1
    <2> QED
      BY <2>2, <2>3
  <1>1. ASSUME NEW c \in Client,
               Sockets!SendPersistent(c) \/ Sockets!GiveUp(c) \/ Sockets!SendInterface(c) \/ Sockets!SendUdp(c)
        PROVE  SocketsInv'
    <2>1. /\ UNCHANGED <<class, socketRuns, thread, stopping, connections>>
          /\ queue' = queue \/ \E d \in Sockets!Data : Sockets!Arrives(c, d)
      BY <1>1 DEF Sockets!SendPersistent, Sockets!GiveUp, Sockets!SendInterface, Sockets!SendUdp,
        Sockets!Data, Sockets!Received
    <2> QED
      BY <1>a, <2>1
  <1>b. queue # <<>> /\ queue' = Tail(queue) => queue' \in Seq(Msg)
    <2> HIDE DEF Msg
    <2>1. q # <<>> => Tail(q) \in Seq(Msg)
      OBVIOUS
    <2> QED
      BY <1>0, <2>1
  <1>c. ~socketRuns => Sockets!Looped = "ended"
    BY DEF Sockets!Looped
  <1>d. Sockets!Looped # "recv"
    BY DEF Sockets!Looped
  <1>2. ASSUME Sockets!Serve PROVE SocketsInv'
    <2>1. CASE Sockets!Accept
      <3>1. /\ queue # <<>> /\ queue' = Tail(queue) /\ UNCHANGED <<class, socketRuns, stopping>>
            /\ connections' # {}
            /\ thread' = IF class = "interface" THEN "recv" ELSE Sockets!Looped
        BY <2>1 DEF Sockets!Accept
      <3> QED
        BY <1>b, <1>c, <1>d, <3>1
    <2>2. CASE Sockets!ReceiveDatagram
      <3>1. /\ queue # <<>> /\ queue' = Tail(queue) /\ UNCHANGED <<class, socketRuns, stopping>>
            /\ thread' = Sockets!Looped
        BY <2>2 DEF Sockets!ReceiveDatagram
      <3> QED
        BY <1>b, <1>c, <1>d, <3>1
    <2>3. ASSUME NEW m \in connections, Sockets!ServeConnection(m) PROVE SocketsInv'
      <3>1. /\ UNCHANGED <<class, socketRuns, stopping, queue>>
            /\ thread' \in {Sockets!Looped, "ended"}
        BY <2>3 DEF Sockets!ServeConnection
      <3> QED
        BY <1>c, <1>d, <3>1
    <2> QED
      BY <1>2, <2>1, <2>2, <2>3 DEF Sockets!Serve
  <1>3. ASSUME NEW m \in connections, Sockets!ConnectionThread(m) \/ Sockets!Speak(m) PROVE SocketsInv'
    <2>1. /\ UNCHANGED <<class, socketRuns, stopping, queue, thread>>
          /\ class = "persistent" \/ connections' # {}
      BY <1>3 DEF Sockets!ConnectionThread, Sockets!Speak, Sockets!Received
    <2> QED
      BY <2>1
  <1>4. ASSUME Sockets!Stop PROVE SocketsInv'
    BY <1>4 DEF Sockets!Stop
  <1>5. ASSUME Sockets!Bye PROVE SocketsInv'
    <2>1. /\ UNCHANGED <<class, connections, socketRuns, thread>> /\ stopping = "bye" /\ stopping' = "close"
          /\ Sockets!Arrives("self", "whole") \/ (queue' = queue /\ ~(Len(queue) < Buffer))
      BY <1>5 DEF Sockets!Bye, Sockets!Self
    <2>2. CASE Sockets!Arrives("self", "whole")
      BY <1>a, <2>1, <2>2 DEF Sockets!Data, Sockets!Received
    <2>3. CASE queue' = queue /\ ~(Len(queue) < Buffer)
      <3>1. queue # <<>>
        BY <2>3, BufferAssumption
      <3> QED
        BY <2>1, <2>3, <3>1
    <2> QED
      BY <2>1, <2>2, <2>3
  <1>6. ASSUME Sockets!Close PROVE SocketsInv'
    BY <1>6 DEF Sockets!Close
  <1>7. CASE UNCHANGED socketsVars
    BY <1>7 DEF socketsVars
  <1> QED
    BY <1>1, <1>2, <1>3, <1>4, <1>5, <1>6, <1>7 DEF Sockets!Next

\* A stop is not lost: whatever connections, datagrams and a full buffer come
\* before the "bye", a server's thread is not left in accept() or recvfrom() with
\* nothing to take up.  It may still be receiving from a connection it accepted.
THEOREM StopWakesThread == Spec => []NeverStranded
  <1>1. SocketsInv => NeverStranded
    BY DEF SocketsInv, NeverStranded, Sockets!NeverStranded
  <1> QED
    BY <1>1, SocketsInit, SocketsStep, SocketsKeep, PTL DEF Spec

-----------------------------------------------------------------------------
(* Traffic.                                                                *)

\* A job that may still be fired, or has been, has not sent everything; one that
\* is about to be removed has.
JobInv(j) ==
  /\ sent[j] <= Count
  /\ status[j] = "none" => sent[j] = 0 /\ sender[j] = "idle"
  /\ status[j] = "FINISHED" => sent[j] = Count
  /\ sender[j] = "remove" => sent[j] = Count
  /\ sender[j] \in {"fired", "send"} \/ (sender[j] = "idle" /\ j \in scheduled) => sent[j] < Count

TrafficInv ==
  /\ sent \in [Job -> Nat]
  /\ status \in [Job -> {"none", "IDLE", "RUNNING", "FINISHED", "CANCELLED"}]
  /\ sender \in [Job -> {"idle", "fired", "send", "remove"}]
  /\ scheduled \subseteq {j \in Job : status[j] # "none"}
  /\ \A j \in Job : JobInv(j)

LEMMA TrafficStep == [Next]_vars => [Generator!Next]_trafficVars
  BY DEF Next, Others, vars

LEMMA TrafficInit == Init => TrafficInv
  BY TrafficAssumption DEF Init, Generator!Init, TrafficInv, JobInv

LEMMA TrafficKeeps == TrafficInv /\ [Generator!Next]_trafficVars => TrafficInv'
  <1> SUFFICES ASSUME TrafficInv, [Generator!Next]_trafficVars PROVE TrafficInv'
    OBVIOUS
  <1> USE TrafficAssumption DEF TrafficInv, JobInv
  <1>1. ASSUME NEW j \in Job, Generator!AddJob(j) PROVE TrafficInv'
    BY <1>1 DEF Generator!AddJob
  <1>2. ASSUME NEW j \in Job, Generator!Fire(j) PROVE TrafficInv'
    BY <1>2 DEF Generator!Fire
  <1>3. ASSUME NEW j \in Job, Generator!Run(j) PROVE TrafficInv'
    BY <1>3 DEF Generator!Run
  <1>4. ASSUME NEW j \in Job, Generator!UdpSender(j) PROVE TrafficInv'
    BY <1>4 DEF Generator!UdpSender
  <1>5. ASSUME NEW j \in Job, Generator!TcpSender(j) PROVE TrafficInv'
    BY <1>5 DEF Generator!TcpSender
  <1>6. ASSUME NEW j \in Job, Generator!RemoveJob(j) PROVE TrafficInv'
    BY <1>6 DEF Generator!RemoveJob
  <1>7. ASSUME NEW j \in Job, Generator!CancelJob(j) PROVE TrafficInv'
    BY <1>7 DEF Generator!CancelJob
  <1>8. ASSUME NEW j \in Job, Generator!MarkCancelled(j) PROVE TrafficInv'
    BY <1>8 DEF Generator!MarkCancelled
  <1>9. ASSUME Generator!UdpListener \/ Generator!TcpLength \/ Generator!TcpData PROVE TrafficInv'
    BY <1>9 DEF Generator!UdpListener, Generator!TcpLength, Generator!TcpData
  <1>10. ASSUME Generator!Shutdown PROVE TrafficInv'
    BY <1>10 DEF Generator!Shutdown
  <1>11. CASE UNCHANGED trafficVars
    BY <1>11 DEF trafficVars
  <1>12. QED
    BY <1>1, <1>2, <1>3, <1>4, <1>5, <1>6, <1>7, <1>8, <1>9, <1>10, <1>11 DEF Generator!Next

\* A job never sends more than it was asked to, and is FINISHED only when it has
\* sent all: the scheduler cannot fire it between its last packet and its removal.
THEOREM JobsCount == Spec => []JobCounts
  <1>1. TrafficInv => JobCounts
    BY DEF TrafficInv, JobInv, JobCounts, Generator!JobCounts
  <1>2. QED
    BY <1>1, TrafficInit, TrafficStep, TrafficKeeps, PTL DEF Spec

-----------------------------------------------------------------------------
(* Emulation.                                                              *)

\* A scenario's shutdown goes through its parts in this order; what it has passed.
Passed(s) ==
  (IF shut[s] \in {"stop", "gps", "tracer", "done"} THEN {"mobility"} ELSE {})
    \cup (IF shut[s] \in {"gps", "tracer", "done"} THEN {"time"} ELSE {})
    \cup (IF shut[s] \in {"tracer", "done"} THEN {"gps"} ELSE {})
    \cup (IF shut[s] = "done" THEN {"tracer"} ELSE {})

MaceInv ==
  /\ created \in 0 .. Loads /\ scenario \in 0 .. created
  /\ live \in [1 .. Loads -> SUBSET Mace!Part] /\ orphan \in [1 .. Loads -> BOOLEAN]
  /\ shut \in [1 .. Loads -> {"no", "mobility", "stop", "gps", "tracer", "done"}]

\* The loop of a scenario's emulation was entered before anybody stopped it.
Entered(s) == run = "watch" /\ scenario = s /\ shut[s] = "no" /\ ~orphan[s]

\* From then on nothing of it is started, and what its shutdown has passed is down.
Settled(s) ==
  /\ MaceInv /\ s \in 1 .. created
  /\ scenario = s => run \in {"watch", "ending"} \/ (run = "idle" /\ ~serving)
  /\ ~orphan[s] /\ live[s] \cap Passed(s) = {}

LEMMA MaceStep == [Next]_vars => [Mace!Next]_emulationVars
  BY DEF Next, Others, vars

LEMMA MaceInit == Init => MaceInv
  BY LoadsAssumption DEF Init, Mace!Init, Mace!None, MaceInv

LEMMA MaceKeeps == MaceInv /\ [Mace!Next]_emulationVars => MaceInv'
  <1> SUFFICES ASSUME MaceInv, [Mace!Next]_emulationVars PROVE MaceInv'
    OBVIOUS
  <1> USE LoadsAssumption DEF MaceInv, Mace!Part
  <1>1. CASE Mace!Load
    BY <1>1 DEF Mace!Load
  <1>2. CASE Mace!Start \/ Mace!ShutdownDaemon \/ Mace!StartInterface \/ Mace!Watch \/ Mace!ServerThread
    BY <1>2 DEF Mace!Start, Mace!ShutdownDaemon, Mace!StartInterface, Mace!Watch, Mace!ServerThread,
                Mace!scenarioVars
  <1>3. CASE Mace!SetupCore
    BY <1>3 DEF Mace!SetupCore, Mace!SetupNodes
  <1>4. CASE Mace!ConfigureMobility
    <2>1. /\ UNCHANGED <<created, scenario, shut>>
          /\ \/ UNCHANGED <<live, orphan>>
             \/ /\ live' = [live EXCEPT ![scenario] = @ \cup {"mobility"}]
                /\ orphan' = [orphan EXCEPT ![scenario] = @ \/ "mobility" \in live[scenario]]
      BY <1>4 DEF Mace!ConfigureMobility, Mace!MobilityStarts
    <2>2. orphan' \in [1 .. Loads -> BOOLEAN]
      <3>1. PICK b \in BOOLEAN : UNCHANGED orphan \/ orphan' = [orphan EXCEPT ![scenario] = b]
        BY <2>1
      <3> QED
        BY <3>1
    <2> QED
      BY <2>1, <2>2
  <1>5. CASE Mace!StartApplications
    BY <1>5 DEF Mace!StartApplications
  <1>6. CASE Mace!EndByItself
    BY <1>6 DEF Mace!EndByItself, Mace!StopScenario
  <1>7. CASE Mace!EndInDaemon
    BY <1>7 DEF Mace!EndInDaemon, Mace!None, Mace!scenarioVars
  <1>8. CASE Mace!StopRequest
    BY <1>8 DEF Mace!StopRequest, Mace!StopScenario
  <1>9. ASSUME NEW x \in 1 .. Loads, Mace!CheckRuntime(x) PROVE MaceInv'
    BY <1>9 DEF Mace!CheckRuntime
  <1>10. ASSUME NEW x \in 1 .. Loads, Mace!RunShutdown(x) PROVE MaceInv'
    BY <1>10 DEF Mace!RunShutdown, Mace!ShutdownNodes, Mace!ShutdownMobility, Mace!StopNode,
                 Mace!ShutdownGps, Mace!ShutdownTracer, Mace!ShutPart
  <1>11. CASE UNCHANGED emulationVars
    BY <1>11 DEF emulationVars
  <1> QED
    BY <1>1, <1>2, <1>3, <1>4, <1>5, <1>6, <1>7, <1>8, <1>9, <1>10, <1>11 DEF Mace!Next, Mace!Run

LEMMA SettledKeeps ==
  ASSUME NEW s \in 1 .. Loads
  PROVE  Settled(s) /\ [Mace!Next]_emulationVars => Settled(s)'
  <1> SUFFICES ASSUME Settled(s), [Mace!Next]_emulationVars PROVE Settled(s)'
    OBVIOUS
  <1>0. MaceInv /\ MaceInv'
    BY MaceKeeps DEF Settled
  <1> USE LoadsAssumption DEF Settled
  <1>a. /\ s \in 1 .. created /\ scenario \in 0 .. created /\ created \in 0 .. Loads
        /\ live \in [1 .. Loads -> SUBSET Mace!Part] /\ orphan \in [1 .. Loads -> BOOLEAN]
        /\ shut \in [1 .. Loads -> {"no", "mobility", "stop", "gps", "tracer", "done"}]
    BY <1>0 DEF MaceInv
  <1>b. ASSUME UNCHANGED <<created, live, orphan>>,
               shut' = shut \/ \E x \in 0 .. Loads : shut' = [shut EXCEPT ![x] = IF @ = "no" THEN "mobility" ELSE @],
               scenario' = s => run' \in {"watch", "ending"} \/ (run' = "idle" /\ ~serving')
        PROVE  Settled(s)'
    <2>1. Passed(s)' = Passed(s)
      BY <1>a, <1>b DEF Passed
    <2> QED
      BY <1>0, <1>a, <1>b, <2>1
  <1>c. ASSUME scenario # s, UNCHANGED <<created, scenario, shut>>, live'[s] = live[s], orphan'[s] = orphan[s]
        PROVE  Settled(s)'
    BY <1>0, <1>a, <1>c DEF Passed
  <1>1. CASE Mace!Load
    <2>1. /\ created' = created + 1 /\ scenario' = created + 1 /\ UNCHANGED <<live, orphan, shut>>
      BY <1>1 DEF Mace!Load
    <2>2. s \in 1 .. created' /\ scenario' # s
      BY <1>a, <2>1
    <2> QED
      BY <1>0, <1>a, <2>1, <2>2 DEF Passed
  <1>2. CASE Mace!Start
    BY <1>c, <1>2 DEF Mace!Start, Mace!scenarioVars
  <1>3. CASE Mace!ShutdownDaemon \/ Mace!Watch \/ Mace!ServerThread
    BY <1>b, <1>3 DEF Mace!ShutdownDaemon, Mace!Watch, Mace!ServerThread, Mace!scenarioVars, Mace!runVars
  <1>4. CASE Mace!SetupCore
    BY <1>a, <1>c, <1>4 DEF Mace!SetupCore, Mace!SetupNodes
  <1>5. CASE Mace!ConfigureMobility
    BY <1>a, <1>c, <1>5 DEF Mace!ConfigureMobility, Mace!MobilityStarts
  <1>6. CASE Mace!StartInterface
    BY <1>c, <1>6 DEF Mace!StartInterface, Mace!scenarioVars
  <1>7. CASE Mace!StartApplications
    BY <1>a, <1>c, <1>7 DEF Mace!StartApplications
  <1>8. CASE Mace!EndByItself
    BY <1>a, <1>b, <1>8 DEF Mace!EndByItself, Mace!StopScenario
  <1>9. CASE Mace!EndInDaemon
    BY <1>a, <1>b, <1>9 DEF Mace!EndInDaemon, Mace!None, Mace!scenarioVars
  <1>10. CASE Mace!StopRequest
    BY <1>a, <1>b, <1>10 DEF Mace!StopRequest, Mace!StopScenario, Mace!runVars
  <1>11. ASSUME NEW x \in 1 .. Loads, Mace!CheckRuntime(x) PROVE Settled(s)'
    BY <1>a, <1>b, <1>11 DEF Mace!CheckRuntime, Mace!runVars
  <1>12. ASSUME NEW x \in 1 .. Loads, Mace!RunShutdown(x) PROVE Settled(s)'
    <2>1. PICK here, then, part :
            /\ <<here, then, part>> \in {<<"mobility", "stop", "mobility">>, <<"stop", "gps", "time">>,
                                         <<"gps", "tracer", "gps">>, <<"tracer", "done", "tracer">>}
            /\ shut[x] = here /\ shut' = [shut EXCEPT ![x] = then]
            /\ live' = [live EXCEPT ![x] = @ \ {part}]
      BY <1>12 DEF Mace!RunShutdown, Mace!ShutdownNodes, Mace!ShutdownMobility, Mace!StopNode,
                   Mace!ShutdownGps, Mace!ShutdownTracer, Mace!ShutPart
    <2>2. UNCHANGED <<created, scenario, run, serving, orphan>>
      BY <1>12 DEF Mace!RunShutdown, Mace!runVars
    <2>3. CASE x = s
      <3>1. live'[s] = live[s] \ {part} /\ Passed(s)' = Passed(s) \cup {part}
        BY <1>a, <2>1, <2>3 DEF Passed
      <3> QED
        BY <1>0, <2>2, <3>1
    <2>4. CASE x # s
      <3>1. live'[s] = live[s] /\ Passed(s)' = Passed(s)
        BY <1>a, <2>1, <2>4 DEF Passed
      <3> QED
        BY <1>0, <2>2, <3>1
    <2> QED
      BY <2>3, <2>4
  <1>13. CASE UNCHANGED emulationVars
    BY <1>b, <1>13 DEF emulationVars
  <1> QED
    BY <1>1, <1>2, <1>3, <1>4, <1>5, <1>6, <1>7, <1>8, <1>9, <1>10, <1>11, <1>12, <1>13 DEF Mace!Next, Mace!Run

\* When the nodes of a scenario have been shut down nothing of them is left running,
\* if their emulation came to its loop: LOADs, later RUNs, a second stop and the
\* shutdown's own steps do not bring back what it has passed.
THEOREM ShutdownWhole ==
  ASSUME NEW s \in 1 .. Loads
  PROVE  Spec => [](Entered(s) => [](shut[s] = "done" => live[s] = {} /\ ~orphan[s]))
  <1>1. MaceInv /\ Entered(s) => Settled(s)
    BY DEF MaceInv, Entered, Settled, Passed
  <1>2. Settled(s) => (shut[s] = "done" => live[s] = {} /\ ~orphan[s])
    BY DEF Settled, MaceInv, Passed, Mace!Part
  <1>3. Settled(s) /\ [Mace!Next]_emulationVars => Settled(s)'
    BY SettledKeeps
  <1> QED
    BY <1>1, <1>2, <1>3, MaceInit, MaceStep, MaceKeeps, PTL DEF Spec

-----------------------------------------------------------------------------
(* Startup.                                                                *)

LEMMA StartupStep == [Next]_vars => [Old!Next]_startupVars
  BY DEF Next, Others, vars

\* The nodes that wait to be told are those in the list, each once, and the loop's index is in the list although nodes leave it.
OnList(n) == \E i \in 1 .. Len(nodesToStart) : nodesToStart[i] = n

StartInv ==
  /\ state \in [Old!Node -> {"booting", "listening", "told", "running", "killed"}]
  /\ next \in Nat \ {0}
  /\ nodesToStart \in Seq(Old!Node)
  /\ \A i, j \in 1 .. Len(nodesToStart) : nodesToStart[i] = nodesToStart[j] => i = j
  /\ nodesToStart # <<>> => next \in 1 .. Len(nodesToStart)
  /\ runner # "exited" =>
       \A n \in Old!Node : OnList(n) <=> state[n] \in {"booting", "listening"}
  /\ runner = "waiting" => nodesToStart = <<>>

LEMMA StartInit == Init => StartInv
  <1> SUFFICES ASSUME Init PROVE StartInv
    OBVIOUS
  <1> USE OldAssumption
  <1>1. Old!Init
    BY DEF Init
  <1>2. nodesToStart = [i \in 1 .. OldNodes |-> i - 1]
    BY <1>1 DEF Old!Init
  <1>3. /\ nodesToStart \in Seq(Old!Node) /\ Len(nodesToStart) = OldNodes
        /\ \A i \in 1 .. OldNodes : nodesToStart[i] = i - 1
    BY <1>2 DEF Old!Node
  <1>4. \A n \in Old!Node : OnList(n)
    <2> SUFFICES ASSUME NEW n \in Old!Node PROVE OnList(n)
      OBVIOUS
    <2>1. n + 1 \in 1 .. OldNodes /\ (n + 1) - 1 = n
      BY DEF Old!Node
    <2> QED
      BY <1>3, <2>1 DEF OnList
  <1> QED
    BY <1>1, <1>3, <1>4 DEF StartInv, Old!Init

\* A list without its k-th element.
LEMMA Removed ==
  ASSUME NEW A, NEW s \in Seq(A), NEW k \in 1 .. Len(s), NEW r, r = Old!RemoveAt(s, k)
  PROVE  /\ r \in Seq(A) /\ Len(r) = Len(s) - 1
         /\ \A i \in 1 .. Len(s) - 1 : r[i] = IF i < k THEN s[i] ELSE s[i + 1]
  <1>1. PICK a : a = SubSeq(s, 1, k - 1)
    OBVIOUS
  <1>2. PICK b : b = SubSeq(s, k + 1, Len(s))
    OBVIOUS
  <1>3. a \in Seq(A) /\ Len(a) = k - 1 /\ \A i \in 1 .. k - 1 : a[i] = s[i]
    <2>1. 1 \in Int /\ k - 1 \in Int /\ \A i \in 1 .. k - 1 : s[i] \in A
      OBVIOUS
    <2>2. /\ a \in Seq(A) /\ Len(a) = IF 1 <= k - 1 THEN k - 1 - 1 + 1 ELSE 0
          /\ \A i \in 1 .. k - 1 - 1 + 1 : a[i] = s[1 + i - 1]
      BY <1>1, <2>1, SubSeqProperties
    <2> QED
      BY <2>2
  <1>4. b \in Seq(A) /\ Len(b) = Len(s) - k /\ \A i \in 1 .. Len(s) - k : b[i] = s[k + i]
    <2>1. k + 1 \in Int /\ Len(s) \in Int /\ \A i \in k + 1 .. Len(s) : s[i] \in A
      OBVIOUS
    <2>2. /\ b \in Seq(A) /\ Len(b) = IF k + 1 <= Len(s) THEN Len(s) - (k + 1) + 1 ELSE 0
          /\ \A i \in 1 .. Len(s) - (k + 1) + 1 : b[i] = s[(k + 1) + i - 1]
      BY <1>2, <2>1, SubSeqProperties
    <2>3. b \in Seq(A) /\ Len(b) = Len(s) - k
      BY <2>2
    <2>4. ASSUME NEW i \in 1 .. Len(s) - k PROVE b[i] = s[k + i]
      <3>1. i \in 1 .. Len(s) - (k + 1) + 1 /\ (k + 1) + i - 1 = k + i
        OBVIOUS
      <3>2. b[i] = s[(k + 1) + i - 1]
        BY <2>2, <3>1
      <3> QED
        BY <3>1, <3>2
    <2> QED
      BY <2>3, <2>4
  <1>5. r = a \o b
    BY <1>1, <1>2 DEF Old!RemoveAt
  <1>6. /\ r \in Seq(A) /\ Len(r) = Len(a) + Len(b)
        /\ \A i \in 1 .. Len(a) + Len(b) : r[i] = IF i <= Len(a) THEN a[i] ELSE b[i - Len(a)]
    <2>1. /\ a \o b \in Seq(A) /\ Len(a \o b) = Len(a) + Len(b)
          /\ \A i \in 1 .. Len(a) + Len(b) : (a \o b)[i] = IF i <= Len(a) THEN a[i] ELSE b[i - Len(a)]
      BY <1>3, <1>4, ConcatProperties
    <2> QED
      BY <1>5, <2>1
  <1>7. ASSUME NEW i \in 1 .. Len(s) - 1 PROVE r[i] = IF i < k THEN s[i] ELSE s[i + 1]
    <2>1. CASE i < k
      <3>1. i \in 1 .. k - 1 /\ i \in 1 .. Len(a) + Len(b) /\ i <= Len(a)
        BY <1>3, <1>4, <2>1
      <3> QED
        BY <1>3, <1>6, <2>1, <3>1
    <2>2. CASE ~(i < k)
      <3>1. PICK x : x = i - (k - 1)
        OBVIOUS
      <3>2. /\ x \in 1 .. Len(s) - k /\ k + x = i + 1
            /\ i \in 1 .. Len(a) + Len(b) /\ ~(i <= Len(a)) /\ i - Len(a) = x
        BY <1>3, <1>4, <2>2, <3>1
      <3> QED
        BY <1>4, <1>6, <2>2, <3>2
    <2> QED
      BY <2>1, <2>2
  <1> QED
    BY <1>3, <1>4, <1>6, <1>7

LEMMA StartKeeps == StartInv /\ [Old!Next]_startupVars => StartInv'
  <1> SUFFICES ASSUME StartInv, [Old!Next]_startupVars PROVE StartInv'
    OBVIOUS
  <1>a. state \in [Old!Node -> {"booting", "listening", "told", "running", "killed"}]
    BY DEF StartInv
  <1>1. ASSUME UNCHANGED <<next, nodesToStart, runner>>,
               state' \in [Old!Node -> {"booting", "listening", "told", "running", "killed"}],
               \A n \in Old!Node : runner # "exited" =>
                 (state'[n] \in {"booting", "listening"} <=> state[n] \in {"booting", "listening"})
        PROVE  StartInv'
    BY <1>1 DEF StartInv, OnList
  <1>2. ASSUME Old!StartNode PROVE StartInv'
    <2> DEFINE head == nodesToStart[next]
    <2>1. /\ runner = "starting" /\ nodesToStart # <<>>
          /\ \/ Old!Unreached
             \/ state[head] = "listening" /\ Old!Told(head)
             \/ /\ runner' = "exited" /\ UNCHANGED <<nodesToStart, next>>
                /\ state' = [m \in Old!Node |-> "killed"]
      BY <1>2 DEF Old!StartNode
    <2>2. CASE Old!Unreached
      <3>1. nodesToStart # <<>> => 1 \in 1 .. Len(nodesToStart)
        BY DEF StartInv
      <3> QED
        BY <2>1, <2>2, <3>1 DEF StartInv, OnList, Old!Unreached
    <2>3. CASE /\ runner' = "exited" /\ UNCHANGED <<nodesToStart, next>>
               /\ state' = [m \in Old!Node |-> "killed"]
      BY <2>1, <2>3 DEF StartInv, OnList
    <2>4. CASE state[head] = "listening" /\ Old!Told(head)
      <3>t. /\ runner' = runner
            /\ state' = [state EXCEPT ![head] = "told"]
            /\ nodesToStart' = Old!RemoveAt(nodesToStart, next)
            /\ next' = IF next + 1 > Len(nodesToStart) - 1 THEN 1 ELSE next + 1
        BY <2>4 DEF Old!Told
      <3>0. PICK s \in Seq(Old!Node) : s = nodesToStart
        BY DEF StartInv
      <3>r. PICK r : r = nodesToStart'
        OBVIOUS
      <3>1. PICK k \in 1 .. Len(s) : s = nodesToStart /\ k = next /\ r = nodesToStart'
        BY <2>1, <3>0, <3>r DEF StartInv
      <3>2. /\ r \in Seq(Old!Node) /\ Len(r) = Len(s) - 1
            /\ \A i \in 1 .. Len(s) - 1 : r[i] = IF i < k THEN s[i] ELSE s[i + 1]
        <4>1. r = Old!RemoveAt(s, k)
          BY <3>t, <3>1
        <4> QED
          BY <4>1, Removed
      <3>3. \A i, j \in 1 .. Len(s) : s[i] = s[j] => i = j
        BY <3>1 DEF StartInv
      <3>4. \A i, j \in 1 .. Len(r) : r[i] = r[j] => i = j
        <4> SUFFICES ASSUME NEW i \in 1 .. Len(r), NEW j \in 1 .. Len(r), r[i] = r[j] PROVE i = j
          OBVIOUS
        <4>1. PICK x \in 1 .. Len(s), y \in 1 .. Len(s) :
                /\ x = (IF i < k THEN i ELSE i + 1) /\ y = (IF j < k THEN j ELSE j + 1)
                /\ r[i] = s[x] /\ r[j] = s[y]
          BY <3>2
        <4>2. x = y
          BY <3>3, <4>1
        <4> QED
          BY <4>1, <4>2
      <3>5. next' \in Nat \ {0} /\ (r # <<>> => next' \in 1 .. Len(r))
        <4>1. r # <<>> => 1 \in 1 .. Len(r)
          BY <3>2
        <4> QED
          BY <3>t, <3>1, <3>2, <4>1
      <3>6. ASSUME NEW n \in Old!Node
            PROVE  (\E i \in 1 .. Len(r) : r[i] = n) <=> state'[n] \in {"booting", "listening"}
        <4>2. s[k] \in Old!Node /\ state' = [state EXCEPT ![s[k]] = "told"]
          BY <3>t, <3>1
        <4>3. (\E i \in 1 .. Len(s) : s[i] = n) <=> state[n] \in {"booting", "listening"}
          BY <2>1, <3>1 DEF StartInv, OnList
        <4>4. CASE n = s[k]
          <5>1. state'[n] = "told"
            BY <1>a, <4>2, <4>4
          <5>2. ASSUME NEW i \in 1 .. Len(r), r[i] = n PROVE FALSE
            <6>1. PICK x \in 1 .. Len(s) : x = (IF i < k THEN i ELSE i + 1) /\ r[i] = s[x]
              BY <3>2
            <6>2. x = k
              BY <3>3, <4>4, <5>2, <6>1
            <6> QED
              BY <6>1, <6>2
          <5> QED
            BY <5>1, <5>2
        <4>5. CASE n # s[k]
          <5>1. state'[n] = state[n]
            BY <1>a, <4>2, <4>5
          <5>2. (\E i \in 1 .. Len(s) : s[i] = n) => (\E i \in 1 .. Len(r) : r[i] = n)
            <6> SUFFICES ASSUME NEW x \in 1 .. Len(s), s[x] = n PROVE \E i \in 1 .. Len(r) : r[i] = n
              OBVIOUS
            <6>1. x # k
              BY <4>5
            <6>2. CASE x < k
              <7>1. x \in 1 .. Len(r) /\ r[x] = s[x]
                BY <3>2, <6>2
              <7> QED
                BY <7>1
            <6>3. CASE x > k
              <7>1. x - 1 \in 1 .. Len(r) /\ r[x - 1] = s[x]
                BY <3>2, <6>3
              <7> QED
                BY <7>1
            <6> QED
              BY <6>1, <6>2, <6>3
          <5>3. (\E i \in 1 .. Len(r) : r[i] = n) => (\E i \in 1 .. Len(s) : s[i] = n)
            <6> SUFFICES ASSUME NEW i \in 1 .. Len(r), r[i] = n PROVE \E x \in 1 .. Len(s) : s[x] = n
              OBVIOUS
            <6>1. PICK x \in 1 .. Len(s) : x = (IF i < k THEN i ELSE i + 1) /\ r[i] = s[x]
              BY <3>2
            <6> QED
              BY <6>1
          <5> QED
            BY <4>3, <5>1, <5>2, <5>3
        <4> QED
          BY <4>4, <4>5
      <3>7. state' \in [Old!Node -> {"booting", "listening", "told", "running", "killed"}]
        BY <1>a, <3>t
      <3> QED
        BY <2>1, <3>t, <3>1, <3>2, <3>4, <3>5, <3>6, <3>7 DEF StartInv, OnList
    <2> QED
      BY <2>1, <2>2, <2>3, <2>4
  <1>3. ASSUME Old!AllStarted PROVE StartInv'
    BY <1>3 DEF Old!AllStarted, StartInv, OnList
  <1>4. ASSUME NEW n \in Old!Node, Old!Boot(n) PROVE StartInv'
    BY <1>1, <1>4, <1>a DEF Old!Boot, Old!ofRunner
  <1>5. ASSUME NEW n \in Old!Node, Old!Begin(n) PROVE StartInv'
    BY <1>1, <1>5, <1>a DEF Old!Begin, Old!ofRunner
  <1>6. ASSUME UNCHANGED <<next, nodesToStart, runner, state>> PROVE StartInv'
    BY <1>1, <1>6, <1>a
  <1>7. ASSUME NEW n \in Old!Node, Old!CountSecond(n) \/ Old!NodeShutdown(n) PROVE StartInv'
    BY <1>6, <1>7 DEF Old!CountSecond, Old!NodeShutdown, Old!ofRunner
  <1>8. ASSUME Old!Tick PROVE StartInv'
    BY <1>6, <1>8 DEF Old!Tick, Old!ofRunner
  <1>9. CASE UNCHANGED startupVars
    BY <1>6, <1>9 DEF startupVars
  <1> QED
    BY <1>2, <1>3, <1>4, <1>5, <1>7, <1>8, <1>9 DEF Old!Next, Old!Runner, Old!NodeStep

\* The runner goes on to wait for its nodes' ends only when it has told each of
\* them to start, although the loop that tells them shortens the list it walks and
\* starts again whenever one does not listen yet.
THEOREM AllTold == Spec => []NobodyPassedOver
  <1>1. StartInv => NobodyPassedOver
    BY DEF StartInv, NobodyPassedOver, Old!NobodyPassedOver, OnList
  <1> QED
    BY <1>1, StartInit, StartupStep, StartKeeps, PTL DEF Spec

-----------------------------------------------------------------------------
(* Offloading.                                                             *)

\* The module's own copy of the library's operator.
LEMMA SameCardinality == \A S : Drone!Cardinality(S) = Cardinality(S)
  BY DEF Drone!Cardinality, Cardinality

LEMMA OneMore == ASSUME NEW t \in Nat, NEW k \in Nat PROVE t * k = (t - 1) * k + k
  OBVIOUS

\* The neighbours whose payload has the size z.
OfSize(z) == {c \in Cloudlet : size[c] = z}

\* In a serial campaign one connection is open at a time, and the measurements
\* of a size are those of the turns behind and of this turn's neighbours that
\* are neither waiting nor being served.
SerialTurn ==
  /\ turn \in Nat \ {0}
  /\ todo \cap sending = {} /\ todo \cup sending \subseteq Drone!Drawn
  /\ sending = {} \/ \E c \in Cloudlet : sending = {c}
  /\ \A z \in Sizes :
       reps[z] = (turn - 1) * Cardinality(OfSize(z)) + Cardinality(OfSize(z) \ (todo \cup sending))

OffloadingTypes ==
  /\ neighbours \subseteq Cloudlet /\ todo \subseteq Cloudlet /\ sending \subseteq Cloudlet
  /\ rep \in Nat /\ turn \in Nat
  /\ size \in [Cloudlet -> Sizes \cup {0}] /\ reps \in [Sizes -> Nat]

OffloadingInv ==
  /\ OffloadingTypes
  /\ campaign # "offload" => sending = {}
  /\ campaign = "offload" /\ mode = "serial" => SerialTurn
  /\ SerialComplete

LEMMA OffloadingStep == [Next]_vars => [Drone!Next]_offloadingVars
  BY DEF Next, Others, vars

LEMMA OffloadingInit == Init => OffloadingInv
  BY OffloadingAssumption
  DEF Init, Drone!Init, OffloadingInv, OffloadingTypes, SerialComplete, Drone!SerialComplete

\* What the steps leave alone: the sizes, so the sets of neighbours of a size.
LEMMA SameSizes == ASSUME size' = size PROVE \A z : OfSize(z)' = OfSize(z)
  BY DEF OfSize

LEMMA SizesFinite == \A z : IsFiniteSet(OfSize(z)) /\ Cardinality(OfSize(z)) \in Nat
  BY OffloadingAssumption, FS_Subset, FS_CardinalityType DEF OfSize

LEMMA DrawSizesKeeps == OffloadingInv /\ Drone!DrawSizes => OffloadingInv'
  <1> SUFFICES ASSUME OffloadingInv, Drone!DrawSizes PROVE OffloadingInv'
    OBVIOUS
  <1>1. PICK drawn \in [neighbours -> Sizes] :
          size' = [c \in Cloudlet |-> IF c \in neighbours THEN drawn[c] ELSE 0]
    BY DEF Drone!DrawSizes
  <1>2. OffloadingTypes' /\ sending = {} /\ sending' = {} /\ todo' = neighbours /\ turn' = 1
    BY <1>1 DEF Drone!DrawSizes, OffloadingInv, OffloadingTypes
  <1>3. Drone!Drawn' = neighbours
    BY <1>1, OffloadingAssumption DEF Drone!Drawn, OffloadingInv, OffloadingTypes
  <1>4. ASSUME NEW z \in Sizes PROVE OfSize(z)' \ (todo' \cup sending') = {}
    BY <1>1, <1>2, OffloadingAssumption DEF OfSize
  <1>5. ASSUME NEW z \in Sizes
        PROVE  reps'[z] = (turn' - 1) * Cardinality(OfSize(z)')
                          + Cardinality(OfSize(z)' \ (todo' \cup sending'))
    <2>1. OfSize(z)' \subseteq Cloudlet
      BY DEF OfSize
    <2>2. Cardinality(OfSize(z)') \in Nat
      BY <2>1, OffloadingAssumption, FS_Subset, FS_CardinalityType
    <2>3. (1 - 1) * Cardinality(OfSize(z)') = 0
      BY <2>2
    <2>4. reps'[z] = 0 /\ turn' = 1
      BY <1>2 DEF Drone!DrawSizes
    <2>5. Cardinality(OfSize(z)' \ (todo' \cup sending')) = 0
      BY <1>4, FS_EmptySet
    <2>6. QED
      BY <2>3, <2>4, <2>5
  <1>6. SerialTurn'
    BY <1>2, <1>3, <1>5 DEF SerialTurn
  <1>7. campaign' = "offload"
    BY DEF Drone!DrawSizes
  <1>8. QED
    BY <1>2, <1>6, <1>7 DEF OffloadingInv, SerialComplete, Drone!SerialComplete

LEMMA OffloadKeeps ==
  ASSUME NEW c \in Cloudlet, OffloadingInv, Drone!Offload(c)
  PROVE  OffloadingInv'
  <1>1. /\ campaign = "offload" /\ mode = "serial" /\ sending = {} /\ c \in todo
        /\ sending' = {c} /\ todo' = todo \ {c}
        /\ UNCHANGED <<neighbours, campaign, mode, rep, turn, size, reps>>
    BY DEF Drone!Offload
  <1>2. todo' \cup sending' = todo \cup sending
    BY <1>1
  <1>3. \A z : OfSize(z)' = OfSize(z)
    BY <1>1, SameSizes
  <1>4. SerialTurn
    BY <1>1 DEF OffloadingInv
  <1>5. SerialTurn'
    BY <1>1, <1>2, <1>3, <1>4 DEF SerialTurn, Drone!Drawn
  <1>6. QED
    BY <1>1, <1>5 DEF OffloadingInv, OffloadingTypes, SerialComplete, Drone!SerialComplete

LEMMA NotedKeeps ==
  ASSUME NEW c \in Cloudlet, OffloadingInv, Drone!Noted(c)
  PROVE  OffloadingInv'
  <1>1. /\ c \in sending /\ sending' = sending \ {c} /\ campaign = "offload"
        /\ reps' = [reps EXCEPT ![size[c]] = @ + 1]
        /\ UNCHANGED <<neighbours, campaign, mode, rep, turn, size, todo>>
    BY DEF Drone!Noted, OffloadingInv, Drone!loops
  <1>2. OffloadingTypes'
    <2>1. reps \in [Sizes -> Nat]
      BY DEF OffloadingInv, OffloadingTypes
    <2>2. PICK i : reps' = [reps EXCEPT ![i] = reps[i] + 1]
      BY <1>1
    <2>3. reps' \in [Sizes -> Nat]
      <3>1. CASE i \in Sizes
        BY <2>1, <2>2, <3>1
      <3>2. CASE i \notin Sizes
        BY <2>1, <2>2, <3>2
      <3>3. QED
        BY <3>1, <3>2
    <2>4. QED
      BY <1>1, <2>3 DEF OffloadingInv, OffloadingTypes
  <1>3. ASSUME mode = "serial" PROVE SerialTurn'
    <2>1. SerialTurn /\ OffloadingTypes
      BY <1>1, <1>3 DEF OffloadingInv
    <2>2. sending = {c} /\ sending' = {} /\ c \notin todo /\ size[c] # 0
      BY <1>1, <2>1 DEF SerialTurn, Drone!Drawn
    <2>3. \A z : OfSize(z)' = OfSize(z)
      BY <1>1, SameSizes
    <2>4. ASSUME NEW z \in Sizes
          PROVE  reps'[z] = (turn - 1) * Cardinality(OfSize(z)) + Cardinality(OfSize(z) \ todo)
      <3> DEFINE S == OfSize(z) \ (todo \cup sending)
      <3>1. IsFiniteSet(S) /\ Cardinality(S) \in Nat /\ Cardinality(OfSize(z)) \in Nat
        BY SizesFinite, FS_Subset, FS_CardinalityType
      <3>2. reps[z] = (turn - 1) * Cardinality(OfSize(z)) + Cardinality(S)
        BY <2>1 DEF SerialTurn
      <3>3. CASE size[c] = z
        <4>1. c \notin S /\ OfSize(z) \ todo = S \cup {c}
          BY <2>2, <3>3 DEF OfSize
        <4>2. Cardinality(OfSize(z) \ todo) = Cardinality(S) + 1
          BY <3>1, <4>1, FS_AddElement
        <4>3. reps'[z] = reps[z] + 1
          BY <1>1, <2>1, <3>3 DEF OffloadingTypes
        <4> HIDE DEF S
        <4>4. (turn - 1) * Cardinality(OfSize(z)) \in Int
          BY <2>1, <3>1 DEF SerialTurn
        <4>5. QED
          BY <3>1, <3>2, <4>2, <4>3, <4>4
      <3>4. CASE size[c] # z
        <4>1. OfSize(z) \ todo = S
          BY <2>2, <3>4 DEF OfSize
        <4>2. reps'[z] = reps[z]
          BY <1>1, <2>1, <3>4 DEF OffloadingTypes
        <4>3. QED
          BY <3>2, <4>1, <4>2
      <3>5. QED
        BY <3>3, <3>4
    <2>5. turn' = turn /\ todo' \cup sending' = todo /\ Drone!Drawn' = Drone!Drawn
      BY <1>1, <2>2 DEF Drone!Drawn
    <2>6. QED
      BY <1>1, <2>1, <2>2, <2>3, <2>4, <2>5 DEF SerialTurn
  <1>4. QED
    BY <1>1, <1>2, <1>3 DEF OffloadingInv, SerialComplete, Drone!SerialComplete

LEMMA TurnComplete ==
  ASSUME OffloadingInv, campaign = "offload", mode = "serial", todo = {}, sending = {}, NEW z \in Sizes
  PROVE  reps[z] = turn * Cardinality(OfSize(z))
  <1>1. SerialTurn
    BY DEF OffloadingInv
  <1>2. OfSize(z) \ (todo \cup sending) = OfSize(z)
    OBVIOUS
  <1>3. reps[z] = (turn - 1) * Cardinality(OfSize(z)) + Cardinality(OfSize(z)) /\ turn \in Nat
    BY <1>1, <1>2 DEF SerialTurn
  <1>4. QED
    BY <1>3, SizesFinite, OneMore

LEMMA NextTurnKeeps == OffloadingInv /\ Drone!NextTurn => OffloadingInv'
  <1> SUFFICES ASSUME OffloadingInv, Drone!NextTurn PROVE OffloadingInv'
    OBVIOUS
  <1>1. /\ campaign = "offload" /\ todo = {} /\ sending = {} /\ ~Drone!Grown
        /\ turn' = turn + 1 /\ todo' = neighbours
        /\ UNCHANGED <<neighbours, campaign, mode, rep, size, reps, sending>>
    BY DEF Drone!NextTurn
  <1>2. OffloadingTypes'
    BY <1>1 DEF OffloadingInv, OffloadingTypes
  <1>3. ASSUME mode = "serial" PROVE SerialTurn'
    <2>1. neighbours = Drone!Drawn /\ Drone!Drawn' = Drone!Drawn
      BY <1>1, <1>3 DEF Drone!Grown, Drone!Drawn
    <2>2. \A z : OfSize(z)' = OfSize(z)
      BY <1>1, SameSizes
    <2>3. turn \in Nat \ {0}
      BY <1>1, <1>3 DEF OffloadingInv, SerialTurn
    <2>4. ASSUME NEW z \in Sizes
          PROVE  reps[z] = (turn + 1 - 1) * Cardinality(OfSize(z))
                           + Cardinality(OfSize(z) \ Drone!Drawn)
      <3>1. OfSize(z) \ Drone!Drawn = {}
        BY OffloadingAssumption DEF OfSize, Drone!Drawn
      <3>2. Cardinality(OfSize(z) \ Drone!Drawn) = 0
        BY <3>1, FS_EmptySet
      <3>3. turn * Cardinality(OfSize(z)) \in Nat /\ turn + 1 - 1 = turn
        BY <2>3, SizesFinite
      <3>4. QED
        BY <1>1, <1>3, <3>2, <3>3, TurnComplete
    <2>5. todo' \cup sending' = Drone!Drawn
      BY <1>1, <2>1
    <2>6. QED
      BY <1>1, <2>1, <2>2, <2>3, <2>4, <2>5 DEF SerialTurn
  <1>4. QED
    BY <1>1, <1>2, <1>3 DEF OffloadingInv, SerialComplete, Drone!SerialComplete

LEMMA TurnsDoneKeeps == OffloadingInv /\ Drone!TurnsDone => OffloadingInv'
  <1> SUFFICES ASSUME OffloadingInv, Drone!TurnsDone PROVE OffloadingInv'
    OBVIOUS
  <1>1. /\ campaign = "offload" /\ campaign' = "report" /\ todo = {} /\ sending = {} /\ turn = rep
        /\ UNCHANGED <<neighbours, mode, rep, turn, size, todo, reps, sending>>
    BY DEF Drone!TurnsDone, Drone!loops
  <1>2. ASSUME mode = "serial", NEW z \in Sizes PROVE reps[z] = rep * Cardinality(OfSize(z))
    BY <1>1, <1>2, TurnComplete
  <1>3. ASSUME mode = "serial", NEW z \in Sizes
        PROVE  reps'[z] = rep' * Cardinality({c \in Cloudlet : size'[c] = z})
    <2>1. {c \in Cloudlet : size'[c] = z} = OfSize(z)
      BY <1>1 DEF OfSize
    <2>2. QED
      BY <1>1, <1>2, <1>3, <2>1
  <1>4. SerialComplete'
    <2> SUFFICES ASSUME mode' = "serial", NEW z \in Sizes
                 PROVE  (reps[z] = rep * Cardinality({c \in Cloudlet : size[c] = z}))'
      BY SameCardinality DEF SerialComplete, Drone!SerialComplete
    <2>1. mode = "serial"
      BY <1>1
    <2>2. QED
      BY <1>3, <2>1
  <1>5. QED
    BY <1>1, <1>4 DEF OffloadingInv, OffloadingTypes

LEMMA OffloadingKeeps == OffloadingInv /\ [Drone!Next]_offloadingVars => OffloadingInv'
  <1> SUFFICES ASSUME OffloadingInv, [Drone!Next]_offloadingVars PROVE OffloadingInv'
    OBVIOUS
  <1> USE DEF Drone!loops
  <1> DEFINE Same == UNCHANGED <<rep, turn, size, todo, reps>>
  <1>1. ASSUME Same, neighbours' \subseteq Cloudlet, sending' = sending, campaign' = campaign, mode' = mode
        PROVE  OffloadingInv'
    BY <1>1 DEF OffloadingInv, OffloadingTypes, SerialTurn, OfSize, Drone!Drawn, SerialComplete,
                Drone!SerialComplete
  \* A campaign that is over, or before its next partition.
  <1>2. ASSUME campaign' \in {"prompt", "draw"}, sending' = {}, rep' \in Nat,
               UNCHANGED <<neighbours, turn, size, todo, reps>>
        PROVE  OffloadingInv'
    BY <1>2 DEF OffloadingInv, OffloadingTypes, SerialComplete, Drone!SerialComplete
  <1>3. ASSUME Drone!LearnMyIp \/ Drone!CheckRuntime PROVE OffloadingInv'
    BY <1>1, <1>3 DEF Drone!LearnMyIp, Drone!CheckRuntime, OffloadingInv, OffloadingTypes
  <1>4. ASSUME NEW c \in Cloudlet,
               \/ Drone!HandleCloudletState(c) \/ Drone!CutShort(c)
               \/ Drone!LinkBack(c) \/ Drone!StopCloudlet(c)
        PROVE  OffloadingInv'
    BY <1>1, <1>4 DEF Drone!HandleCloudletState, Drone!CutShort, Drone!LinkBack,
                      Drone!StopCloudlet, OffloadingInv, OffloadingTypes
  <1>5. ASSUME NEW n \in Rep, NEW how \in {"serial", "parallel"}, Drone!Prompt(n, how)
        PROVE  OffloadingInv'
    BY <1>2, <1>5, OffloadingAssumption DEF Drone!Prompt, OffloadingInv, OffloadingTypes
  <1>6. ASSUME Drone!Abort PROVE OffloadingInv'
    BY <1>2, <1>6 DEF Drone!Abort, OffloadingInv, OffloadingTypes
  <1>7. ASSUME Drone!ParallelOffload PROVE OffloadingInv'
    BY <1>7 DEF Drone!ParallelOffload, OffloadingInv, OffloadingTypes, SerialComplete,
                Drone!SerialComplete
  <1>8. ASSUME NEW c \in Cloudlet, Drone!Reset(c) PROVE OffloadingInv'
    <2>1. CASE mode = "serial"
      <3>1. sending' = {}
        BY <1>8, <2>1 DEF Drone!Reset, OffloadingInv, SerialTurn
      <3>2. QED
        BY <1>2, <1>8, <2>1, <3>1 DEF Drone!Reset, OffloadingInv, OffloadingTypes
    <2>2. CASE mode # "serial"
      BY <1>8, <2>2 DEF Drone!Reset, OffloadingInv, OffloadingTypes, SerialComplete,
                        Drone!SerialComplete
    <2>3. QED
      BY <2>1, <2>2
  <1>9. ASSUME Drone!ReportSerial \/ Drone!ReportParallel PROVE OffloadingInv'
    BY <1>2, <1>9 DEF Drone!ReportSerial, Drone!ReportParallel, OffloadingInv, OffloadingTypes
  <1>10. CASE UNCHANGED offloadingVars
    BY <1>1, <1>10 DEF offloadingVars, OffloadingInv, OffloadingTypes
  <1>11. ASSUME NEW c \in Cloudlet, Drone!Measured(c) \/ Drone!Buffered(c) PROVE OffloadingInv'
    BY <1>11, NotedKeeps DEF Drone!Measured, Drone!Buffered
  <1>12. QED
    BY <1>3, <1>4, <1>5, <1>6, <1>7, <1>8, <1>9, <1>10, <1>11, DrawSizesKeeps, OffloadKeeps,
       NextTurnKeeps, TurnsDoneKeeps
    DEF Drone!Next, Drone!Campaign

\* What a serial campaign writes down is complete: rep measurements for every
\* neighbour it drew a size for, although neighbours come and cloudlets stop.
THEOREM SerialWhole == Spec => []SerialComplete
  <1>1. OffloadingInv => SerialComplete
    BY DEF OffloadingInv
  <1>2. QED
    BY <1>1, OffloadingInit, OffloadingStep, OffloadingKeeps, PTL DEF Spec

-----------------------------------------------------------------------------
(* SwarmConsensus.                                                         *)

\* The module's own copies of the library's operators.
LEMMA SwarmSum == \A f : Swarm!SumFunction(f) = SumFunction(f)
  BY Zenon DEF Swarm!SumFunction, Swarm!SumFunctionOnSet, Swarm!FoldFunctionOnSet,
    Swarm!MapThenFoldSet, SumFunction, SumFunctionOnSet, FoldFunctionOnSet, MapThenFoldSet

LEMMA SwarmCardinality == \A S : Swarm!Cardinality(S) = Cardinality(S)
  BY DEF Swarm!Cardinality, Cardinality

\* What the directions stay within.
Headings == {Heading[n] : n \in Fleet}
Least == Swarm!Min(Headings)
Greatest == Swarm!Max(Headings)

Course == Least .. Greatest

LEMMA CourseBounded ==
  ASSUME Fleet # {}
  PROVE  Least \in Nat /\ Greatest \in Nat /\ \A n \in Fleet : Heading[n] \in Course
<1>1. IsFiniteSet(Headings)
  <2>1. Heading \in Surjection(Fleet, Headings)
    BY SwarmAssumption DEF Surjection, Headings
  <2> QED
    BY <2>1, SwarmAssumption, FS_Surjection
<1>2. Headings # {} /\ Headings \subseteq Nat
  BY SwarmAssumption DEF Headings
<1>3. /\ \E x \in Headings : \A y \in Headings : x <= y
      /\ \E x \in Headings : \A y \in Headings : x >= y
  <2> HIDE DEF Headings
  <2>1. Headings \subseteq Int
    BY <1>2
  <2> QED
    BY <1>1, <1>2, <2>1, Extremes
<1>4. Least \in Headings /\ \A y \in Headings : Least <= y
  BY <1>3 DEF Least, Swarm!Min
<1>5. Greatest \in Headings /\ \A y \in Headings : Greatest >= y
  BY <1>3 DEF Greatest, Swarm!Max
<1> QED
  BY <1>2, <1>4, <1>5 DEF Headings, Course

\* A turn by 1 / Divisor of every difference to at most Divisor directions.
LEMMA TurnWithin ==
  ASSUME NEW lo \in Int, NEW hi \in Int, NEW d \in lo .. hi, NEW div \in Nat \ {0},
         NEW k \in 0 .. div, NEW sum \in Int, k * (lo - d) <= sum, sum <= k * (hi - d)
  PROVE  d + sum \div div \in lo .. hi
<1>1. PICK q \in Int : q = sum \div div /\ div * q <= sum /\ sum < div * q + div
  OBVIOUS
<1>2. PICK a \in Int, b \in Int : a = lo - d /\ b = hi - d /\ a <= 0 /\ 0 <= b
  OBVIOUS
<1>3. div * a <= k * a /\ k * b <= div * b
  BY <1>2
<1>4. div * a <= sum /\ sum <= div * b
  BY <1>2, <1>3
<1>5. a <= q
  <2>1. SUFFICES ASSUME q + 1 <= a PROVE FALSE
    BY <1>1, <1>2
  <2>2. div * (q + 1) <= div * a
    BY <2>1, <1>1, <1>2
  <2>3. div * (q + 1) = div * q + div
    BY <1>1
  <2> QED
    BY <1>1, <1>4, <2>2, <2>3
<1>6. q <= b
  <2>1. SUFFICES ASSUME b + 1 <= q PROVE FALSE
    BY <1>1, <1>2
  <2>2. div * (b + 1) <= div * q
    BY <2>1, <1>1, <1>2
  <2>3. div * (b + 1) = div * b + div
    BY <1>2
  <2> QED
    BY <1>1, <1>4, <2>2, <2>3
<1> QED
  BY <1>1, <1>2, <1>5, <1>6

\* Every number a node holds, sends, has heard or works with is one of the course.
OnCourse ==
  \A i \in Fleet :
    /\ direction[i] \in Course
    /\ air[i] \subseteq Course
    /\ \A n \in DOMAIN heard[i] : heard[i][n] \in Course
    /\ \A n \in DOMAIN iterating[i] : iterating[i][n] \in Course

\* Dictionaries only grow: once a node has heard too many, nothing is claimed.
SwarmInv ==
  /\ DOMAIN direction = Fleet /\ DOMAIN air = Fleet
  /\ DOMAIN heard = Fleet /\ DOMAIN iterating = Fleet
  /\ \A i \in Fleet : DOMAIN heard[i] \subseteq Fleet
  /\ Swarm!Few => OnCourse

LEMMA SwarmStep == [Next]_vars => [Swarm!Next]_swarmVars
  BY DEF Next, Others, vars

LEMMA SwarmInit == Init => SwarmInv
<1>1. CASE Fleet = {}
  BY <1>1 DEF Init, Swarm!Init, SwarmInv, OnCourse
<1>2. CASE Fleet # {}
  BY <1>2, CourseBounded DEF Init, Swarm!Init, Swarm!NoRound, FirstOf, SwarmInv, OnCourse
<1> QED
  BY <1>1, <1>2

\* A turn of a node that has heard few stays on the course.
LEMMA TurnOnCourse ==
  ASSUME SwarmInv, OnCourse, Swarm!Few, NEW i \in Fleet, Swarm!Turn(i)
  PROVE  direction'[i] \in Course
<1>1. Least \in Nat /\ Greatest \in Nat
  BY CourseBounded
<1> DEFINE met == DOMAIN iterating[i]
           Read(late) == [n \in met |->
             (IF n \in late THEN heard[i][n] ELSE iterating[i][n]) - direction[i]]
<1>2. DOMAIN heard[i] = met /\ met \subseteq Fleet
  BY DEF SwarmInv, Swarm!Turn, Swarm!Heard
<1>3. PICK late \in SUBSET met :
        direction' = [direction EXCEPT ![i] = @ + SumFunction(Read(late)) \div Divisor]
  BY SwarmSum DEF Swarm!Turn, Swarm!Heard
<1>4. PICK d \in Int, lo \in Int, hi \in Int :
        d = direction[i] /\ lo = Least - d /\ hi = Greatest - d
  BY <1>1 DEF Course, OnCourse
<1>5. /\ Read(late) \in [met -> Int]
      /\ \A n \in met : lo <= Read(late)[n] /\ Read(late)[n] <= hi
  <2>1. ASSUME NEW n \in met
        PROVE  Read(late)[n] \in Int /\ lo <= Read(late)[n] /\ Read(late)[n] <= hi
    <3>1. PICK v \in Course :
            v = (IF n \in late THEN heard[i][n] ELSE iterating[i][n])
      BY <1>2 DEF OnCourse
    <3>2. v \in Int /\ Least <= v /\ v <= Greatest
      BY <1>1 DEF Course
    <3>3. Read(late)[n] = v - d
      BY <3>1, <1>4
    <3> QED
      BY <1>1, <1>4, <3>2, <3>3
  <2> QED
    BY <2>1
<1>6. IsFiniteSet(met) /\ Cardinality(met) \in 0 .. Divisor
  <2>1. Cardinality(DOMAIN heard[i]) <= Divisor
    BY SwarmCardinality DEF Swarm!Few, Swarm!Heard
  <2>2. IsFiniteSet(met) /\ Cardinality(met) \in Nat
    <3> HIDE DEF met
    <3> QED
      BY <1>2, SwarmAssumption, FS_Subset, FS_CardinalityType
  <2> QED
    BY <1>2, <2>1, <2>2, SwarmAssumption
<1>7. PICK f \in [met -> Int], v \in Int :
        f = Read(late) /\ v = SumFunction(f)
        /\ Cardinality(met) * lo <= v /\ v <= Cardinality(met) * hi
  <2>1. PICK f \in [met -> Int] :
          f = Read(late) /\ \A n \in met : lo <= f[n] /\ f[n] <= hi
    BY <1>5
  <2> HIDE DEF met, Read
  <2> QED
    BY <2>1, <1>6, SumBounded
<1>8. d + v \div Divisor \in Least .. Greatest
  <2> HIDE DEF met, Read
  <2>1. d \in Least .. Greatest
    BY <1>4 DEF Course, OnCourse
  <2> QED
    <3>1. PICK k \in 0 .. Divisor :
            k = Cardinality(met) /\ k * (Least - d) <= v /\ v <= k * (Greatest - d)
      BY <1>4, <1>6, <1>7
    <3>2. Least \in Int /\ Greatest \in Int /\ Divisor \in Nat \ {0}
      BY <1>1, SwarmAssumption
    <3> QED
      BY <2>1, <3>1, <3>2, TurnWithin
<1>9. direction' = [direction EXCEPT ![i] = d + v \div Divisor]
  BY <1>3, <1>4, <1>7
<1> HIDE DEF met, Read
<1> QED
  BY <1>8, <1>9 DEF SwarmInv, Course

LEMMA SwarmKeeps == SwarmInv /\ [Swarm!Next]_swarmVars => SwarmInv'
<1> SUFFICES ASSUME SwarmInv, [Swarm!Next]_swarmVars PROVE SwarmInv'
  OBVIOUS
\* Few is about the dictionaries alone.
<1>1. ASSUME heard' = heard, DOMAIN direction' = Fleet, DOMAIN air' = Fleet,
             DOMAIN iterating' = Fleet, Swarm!Few /\ OnCourse => OnCourse'
      PROVE  SwarmInv'
  BY <1>1 DEF SwarmInv, Swarm!Few, Swarm!Heard
<1>2. ASSUME NEW i \in Fleet, Swarm!BroadcastMyDirection(i) PROVE SwarmInv'
  BY <1>1, <1>2 DEF Swarm!BroadcastMyDirection, SwarmInv, OnCourse
<1>3. ASSUME NEW i \in Fleet, NEW n \in Fleet, Swarm!HandleDirectionPacket(i, n) PROVE SwarmInv'
  <2>1. PICK v, D, t :
          /\ v \in air[n] /\ D = DOMAIN heard[i] \cup {n}
          /\ t = [m \in D |-> IF m = n THEN v ELSE heard[i][m]]
          /\ heard' = [heard EXCEPT ![i] = t] /\ UNCHANGED <<direction, air, iterating>>
    BY <1>3 DEF Swarm!HandleDirectionPacket, Swarm!Heard
  <2>2. DOMAIN t = D /\ D \subseteq Fleet /\ DOMAIN heard[i] \subseteq D
    BY <2>1 DEF SwarmInv
  <2>3. /\ DOMAIN heard' = Fleet /\ heard'[i] = t
        /\ \A j \in Fleet \ {i} : heard'[j] = heard[j]
    BY <2>1 DEF SwarmInv
  <2>4. \A j \in Fleet : DOMAIN heard[j] \subseteq DOMAIN heard'[j] /\ DOMAIN heard'[j] \subseteq Fleet
    BY <2>2, <2>3 DEF SwarmInv
  <2>5. ASSUME OnCourse PROVE OnCourse'
    <3>1. \A m \in D : t[m] \in Course
      BY <2>1, <2>5 DEF OnCourse
    <3>2. \A j \in Fleet : \A m \in DOMAIN heard'[j] : heard'[j][m] \in Course
      BY <2>2, <2>3, <2>5, <3>1 DEF OnCourse
    <3> QED
      BY <2>1, <2>5, <3>2 DEF OnCourse, Course
  <2>6. ASSUME Swarm!Few' PROVE Swarm!Few
    <3> SUFFICES ASSUME NEW j \in Fleet PROVE Cardinality(DOMAIN heard[j]) <= Divisor
      BY SwarmCardinality DEF Swarm!Few, Swarm!Heard
    <3>1. PICK A, B : A = DOMAIN heard[j] /\ B = DOMAIN heard'[j]
      OBVIOUS
    <3>2. A \subseteq B /\ B \subseteq Fleet
      BY <2>4, <3>1
    <3>3. Cardinality(B) <= Divisor
      BY <2>6, <3>1, SwarmCardinality DEF Swarm!Few, Swarm!Heard
    <3>4. IsFiniteSet(A) /\ IsFiniteSet(B) /\ Cardinality(A) <= Cardinality(B)
      BY <3>2, SwarmAssumption, FS_Subset
    <3>5. Cardinality(A) \in Nat /\ Cardinality(B) \in Nat
      BY <3>4, FS_CardinalityType
    <3> QED
      BY <3>1, <3>3, <3>4, <3>5, SwarmAssumption
  <2> QED
    BY <2>1, <2>3, <2>4, <2>5, <2>6 DEF SwarmInv
<1>4. ASSUME NEW i \in Fleet, Swarm!RunSwarmConsensus(i) PROVE SwarmInv'
  BY <1>1, <1>4 DEF Swarm!RunSwarmConsensus, SwarmInv, OnCourse
<1>5. ASSUME NEW i \in Fleet, Swarm!Turn(i) PROVE SwarmInv'
  <2>1. /\ heard' = heard /\ air' = air /\ iterating' = [iterating EXCEPT ![i] = << >>]
        /\ DOMAIN direction' = Fleet /\ \A j \in Fleet \ {i} : direction'[j] = direction[j]
    BY <1>5 DEF Swarm!Turn, Swarm!NoRound, SwarmInv
  <2>2. DOMAIN iterating' = Fleet /\ \A j \in Fleet : \A n \in DOMAIN iterating'[j] : j # i /\ iterating'[j] = iterating[j]
    BY <2>1 DEF SwarmInv
  <2>3. ASSUME Swarm!Few, OnCourse PROVE OnCourse'
    <3>1. direction'[i] \in Course
      BY <1>5, <2>3, TurnOnCourse
    <3> QED
      BY <2>1, <2>2, <2>3, <3>1 DEF OnCourse, Course
  <2> QED
    BY <1>1, <2>1, <2>2, <2>3 DEF SwarmInv
<1>6. ASSUME NEW i \in Fleet, Swarm!RoundRaises(i) PROVE SwarmInv'
  BY <1>1, <1>6 DEF Swarm!RoundRaises, Swarm!NoRound, SwarmInv, OnCourse
<1>7. ASSUME NEW i \in Fleet, Swarm!CheckRuntime(i) PROVE SwarmInv'
  BY <1>1, <1>7 DEF Swarm!CheckRuntime, SwarmInv, OnCourse
<1>8. CASE UNCHANGED swarmVars
  BY <1>1, <1>8 DEF swarmVars, SwarmInv, OnCourse
<1> QED
  BY <1>2, <1>3, <1>4, <1>5, <1>6, <1>7, <1>8 DEF Swarm!Next

\* However late, old or reordered the directions a node hears, and however large
\* the fleet: as long as no node has heard of more than 1 / k others, no turn
\* leaves the directions the nodes began with.
THEOREM DirectionsEnclosed == Spec => []Enclosed
<1>1. SwarmInv => Enclosed
  <2> SUFFICES ASSUME SwarmInv, Swarm!Few, NEW i \in Fleet
               PROVE  direction[i] >= Least /\ direction[i] <= Greatest
    BY DEF Enclosed, Swarm!Enclosed, Least, Greatest, Headings, FirstOf
  <2> QED
    BY CourseBounded DEF SwarmInv, OnCourse, Course
<1> QED
  BY <1>1, SwarmKeeps, SwarmInit, SwarmStep, PTL DEF Spec

-----------------------------------------------------------------------------
(* Visibility.                                                             *)

\* The module's own copies of the library's operators.
LEMMA LossesSum == \A f : Pprz!SumFunction(f) = SumFunction(f)
  BY Zenon DEF Pprz!SumFunction, Pprz!SumFunctionOnSet, Pprz!FoldFunctionOnSet,
    Pprz!MapThenFoldSet, SumFunction, SumFunctionOnSet, FoldFunctionOnSet, MapThenFoldSet

LEMMA LossesCardinality == \A S : Pprz!Cardinality(S) = Cardinality(S)
  BY DEF Pprz!Cardinality, Cardinality

Row == [node : Visitor, lost : Nat, absent : BOOLEAN]

\* What LossesPaired is about, of any rows and any report of absences.
RowsOf(lines_, n) == {i \in DOMAIN lines_ : lines_[i].node = n}
LostOf(lines_, n) == [i \in RowsOf(lines_, n) |-> lines_[i].lost]
LastingOf(lines_, n) == {i \in RowsOf(lines_, n) : lines_[i].absent}
ClosedOf(ended, n) == {k \in DOMAIN ended : ended[k] = n}
Paired(lines_, ended, n) ==
  SumFunction(LostOf(lines_, n)) = Cardinality(ClosedOf(ended, n)) + Cardinality(LastingOf(lines_, n))

LEMMA RowsFinite ==
  ASSUME NEW s \in Seq(Row), NEW n
  PROVE  /\ IsFiniteSet(RowsOf(s, n)) /\ LostOf(s, n) \in [RowsOf(s, n) -> Int]
         /\ IsFiniteSet(LastingOf(s, n)) /\ Cardinality(LastingOf(s, n)) \in Nat
<1>1. DOMAIN s = 1 .. Len(s) /\ Len(s) \in Nat
  OBVIOUS
<1>2. IsFiniteSet(DOMAIN s)
  BY <1>1, FS_Interval
<1>3. RowsOf(s, n) \subseteq DOMAIN s /\ LastingOf(s, n) \subseteq RowsOf(s, n)
  BY DEF RowsOf, LastingOf
<1>4. IsFiniteSet(RowsOf(s, n)) /\ IsFiniteSet(LastingOf(s, n))
  BY <1>2, <1>3, FS_Subset
<1>5. \A i \in RowsOf(s, n) : s[i].lost \in Int
  <2>1. \A i \in DOMAIN s : s[i] \in Row
    OBVIOUS
  <2> QED
    BY <2>1 DEF RowsOf, Row
<1> QED
  BY <1>4, <1>5, FS_CardinalityType DEF LostOf

LEMMA EndsFinite ==
  ASSUME NEW e \in Seq(Visitor), NEW n
  PROVE  IsFiniteSet(ClosedOf(e, n)) /\ Cardinality(ClosedOf(e, n)) \in Nat
<1>1. DOMAIN e = 1 .. Len(e) /\ Len(e) \in Nat
  OBVIOUS
<1>2. IsFiniteSet(DOMAIN e)
  BY <1>1, FS_Interval
<1>3. ClosedOf(e, n) \subseteq DOMAIN e
  BY DEF ClosedOf
<1> QED
  BY <1>2, <1>3, FS_Subset, FS_CardinalityType

\* An absence ends, and is reported.
LEMMA AbsenceEnds ==
  ASSUME NEW s \in Seq(Row), NEW t \in Seq(Row), NEW e \in Seq(Visitor), NEW i \in DOMAIN s,
         s[i].absent, t = [s EXCEPT ![i].absent = FALSE], NEW n, Paired(s, e, n)
  PROVE  Paired(t, Append(e, s[i].node), n)
<1>1. /\ DOMAIN t = DOMAIN s /\ t[i].node = s[i].node /\ t[i].lost = s[i].lost /\ ~t[i].absent
      /\ \A j \in DOMAIN s : j # i => t[j] = s[j]
  <2>1. PICK r \in Row : r = s[i]
    OBVIOUS
  <2>2. DOMAIN t = DOMAIN s /\ t[i] = [r EXCEPT !.absent = FALSE] /\ \A j \in DOMAIN s : j # i => t[j] = s[j]
    BY <2>1
  <2> QED
    BY <2>1, <2>2 DEF Row
<1>2. RowsOf(t, n) = RowsOf(s, n) /\ LostOf(t, n) = LostOf(s, n)
  BY <1>1 DEF RowsOf, LostOf
<1> DEFINE a == Append(e, s[i].node)
<1>3. DOMAIN a = DOMAIN e \cup {Len(e) + 1} /\ Len(e) + 1 \notin DOMAIN e
      /\ a[Len(e) + 1] = s[i].node /\ \A k \in DOMAIN e : a[k] = e[k]
  BY DEF Row
<1> HIDE DEF a
<1>4. CASE s[i].node = n
  <2>1. i \in LastingOf(s, n) /\ LastingOf(t, n) = LastingOf(s, n) \ {i}
    BY <1>1, <1>4 DEF LastingOf, RowsOf
  <2>2. Len(e) + 1 \notin ClosedOf(e, n) /\ ClosedOf(a, n) = ClosedOf(e, n) \cup {Len(e) + 1}
    BY <1>3, <1>4 DEF ClosedOf
  <2>3. Cardinality(LastingOf(t, n)) = Cardinality(LastingOf(s, n)) - 1
    BY <2>1, RowsFinite, FS_RemoveElement
  <2>4. Cardinality(ClosedOf(a, n)) = Cardinality(ClosedOf(e, n)) + 1
    BY <2>2, EndsFinite, FS_AddElement
  <2> QED
    BY <1>2, <2>3, <2>4, RowsFinite, EndsFinite DEF Paired, a
<1>5. CASE s[i].node # n
  <2>1. LastingOf(t, n) = LastingOf(s, n)
    BY <1>1, <1>5 DEF LastingOf, RowsOf
  <2>2. ClosedOf(a, n) = ClosedOf(e, n)
    BY <1>3, <1>5 DEF ClosedOf
  <2> QED
    BY <1>2, <2>1, <2>2 DEF Paired, a
<1> QED
  BY <1>4, <1>5

\* A node that is there is lost.
LEMMA LossBegins ==
  ASSUME NEW s \in Seq(Row), NEW t \in Seq(Row), NEW e \in Seq(Visitor), NEW i, i \in DOMAIN s,
         ~s[i].absent, t = [s EXCEPT ![i].lost = @ + 1, ![i].absent = TRUE],
         NEW n, Paired(s, e, n)
  PROVE  Paired(t, e, n)
<1>1. /\ DOMAIN t = DOMAIN s /\ t[i].node = s[i].node /\ t[i].lost = s[i].lost + 1 /\ t[i].absent
      /\ \A j \in DOMAIN s : j # i => t[j] = s[j]
  <2>1. PICK r \in Row : r = s[i]
    OBVIOUS
  <2>2. DOMAIN t = DOMAIN s /\ \A j \in DOMAIN s : j # i => t[j] = s[j]
    OBVIOUS
  <2>3. t[i] = [[r EXCEPT !.lost = r.lost + 1] EXCEPT !.absent = TRUE]
    BY <2>1 DEF Row
  <2> QED
    BY <2>1, <2>2, <2>3 DEF Row
<1>2. RowsOf(t, n) = RowsOf(s, n)
  BY <1>1 DEF RowsOf
<1>3. CASE s[i].node = n
  <2>1. i \notin LastingOf(s, n) /\ LastingOf(t, n) = LastingOf(s, n) \cup {i}
    BY <1>1, <1>3 DEF LastingOf, RowsOf
  <2>2. Cardinality(LastingOf(t, n)) = Cardinality(LastingOf(s, n)) + 1
    BY <2>1, RowsFinite, FS_AddElement
  <2>3. PICK D : D = RowsOf(s, n)
    OBVIOUS
  <2>4. PICK f \in [D -> Int], g \in [D -> Int] : f = LostOf(s, n) /\ g = LostOf(t, n)
    BY <1>2, <2>3, RowsFinite
  <2>5. i \in D /\ g[i] = f[i] + 1 /\ \A j \in D \ {i} : g[j] = f[j]
    BY <1>1, <1>2, <1>3, <2>3, <2>4 DEF LostOf, RowsOf
  <2>6. IsFiniteSet(D)
    BY <2>3, RowsFinite
  <2>7. SumFunction(g) = SumFunction(f) - f[i] + g[i]
    <3>1. f \in [D -> Int] /\ g \in [D -> Int]
      BY <2>4
    <3>2. i \in D
      BY <2>5
    <3>3. \A y \in D \ {i} : g[y] = f[y]
      BY <2>5
    <3> QED
      BY ONLY <3>1, <3>2, <3>3, <2>6, SumChanged
  <2>8. PICK v \in Int, w \in Int : v = SumFunction(f) /\ w = f[i]
    BY <2>4, <2>5, <2>6, SumInt
  <2>9. SumFunction(g) = v + 1
    BY <2>5, <2>7, <2>8
  <2>10. PICK c \in Nat, k \in Nat :
           c = Cardinality(ClosedOf(e, n)) /\ k = Cardinality(LastingOf(s, n))
    BY RowsFinite, EndsFinite
  <2>11. v = c + k
    BY <2>4, <2>8, <2>10 DEF Paired
  <2>12. SumFunction(LostOf(t, n)) = v + 1
    BY ONLY <2>4, <2>9, Zenon
  <2> QED
    BY <2>2, <2>10, <2>11, <2>12 DEF Paired
<1>4. CASE s[i].node # n
  <2>1. LastingOf(t, n) = LastingOf(s, n) /\ LostOf(t, n) = LostOf(s, n)
    BY <1>1, <1>2, <1>4 DEF LastingOf, RowsOf, LostOf
  <2> QED
    BY <2>1 DEF Paired
<1> QED
  BY <1>3, <1>4

\* A node that was not found gets a row, perhaps a second one.
LEMMA RowAdded ==
  ASSUME NEW s, s \in Seq(Row), NEW t, t \in Seq(Row), NEW e, e \in Seq(Visitor),
         NEW m, m \in Visitor,
         t = Append(s, [node |-> m, lost |-> 0, absent |-> FALSE]),
         NEW n, Paired(s, e, n)
  PROVE  Paired(t, e, n)
<1>1. PICK x : x = Len(s) + 1
  OBVIOUS
<1>2. /\ DOMAIN t = DOMAIN s \cup {x} /\ x \notin DOMAIN s
      /\ t[x].node = m /\ t[x].lost = 0 /\ ~t[x].absent
      /\ \A j \in DOMAIN s : t[j] = s[j]
  BY <1>1
<1>3. LastingOf(t, n) = LastingOf(s, n)
  BY <1>2 DEF LastingOf, RowsOf
<1>4. CASE m = n
  <2>1. PICK D : D = RowsOf(t, n)
    OBVIOUS
  <2>0. PICK E : E = RowsOf(s, n)
    OBVIOUS
  <2>2. x \in D /\ E = D \ {x}
    BY <1>2, <1>4, <2>0, <2>1 DEF RowsOf
  <2>3. PICK g \in [D -> Int], f \in [E -> Int] : g = LostOf(t, n) /\ f = LostOf(s, n)
    BY <2>0, <2>1, RowsFinite
  <2>4. g[x] = 0 /\ \A j \in E : g[j] = f[j]
    BY <1>2, <2>0, <2>1, <2>2, <2>3 DEF LostOf, RowsOf
  <2>5. IsFiniteSet(D) /\ IsFiniteSet(E)
    BY <2>0, <2>1, RowsFinite
  <2>6. SumFunction(g) = SumFunction(f) + g[x]
    <3>1. IsFiniteSet(D)
      BY <2>5
    <3> QED
      BY ONLY <2>2, <2>3, <2>4, <3>1, SumExtended
  <2>7. SumFunction(g) = SumFunction(f)
    BY <2>3, <2>4, <2>5, <2>6, SumInt
  <2> QED
    BY <1>3, <2>3, <2>7 DEF Paired
<1>5. CASE m # n
  <2>1. RowsOf(t, n) = RowsOf(s, n) /\ LostOf(t, n) = LostOf(s, n)
    BY <1>2, <1>5 DEF RowsOf, LostOf
  <2> QED
    BY <1>3, <2>1 DEF Paired
<1> QED
  BY <1>4, <1>5

-----------------------------------------------------------------------------
Sighting == [node : Visitor, age : Int]

\* Besides LossesPaired: the analysis stays within the rows ever seen, which only
\* grow, wherever those visible go.
LossInv ==
  /\ visible \in Seq(Sighting)
  /\ everVisible \in Seq(Row)
  /\ visibilityLost \in Seq(Visitor)
  /\ member \in Nat \ {0} /\ ever \in Nat \ {0}
  /\ analysis \in {"compare", "search"} => ever <= Len(everVisible)
  /\ \A n \in Visitor : Paired(everVisible, visibilityLost, n)

LEMMA LossesStep == [Next]_vars => [Pprz!Next]_visibilityVars
  BY DEF Next, Others, vars

LEMMA LossesInit == Init => LossInv
<1> SUFFICES ASSUME Init PROVE LossInv
  OBVIOUS
<1>1. /\ visible = << >> /\ everVisible = << >> /\ visibilityLost = << >>
      /\ member = 1 /\ ever = 1 /\ analysis = "idle"
  BY DEF Init, Pprz!Init
<1>2. ASSUME NEW n \in Visitor PROVE Paired(<< >>, << >>, n)
  <2>1. RowsOf(<< >>, n) = {} /\ LastingOf(<< >>, n) = {} /\ ClosedOf(<< >>, n) = {}
    BY DEF RowsOf, LastingOf, ClosedOf
  <2>2. PICK f \in [{} -> Int] : f = LostOf(<< >>, n)
    BY <2>1 DEF LostOf
  <2>3. SumFunction(f) = 0
    BY SumEmpty
  <2> QED
    BY <2>1, <2>2, <2>3, FS_EmptySet DEF Paired
<1> QED
  BY <1>1, <1>2 DEF LossInv

LEMMA HeardKeeps ==
  ASSUME LossInv, NEW n \in Visitor, Pprz!PacketHandler(n)
  PROVE  visible' \in Seq(Sighting)
<1>1. CASE \E i \in DOMAIN visible : visible[i].node = n
  <2>1. PICK i : visible' = [visible EXCEPT ![i].age = 0]
    BY <1>1 DEF Pprz!PacketHandler
  <2>2. visible \in [1 .. Len(visible) -> Sighting] /\ Len(visible) \in Nat
    BY DEF LossInv
  <2>4. \A r \in Sighting : [r EXCEPT !.age = 0] \in Sighting
    BY DEF Sighting
  <2>3. visible' \in [1 .. Len(visible) -> Sighting]
    BY <2>1, <2>2, <2>4
  <2> QED
    BY <2>2, <2>3
<1>2. CASE ~ \E i \in DOMAIN visible : visible[i].node = n
  <2>1. [node |-> n, age |-> 0] \in Sighting
    BY DEF Sighting
  <2>2. visible' = Append(visible, [node |-> n, age |-> 0])
    BY <1>2 DEF Pprz!PacketHandler
  <2> QED
    BY <2>1, <2>2, AppendProperties DEF LossInv
<1> QED
  BY <1>1, <1>2

LEMMA SweepKeeps ==
  ASSUME LossInv, Pprz!UpdateVisible
  PROVE  visible' \in Seq(Sighting)
<1> DEFINE I == {j \in 1 .. Len(visible) : visible[j].age > VisibleTimeout}
<1>1. PICK i : /\ i = (IF I # {} THEN Pprz!Min(I) ELSE 0)
               /\ i # 0 /\ visible' = Pprz!RemoveAt(visible, i)
  BY DEF Pprz!UpdateVisible, Pprz!SelectInSeq
<1>2. Len(visible) \in Nat /\ \A j \in 1 .. Len(visible) : visible[j] \in Sighting
  BY DEF LossInv
<1>3. I # {} /\ I \subseteq Int /\ IsFiniteSet(I)
  <2>1. IsFiniteSet(1 .. Len(visible)) /\ I \subseteq 1 .. Len(visible)
    BY <1>2, FS_Interval
  <2> QED
    BY <1>1, <1>2, <2>1, FS_Subset
<1>4. i \in I
  <2> HIDE DEF I
  <2>1. \E x \in I : \A y \in I : x <= y
    BY <1>3, Extremes
  <2> QED
    BY <1>1, <1>3, <2>1 DEF Pprz!Min
<1>5. i \in 1 .. Len(visible)
  BY <1>4
<1> HIDE DEF I
<1>6. SubSeq(visible, 1, i - 1) \in Seq(Sighting)
  BY <1>2, <1>5, SubSeqProperties
<1>7. SubSeq(visible, i + 1, Len(visible)) \in Seq(Sighting)
  BY <1>2, <1>5, SubSeqProperties
<1> QED
  BY <1>1, <1>6, <1>7, ConcatProperties DEF Pprz!RemoveAt

LEMMA TickKeeps ==
  ASSUME LossInv, Pprz!Tick
  PROVE  visible' \in Seq(Sighting)
<1>1. Len(visible) \in Nat /\ DOMAIN visible = 1 .. Len(visible)
      /\ \A j \in 1 .. Len(visible) : visible[j] \in Sighting
  BY DEF LossInv
<1>2. \A r \in Sighting :
        [r EXCEPT !.age = IF r.age > VisibleTimeout THEN r.age ELSE r.age + 1] \in Sighting
  BY DEF Sighting
<1>3. visible' \in [1 .. Len(visible) -> Sighting]
  BY <1>1, <1>2 DEF Pprz!Tick
<1> QED
  BY <1>1, <1>3

\* The rows and the report after a step of the first loop.
LEMMA CompareRows ==
  ASSUME LossInv, Pprz!Compare, ~ (member > Len(visible))
  PROVE  /\ everVisible' \in Seq(Row) /\ Len(everVisible') = Len(everVisible)
         /\ visibilityLost' \in Seq(Visitor)
         /\ \A n \in Visitor : Paired(everVisible, visibilityLost, n)'
<1>1. ever \in DOMAIN everVisible /\ everVisible[ever] \in Row
  BY DEF LossInv, Pprz!Compare
<1> DEFINE same == visible[member].node = everVisible[ever].node
<1>2. /\ visibilityLost' = IF same /\ everVisible[ever].absent
                           THEN Append(visibilityLost, everVisible[ever].node) ELSE visibilityLost
      /\ everVisible' = IF same THEN [everVisible EXCEPT ![ever].absent = FALSE] ELSE everVisible
  BY DEF Pprz!Compare
<1>3. CASE same /\ everVisible[ever].absent
  <2>1. PICK s, t, e, i :
          /\ s = everVisible /\ t = [s EXCEPT ![i].absent = FALSE] /\ e = visibilityLost
          /\ i = ever /\ everVisible' = t /\ visibilityLost' = Append(e, s[i].node)
    BY <1>2, <1>3
  <2>2. s \in Seq(Row) /\ e \in Seq(Visitor) /\ i \in DOMAIN s /\ s[i] \in Row /\ s[i].absent
    BY <1>1, <1>3, <2>1 DEF LossInv
  <2>3. t \in Seq(Row) /\ Len(t) = Len(s) /\ Append(e, s[i].node) \in Seq(Visitor)
    <3>1. [s[i] EXCEPT !.absent = FALSE] \in Row /\ s[i].node \in Visitor
      BY <2>2 DEF Row
    <3> QED
      BY <2>1, <2>2, <3>1
  <2>4. \A n \in Visitor : Paired(s, e, n)
    BY <2>1 DEF LossInv
  <2>5. \A n \in Visitor : Paired(t, Append(e, s[i].node), n)
    BY <2>1, <2>2, <2>3, <2>4, AbsenceEnds
  <2> QED
    BY <2>1, <2>3, <2>5
<1>4. CASE ~ (same /\ everVisible[ever].absent)
  <2>1. everVisible' = everVisible
    <3>1. PICK r \in Row : r = everVisible[ever]
      BY <1>1
    <3>2. ~r.absent => [r EXCEPT !.absent = FALSE] = r
      BY DEF Row
    <3>3. same => [everVisible EXCEPT ![ever].absent = FALSE] = everVisible
      BY <1>1, <1>4, <3>1, <3>2 DEF LossInv
    <3> QED
      BY <1>2, <3>3
  <2> QED
    BY <1>2, <1>4, <2>1 DEF LossInv
<1> QED
  BY <1>3, <1>4

LEMMA CompareKeeps == ASSUME LossInv, Pprz!Compare PROVE LossInv'
<1>1. CASE member > Len(visible)
  BY <1>1 DEF Pprz!Compare, Pprz!IndexError, LossInv, Pprz!indices
<1>2. CASE ~ (member > Len(visible))
  <2>1. /\ everVisible' \in Seq(Row) /\ Len(everVisible') = Len(everVisible)
        /\ visibilityLost' \in Seq(Visitor)
        /\ \A n \in Visitor : Paired(everVisible, visibilityLost, n)'
    BY <1>2, CompareRows
  <2>2. Len(everVisible) \in Nat /\ ever <= Len(everVisible)
    BY DEF LossInv, Pprz!Compare
  <2>3. /\ visible' = visible
        /\ \/ ever' = ever + 1 /\ UNCHANGED member /\ ever < Len(everVisible)
           \/ member' = member + 1 /\ ever' = 1
           \/ member' = 1 /\ ever' = 1
           \/ UNCHANGED <<member, ever>>
    BY <1>2 DEF Pprz!Compare, Pprz!NextMember, Pprz!Second, Pprz!indices
  <2> QED
    BY <2>1, <2>2, <2>3 DEF LossInv
<1> QED
  BY <1>1, <1>2

\* found == 0
LEMMA AppendKeeps == ASSUME LossInv, Pprz!AppendEver PROVE LossInv'
<1>1. CASE member > Len(visible)
  BY <1>1 DEF Pprz!AppendEver, Pprz!IndexError, LossInv, Pprz!indices
<1>2. CASE ~ (member > Len(visible))
  <2>1. PICK s, t, e, m :
          /\ s = everVisible /\ e = visibilityLost /\ m = visible[member].node
          /\ t = Append(s, [node |-> m, lost |-> 0, absent |-> FALSE])
          /\ everVisible' = t /\ visibilityLost' = e
    BY <1>2 DEF Pprz!AppendEver
  <2>2. s \in Seq(Row) /\ e \in Seq(Visitor) /\ \A n \in Visitor : Paired(s, e, n)
    BY <2>1 DEF LossInv
  <2>3. m \in Visitor
    <3>1. member \in 1 .. Len(visible) /\ visible[member] \in Sighting
      BY <1>2 DEF LossInv
    <3> QED
      BY <2>1, <3>1 DEF Sighting
  <2>4. t \in Seq(Row) /\ Len(t) = Len(s) + 1 /\ Len(s) \in Nat
    <3>1. [node |-> m, lost |-> 0, absent |-> FALSE] \in Row
      BY <2>3 DEF Row
    <3> QED
      BY <2>1, <2>2, <3>1, AppendProperties
  <2>5. \A n \in Visitor : Paired(t, e, n)
    BY <2>1, <2>2, <2>3, <2>4, RowAdded
  <2>6. /\ visible' = visible /\ ever' = 1
        /\ member' = member + 1 \/ member' = 1
    BY <1>2 DEF Pprz!AppendEver, Pprz!NextMember, Pprz!Second
  <2>7. everVisible' \in Seq(Row) /\ 1 <= Len(everVisible') /\ visibilityLost' \in Seq(Visitor)
    BY <2>1, <2>2, <2>4
  <2>8. \A n \in Visitor : Paired(everVisible, visibilityLost, n)'
    BY <2>1, <2>5
  <2> QED
    BY <2>6, <2>7, <2>8 DEF LossInv
<1> QED
  BY <1>1, <1>2

\* A step of the second loop.
LEMMA SearchKeeps == ASSUME LossInv, Pprz!Search PROVE LossInv'
<1>0. ever \in DOMAIN everVisible /\ everVisible[ever] \in Row /\ Len(everVisible) \in Nat
  BY DEF LossInv, Pprz!Search
<1>1. CASE member <= bound
  <2>1. /\ UNCHANGED <<visible, everVisible, visibilityLost, ever>>
        /\ member' = member + 1 \/ member' = member
    BY <1>1 DEF Pprz!Search, Pprz!IndexError, Pprz!indices
  <2> QED
    BY <1>0, <2>1 DEF LossInv
<1>2. CASE ~ (member <= bound)
  <2>1. /\ UNCHANGED <<visible, visibilityLost>>
        /\ \/ ever' = ever /\ member' = member
           \/ ever # Len(everVisible) /\ ever' = ever + 1 /\ member' = 1
    BY <1>2 DEF Pprz!Search, Pprz!indices
  <2>2. /\ everVisible' \in Seq(Row) /\ Len(everVisible') = Len(everVisible)
        /\ \A n \in Visitor : Paired(everVisible, visibilityLost, n)'
    <3>1. CASE ~found /\ ~everVisible[ever].absent
      <4>1. PICK s, t, e, i :
              /\ s = everVisible /\ e = visibilityLost /\ i = ever
              /\ t = [s EXCEPT ![i].lost = @ + 1, ![i].absent = TRUE]
              /\ everVisible' = t /\ visibilityLost' = e
        BY <1>2, <2>1, <3>1 DEF Pprz!Search
      <4>2. s \in Seq(Row) /\ e \in Seq(Visitor) /\ i \in DOMAIN s /\ s[i] \in Row /\ ~s[i].absent
        BY <1>0, <3>1, <4>1 DEF LossInv
      <4>3. t \in Seq(Row) /\ Len(t) = Len(s)
        <5>0. PICK r \in Row : r = s[i]
          BY <4>2
        <5>1. PICK u \in Row : u = [r EXCEPT !.lost = r.lost + 1]
          <6>1. r.lost + 1 \in Nat
            BY DEF Row
          <6> HIDE DEF Row
          <6>2. [r EXCEPT !.lost = r.lost + 1] \in Row
            BY <6>1 DEF Row
          <6> QED
            BY <6>2
        <5>2. [u EXCEPT !.absent = TRUE] \in Row
          BY DEF Row
        <5>3. t = [s EXCEPT ![i] = [u EXCEPT !.absent = TRUE]]
          BY <4>1, <4>2, <5>0, <5>1
        <5> QED
          BY <4>2, <5>2, <5>3
      <4>4. \A n \in Visitor : Paired(s, e, n)
        BY <4>1 DEF LossInv
      <4>5. \A n \in Visitor : Paired(t, e, n)
        BY <4>1, <4>2, <4>3, <4>4, LossBegins
      <4> QED
        BY <4>1, <4>3, <4>5
    <3>2. CASE ~ (~found /\ ~everVisible[ever].absent)
      <4>1. everVisible' = everVisible
        BY <1>2, <3>2 DEF Pprz!Search
      <4> QED
        BY <2>1, <4>1 DEF LossInv
    <3> QED
      BY <3>1, <3>2
  <2> QED
    BY <1>0, <2>1, <2>2 DEF LossInv
<1> QED
  BY <1>1, <1>2

LEMMA LossesKeeps == LossInv /\ [Pprz!Next]_visibilityVars => LossInv'
<1> SUFFICES ASSUME LossInv, [Pprz!Next]_visibilityVars PROVE LossInv'
  OBVIOUS
<1>1. ASSUME NEW n \in Visitor, Pprz!PacketHandler(n) PROVE LossInv'
  <2>1. visible' \in Seq(Sighting)
    BY <1>1, HeardKeeps
  <2> QED
    BY <1>1, <2>1 DEF Pprz!PacketHandler, LossInv, Pprz!indices
<1>2. ASSUME Pprz!UpdateVisible PROVE LossInv'
  <2>1. visible' \in Seq(Sighting)
    BY <1>2, SweepKeeps
  <2> QED
    BY <1>2, <2>1 DEF Pprz!UpdateVisible, LossInv, Pprz!indices
<1>3. ASSUME Pprz!Tick PROVE LossInv'
  <2>1. visible' \in Seq(Sighting)
    BY <1>3, TickKeeps
  <2> QED
    BY <1>3, <2>1 DEF Pprz!Tick, LossInv, Pprz!indices
<1>4. ASSUME Pprz!Analyse PROVE LossInv'
  BY <1>4 DEF Pprz!Analyse, Pprz!Second, LossInv
<1>5. CASE UNCHANGED visibilityVars
  BY <1>5 DEF visibilityVars, LossInv
<1> QED
  BY <1>1, <1>2, <1>3, <1>4, <1>5, CompareKeeps, AppendKeeps, SearchKeeps DEF Pprz!Next

\* Each loss of a node is closed by one absence in the report, except those that
\* last, although rows come and go under the indices of the analysis and a node
\* may even get a second row in everVisible.
THEOREM LossesClosed == Spec => []LossesPaired
<1>1. LossInv => LossesPaired
  <2>1. \A n : Pprz!Rows(n) = RowsOf(everVisible, n)
    BY DEF Pprz!Rows, RowsOf
  <2> QED
    BY <2>1, LossesSum, LossesCardinality
    DEF LossInv, LossesPaired, Pprz!LossesPaired, Paired, LostOf, LastingOf, ClosedOf
<1> QED
  BY <1>1, LossesInit, LossesStep, LossesKeeps, PTL DEF Spec

=============================================================================
