------------------------------ MODULE UtmServer ------------------------------
(* The UTM servers of the wind farm (utm_server_etcd.py).  Each drone runs   *)
(* one: it records the turbine it flies over in data_bank, a job writes what *)
(* is not yet synchronized to etcd, and a watch on etcd copies what others   *)
(* wrote.  The jobs and the watch are threads over the same dictionaries.    *)
(*                                                                           *)
(* A record is known by the server that inspected.  Turbines are further     *)
(* apart than the sensor reaches: a position is over one of them, or none.   *)
EXTENDS Integers, Sequences, FiniteSets

CONSTANTS
  Server,
  Turbine,     \* wt_coordinates
  Fallback,    \* the turbine next to [100, 100, 100]
  Instances,   \* concurrent write jobs of a server (max_instances)
  MaxOutages   \* times a server loses etcd (a bound)

None == "none"
Pending == "pending"     \* status False; such a record is always the server's own

VARIABLES
  position,  \* surface_position
  found,     \* the turbine compare_distances is about to record
  bank,      \* data_bank: None, Pending, or the inspector of a record with status True
  job,       \* the write jobs: what is left of unsynced_data, and the key to put
  listed,    \* data_bank_etcd, which becomes the report
  over,      \* the session has ended and the report is written
  store,     \* etcd: the inspector of each turbine's record
  events,    \* the puts a server's watch has still to deliver
  reach,     \* the server reaches etcd
  outages

utmVars == <<position, found, bank, job, listed, over, store, events, reach, outages>>

Idle == [todo |-> {}, put |-> None]

Init ==
  /\ position = [s \in Server |-> "unset"]       \* [0,0]: compare_distances cannot unpack it
  /\ found = [s \in Server |-> None]
  /\ bank = [s \in Server |-> [w \in Turbine |-> None]]
  /\ job = [s \in Server |-> [i \in Instances |-> Idle]]
  /\ listed = [s \in Server |-> [w \in Turbine |-> None]]
  /\ over = [s \in Server |-> FALSE]
  /\ store = [w \in Turbine |-> None]
  /\ events = [s \in Server |-> <<>>]
  /\ reach = [s \in Server |-> TRUE] /\ outages = 0

-----------------------------------------------------------------------------
\* The position of an invalid reading is replaced by [100,100,100].
Fixed(reading) == IF reading = "invalid" THEN Fallback ELSE reading

UavPositionUpdate(s) ==
  /\ ~over[s]
  /\ \E reading \in Turbine \cup {"away", "invalid"} :
       position' = [position EXCEPT ![s] = Fixed(reading)]
  /\ UNCHANGED <<found, bank, job, listed, over, store, events, reach, outages>>

\* compare_distances looks the turbine up in data_bank (until the job's end_date,
\* after which the drone might as well be away),
CompareDistances(s) ==
  /\ ~over[s] /\ found[s] = None
  /\ position[s] \in Turbine
  /\ bank[s][position[s]] = None
  /\ found' = [found EXCEPT ![s] = position[s]]
  /\ UNCHANGED <<position, bank, job, listed, over, store, events, reach, outages>>

\* and records it, over what the watch may have put there meanwhile.
RecordFound(s) ==
  /\ found[s] # None
  /\ bank' = [bank EXCEPT ![s][found[s]] = Pending]
  /\ found' = [found EXCEPT ![s] = None]
  /\ UNCHANGED <<position, job, listed, over, store, events, reach, outages>>

-----------------------------------------------------------------------------
\* write_to_etcd: unsynced_data is a copy.
CollectUnsynced(s, i) ==
  /\ ~over[s] /\ job[s][i] = Idle
  /\ LET unsynced == {w \in Turbine : bank[s][w] = Pending} IN
       /\ unsynced # {}
       /\ job' = [job EXCEPT ![s][i].todo = unsynced]
  /\ UNCHANGED <<position, found, bank, listed, over, store, events, reach, outages>>

\* Slip: a record that is in etcd already is passed over.
AskPassesOver(s, i, w) ==
  /\ w \in job[s][i].todo /\ job[s][i].put = None
  /\ job' = [job EXCEPT ![s][i] =
       [todo |-> @.todo \ {w}, put |-> IF reach[s] /\ store[w] = None THEN w ELSE None]]
  /\ UNCHANGED <<position, found, bank, listed, over, store, events, reach, outages>>

\* status() and get(): without etcd the key is passed over, without a value it
\* is put, and with one the own record is marked.
Ask(s, i, w) ==
  /\ w \in job[s][i].todo /\ job[s][i].put = None
  /\ job' = [job EXCEPT ![s][i] =
       [todo |-> @.todo \ {w}, put |-> IF reach[s] /\ store[w] = None THEN w ELSE None]]
  /\ bank' = [bank EXCEPT ![s][w] = IF reach[s] /\ store[w] # None THEN s ELSE @]
  /\ UNCHANGED <<position, found, listed, over, store, events, reach, outages>>

\* Slip: the record is marked whether the put succeeds or not.
PutMarks(s, i) ==
  LET w == job[s][i].put IN
  /\ w # None
  /\ IF reach[s]
     THEN /\ store' = [store EXCEPT ![w] = s]
          /\ events' = [t \in Server |-> Append(events[t], w)]
     ELSE UNCHANGED <<store, events>>
  /\ bank' = [bank EXCEPT ![s][w] = s]
  /\ job' = [job EXCEPT ![s][i].put = None]
  /\ UNCHANGED <<position, found, listed, over, reach, outages>>

\* put(): succeeds, fails, or takes effect although the client gives up.  A
\* failure writes the own record back, a success leaves data_bank to the watch.
Put(s, i) ==
  LET w == job[s][i].put IN
  /\ w # None
  /\ \E applied, failed \in BOOLEAN :
       /\ applied \/ failed
       /\ failed <=> ~reach[s]
       /\ IF applied
          THEN /\ store' = [store EXCEPT ![w] = s]
               /\ events' = [t \in Server |-> Append(events[t], w)]
          ELSE UNCHANGED <<store, events>>
       /\ bank' = [bank EXCEPT ![s][w] = IF failed THEN Pending ELSE @]
  /\ job' = [job EXCEPT ![s][i].put = None]
  /\ UNCHANGED <<position, found, listed, over, reach, outages>>

-----------------------------------------------------------------------------
\* etcd_callback: reads the value anew.  A failed read, or failed metrics, lose
\* the event.  The second event of a key raises (data_str is unbound), so that
\* the update of data_bank belongs to the first.  (A response of the watch has
\* one event: a server that keeps up is sent each put by itself.)
EtcdCallback(s) ==
  /\ ~over[s] /\ events[s] # <<>>
  /\ LET w == Head(events[s])
         new == reach[s] /\ listed[s][w] = None
     IN /\ listed' = [listed EXCEPT ![s][w] = IF new THEN store[w] ELSE @]
        /\ bank' = [bank EXCEPT ![s][w] =
             IF new /\ @ \in {None, Pending} THEN store[w] ELSE @]
  /\ events' = [events EXCEPT ![s] = Tail(@)]
  /\ UNCHANGED <<position, found, job, over, store, reach, outages>>

\* The end of __init__: save_to_file writes data_bank_etcd and closes etcd.
SaveToFile(s) ==
  /\ ~over[s] /\ over' = [over EXCEPT ![s] = TRUE]
  /\ reach' = [reach EXCEPT ![s] = FALSE]
  /\ UNCHANGED <<position, found, bank, job, listed, store, events, outages>>

LoseEtcd(s) ==
  /\ reach[s] /\ outages < MaxOutages
  /\ reach' = [reach EXCEPT ![s] = FALSE] /\ outages' = outages + 1
  /\ UNCHANGED <<position, found, bank, job, listed, over, store, events>>

RegainEtcd(s) ==
  /\ ~reach[s] /\ ~over[s]
  /\ reach' = [reach EXCEPT ![s] = TRUE]
  /\ UNCHANGED <<position, found, bank, job, listed, over, store, events, outages>>

WriteJob(s, i) ==
  CollectUnsynced(s, i) \/ (\E w \in Turbine : Ask(s, i, w)) \/ Put(s, i)

Next ==
  \E s \in Server :
    \/ UavPositionUpdate(s) \/ CompareDistances(s) \/ RecordFound(s)
    \/ \E i \in Instances : WriteJob(s, i)
    \/ EtcdCallback(s) \/ SaveToFile(s) \/ LoseEtcd(s) \/ RegainEtcd(s)

\* The scheduler goes on firing the write jobs, and etcd comes back.
Fairness ==
  \A s \in Server :
    /\ WF_utmVars(RegainEtcd(s)) /\ WF_utmVars(RecordFound(s)) /\ WF_utmVars(EtcdCallback(s))
    /\ \A i \in Instances : WF_utmVars(WriteJob(s, i))

Spec == Init /\ [][Next]_utmVars /\ Fairness

-----------------------------------------------------------------------------
\* A record with status True is in etcd: no interleaving of the write jobs, the
\* watch and an overwriting compare_distances, and no put that fails or fails
\* after its effect, marks a turbine that the store does not have.
SyncedIsStored ==
  \A s \in Server, w \in Turbine : bank[s][w] \in Server => store[w] # None

\* A server claims what it is about to record, what its data_bank has as its own,
\* and what its jobs still hold.
Claims == [w \in Turbine |-> {s \in Server :
  \/ found[s] = w \/ bank[s][w] \in {Pending, s}
  \/ \E i \in Instances : w \in job[s][i].todo \/ job[s][i].put = w}]
Marked == [s \in Server |-> {w \in Turbine : bank[s][w] \in Server}]

\* The servers implement the store of inspections: whatever the jobs, the watch
\* and failures do to each other, an inspection is held by its server until etcd
\* has a record of the turbine, etcd names only servers that were there, and what
\* is marked or reported is in etcd.
Abstract == INSTANCE Inspections WITH claims <- Claims, marked <- Marked, report <- listed
ImplementsInspections == Abstract!Spec

\* A turbine once recorded is synchronized in the end, however often writing it
\* failed or the event that would have told of it was lost, if the session lasts.
Synchronized ==
  \A s \in Server, w \in Turbine :
    bank[s][w] = Pending ~> (bank[s][w] \in Server \/ over[s])
=============================================================================
