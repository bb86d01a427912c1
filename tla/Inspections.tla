----------------------------- MODULE Inspections -----------------------------
(* What the UTM servers of the wind farm promise together.  A server that has *)
(* flown over a turbine claims to have inspected it, and keeps its claim      *)
(* until the store has a record of the turbine; what a server takes for       *)
(* synchronized, and what it reports, comes from the store.                   *)
CONSTANTS Server, Turbine, None

VARIABLES
  claims,    \* the servers that claim to have inspected a turbine
  store,     \* the server that a turbine's record names, or None
  marked,    \* the turbines a server takes for synchronized
  report     \* the records a server reports

vars == <<claims, store, marked, report>>

Init ==
  /\ claims = [w \in Turbine |-> {}] /\ store = [w \in Turbine |-> None]
  /\ marked = [s \in Server |-> {}]
  /\ report = [s \in Server |-> [w \in Turbine |-> None]]

Claim(s, w) ==
  /\ claims' = [claims EXCEPT ![w] = @ \cup {s}]
  /\ UNCHANGED <<store, marked, report>>

\* It takes a turbine it claims for open, again.
Reopen(s, w) ==
  /\ s \in claims[w]
  /\ marked' = [marked EXCEPT ![s] = @ \ {w}]
  /\ UNCHANGED <<claims, store, report>>

MayGiveUp(s, w) == claims' \in {claims, [claims EXCEPT ![w] = @ \ {s}]}

\* Only who claims a turbine writes its record, over another's if there is one.
Write(s, w) ==
  /\ s \in claims[w]
  /\ store' = [store EXCEPT ![w] = s]
  /\ marked' \in {marked, [marked EXCEPT ![s] = @ \ {w}]}
  /\ MayGiveUp(s, w)
  /\ UNCHANGED report

\* A server learns of the record, and reports it unless it has reported one.
Learn(s, w) ==
  /\ store[w] # None
  /\ marked' \in {marked, [marked EXCEPT ![s] = @ \cup {w}]}
  /\ \/ UNCHANGED report
     \/ report[s][w] = None /\ report' = [report EXCEPT ![s][w] = store[w]]
  /\ MayGiveUp(s, w)
  /\ UNCHANGED store

Next == \E s \in Server, w \in Turbine : Claim(s, w) \/ Reopen(s, w) \/ Write(s, w) \/ Learn(s, w)

Spec == Init /\ [][Next]_vars
=============================================================================
