-------------------------------- MODULE Pcaps --------------------------------
(* evaluation/process_pcaps.py and parse_network.py: the captures of a run    *)
(* are reduced to pcap_metrics.csv and .jsonl, which are written aside and    *)
(* renamed when complete, and parse_network totals what it finds, at any      *)
(* time.  Processing may die between two steps and is started again over the  *)
(* captures that are left.                                                    *)
EXTENDS Integers, Sequences, FiniteSets, FiniteSetsExt

CONSTANTS
  Pcap,       \* the captures of a run, one per node
  Sorted,     \* sorted(glob(...)): the place of each among them
  Contents,   \* what a capture may hold
  MaxStarts   \* bound: how often processing is started

VARIABLES
  file,       \* the contents of each capture, "gone" when it is deleted
  delete,     \* --delete
  todo,       \* the captures this processing has still to do
  step,       \* "idle", "rows", "delete", "csv", "jsonl" or "summary"
  tmp,        \* the rows of pcap_metrics.csv.tmp (and .jsonl.tmp)
  csv, jsonl, \* the rows of the two files, NoRows while there is no file
  summary,    \* process_pcaps_summary.json
  netlog,     \* how many blocks of PCAP_ fields a node's net.log has
  rc,         \* the exit code of the last processing that ended
  starts      \* the captures as each processing found them

vars == <<file, delete, todo, step, tmp, csv, jsonl, summary, netlog, rc, starts>>

None == [status |-> "none"]
NoRows == << >>
Gone == "gone"
Listed == {p \in Pcap : file[p] # Gone}
IsNext(p) == p \in todo /\ \A q \in todo : Sorted[p] <= Sorted[q]

Init ==
  /\ file \in [Pcap -> Contents]
  /\ delete = FALSE /\ todo = {} /\ step = "idle"
  /\ tmp = NoRows /\ csv = NoRows /\ jsonl = NoRows
  /\ summary = None /\ netlog = [p \in Pcap |-> 0] /\ rc = -1 /\ starts = << >>

\* What tshark makes of a capture: its frames, and the status of its row.
Frames(c) == IF c \in {"good", "cut"} THEN 2 ELSE IF c = "bad" THEN 1 ELSE 0
Status(c) ==
  IF c = "empty" THEN "empty"
  ELSE IF c = "good" THEN "ok"
  ELSE IF c = "cut" /\ Frames(c) > 0 THEN "ok_truncated"
  ELSE "error"
Row(c) == [frames |-> Frames(c), status |-> Status(c)]
Useful(rows) == {p \in DOMAIN rows : rows[p].status \in {"ok", "ok_truncated"}}

SummaryOf(rows) ==
  LET failed == {p \in DOMAIN rows : rows[p].status = "error"} IN
  [status |-> IF Useful(rows) # {} /\ failed = {} THEN "success"
              ELSE IF Useful(rows) # {} THEN "partial_success" ELSE "failed",
   total |-> Cardinality(DOMAIN rows), useful |-> Cardinality(Useful(rows)),
   failed |-> Cardinality(failed)]

-----------------------------------------------------------------------------
\* No captures: the summary says so and the files stay as they are.
NoMaterial ==
  /\ Listed = {}
  /\ summary' = [status |-> "no_material", total |-> 0, useful |-> 0, failed |-> 0]
  /\ rc' = 1
  /\ UNCHANGED <<delete, todo, step, tmp, starts>>

Open(d) ==
  /\ Listed # {}
  /\ delete' = d
  /\ todo' = Listed
  /\ tmp' = NoRows /\ step' = "rows"
  /\ starts' = Append(starts, [p \in Listed |-> Row(file[p])])
  /\ UNCHANGED <<summary, rc>>

Start ==
  /\ step = "idle" /\ Len(starts) < MaxStarts
  /\ NoMaterial \/ \E d \in BOOLEAN : Open(d)
  /\ UNCHANGED <<file, csv, jsonl, netlog>>

\* Slip: the rows are written to the csv itself.
AddRowInPlace ==
  /\ step = "rows"
  /\ \E p \in Pcap :
     /\ IsNext(p)
     /\ tmp' = [q \in DOMAIN tmp \union {p} |-> IF q = p THEN Row(file[p]) ELSE tmp[q]]
     /\ csv' = tmp'
     /\ IF file[p] = "empty"
        THEN todo' = todo \ {p} /\ UNCHANGED <<step, netlog>>
        ELSE /\ step' = "delete" /\ netlog' = [netlog EXCEPT ![p] = @ + 1]
             /\ UNCHANGED todo
  /\ UNCHANGED <<file, delete, jsonl, summary, rc, starts>>

\* One capture's row is written.  An empty one ends its turn here, before the
\* deletion that would have included it.
AddRow ==
  /\ step = "rows"
  /\ \E p \in Pcap :
     /\ IsNext(p)
     /\ tmp' = [q \in DOMAIN tmp \union {p} |-> IF q = p THEN Row(file[p]) ELSE tmp[q]]
     /\ IF file[p] = "empty"
        THEN todo' = todo \ {p} /\ UNCHANGED <<step, netlog>>
        ELSE /\ step' = "delete" /\ netlog' = [netlog EXCEPT ![p] = @ + 1]
             /\ UNCHANGED todo
  /\ UNCHANGED <<file, delete, csv, jsonl, summary, rc, starts>>

Delete ==
  /\ step = "delete"
  /\ \E p \in Pcap :
     /\ IsNext(p)
     /\ file' = IF delete /\ tmp[p].status \in {"ok", "ok_truncated", "empty"}
                THEN [file EXCEPT ![p] = Gone] ELSE file
     /\ todo' = todo \ {p}
  /\ step' = "rows"
  /\ UNCHANGED <<delete, tmp, csv, jsonl, summary, netlog, rc, starts>>

RenameCsv ==
  /\ step = "rows" /\ todo = {}
  /\ csv' = tmp /\ step' = "jsonl"
  /\ UNCHANGED <<file, delete, todo, tmp, jsonl, summary, netlog, rc, starts>>

RenameJsonl ==
  /\ step = "jsonl"
  /\ jsonl' = tmp /\ step' = "summary"
  /\ UNCHANGED <<file, delete, todo, tmp, csv, summary, netlog, rc, starts>>

WriteSummary ==
  /\ step = "summary"
  /\ summary' = SummaryOf(tmp)
  /\ rc' = IF Useful(tmp) # {} THEN 0 ELSE 1
  /\ step' = "idle" /\ todo' = {} /\ tmp' = NoRows
  /\ UNCHANGED <<file, delete, csv, jsonl, netlog, starts>>

Die ==
  /\ step # "idle"
  /\ step' = "idle" /\ todo' = {} /\ tmp' = NoRows
  /\ UNCHANGED <<file, delete, csv, jsonl, summary, netlog, rc, starts>>

Next == Start \/ AddRow \/ Delete \/ RenameCsv \/ RenameJsonl \/ WriteSummary \/ Die

-----------------------------------------------------------------------------
\* The rows parse_network counts, whose frames it adds up; without one it takes
\* the counters of the nodes that logged both of their ends.
PcapTotals(rows) ==
  [nodes |-> Cardinality(Useful(rows)),
   packets |-> MapThenSumSet(LAMBDA p : rows[p].frames, Useful(rows))]

NetlogTotals(counters) ==
  [nodes |-> Cardinality(DOMAIN counters),
   packets |-> MapThenSumSet(LAMBDA p : counters[p].tx + counters[p].rx, DOMAIN counters)]

NetworkOverhead(counters) ==
  IF Useful(csv) # {} THEN PcapTotals(csv)
  ELSE IF DOMAIN counters # {} THEN NetlogTotals(counters)
  ELSE [nodes |-> 0, packets |-> 0]

-----------------------------------------------------------------------------
Counters == [p \in Pcap |-> [tx |-> 10, rx |-> 10]]

\* A run's packets are those of every capture that some processing found, or
\* those of every node's counters: never of the captures reached so far, even
\* where processing died or is under way.
OverheadWhole ==
  \/ NetworkOverhead(Counters) = NetlogTotals(Counters)
  \/ \E i \in DOMAIN starts : NetworkOverhead(Counters) = PcapTotals(starts[i])
==============================================================================
