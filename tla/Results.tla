------------------------------- MODULE Results -------------------------------
(* What evaluation/ makes of its campaigns: the variants of an experiment     *)
(* (expand_experiments.py), the runs of each variant into a directory that is *)
(* emptied before them (run_experiment.sh), their rows (parse_metrics.py),    *)
(* and the figures, which gera.sh draws between any two campaigns from all    *)
(* directories (collect_all_results.py, aggregate_results.py).  A campaign    *)
(* may be for some variants only, and may end in the middle.                  *)
EXTENDS Integers, FiniteSets, Functions

CONSTANTS
  Base,          \* the parameters of scenario.json, a function
  Experiments,   \* records: tuples, a set of parameter functions, and vary,
                 \* a function from parameters to sets of values
  Kinds,         \* how the scenario's name says its rows are grouped
  Run,           \* a campaign's runs are 1 .. n
  MaxCampaigns   \* bound

VARIABLES
  phase,      \* "idle", "variant", "runs" or "status" of run_experiment.sh;
              \* "collect" or "aggregate" of gera.sh
  kind,       \* "density", "nodes" or "error"
  campaigns,
  script,     \* run_experiment.sh's own: [keep_going, asked, todo, variant, next]
  results,    \* each variant's directory: [expected, runs, summary]
  all, cap,   \* all_results.csv and all_capacity_samples.csv, {} if not there
  out         \* the rows of the aggregate

vars == <<phase, kind, campaigns, script, results, all, cap, out>>

\* --keep-going and --runs, the variants still to come, the one at hand and its
\* next run.
NoScript == [keep_going |-> FALSE, asked |-> 0, todo |-> {}, variant |-> << >>, next |-> 0]

\* The runs of a directory are [made, of, covered]: what run_status.json says,
\* whose campaign's they are, whether coverage_nodes.csv has been written.
Init ==
  /\ phase = "idle" /\ kind \in Kinds /\ campaigns = 0
  /\ script = NoScript /\ results = << >>
  /\ all = {} /\ cap = {} /\ out = {}

\* set_path: the later parameters take the place of the earlier ones.
Set(f, g) == [k \in DOMAIN f \union DOMAIN g |-> IF k \in DOMAIN g THEN g[k] ELSE f[k]]

Product(vary) == {f \in [DOMAIN vary -> UNION Range(vary)] : \A k \in DOMAIN vary : f[k] \in vary[k]}

\* Each tuple with each combination, or the combinations alone; an experiment
\* with neither is the scenario itself, without variants.
Expanded(e) ==
  IF e.tuples # {} THEN {Set(t, c) : t \in e.tuples, c \in Product(e.vary)}
  ELSE IF DOMAIN e.vary # {} THEN Product(e.vary) ELSE {}

\* run_experiment.sh begins, for all variants or the selected ones.
Expand ==
  /\ phase = "idle" /\ campaigns < MaxCampaigns
  /\ \E e \in Experiments, keep \in BOOLEAN, n \in Run :
       \E chosen \in SUBSET Expanded(e) \ {{}} :
         script' = [keep_going |-> keep, asked |-> n, todo |-> chosen, variant |-> << >>, next |-> 0]
  /\ campaigns' = campaigns + 1 /\ phase' = "variant"
  /\ UNCHANGED <<kind, results, all, cap, out>>

Begun(v) ==
  [keep_going |-> script.keep_going, asked |-> script.asked, todo |-> script.todo \ {v},
   variant |-> v, next |-> 1]
Emptied == [expected |-> {}, runs |-> << >>, summary |-> {}]

\* Slip: the directory of an earlier campaign is used on.
PrepareVariantKept(v) ==
  /\ phase = "variant" /\ v \in script.todo
  /\ script' = Begun(v) /\ phase' = "runs"
  /\ results' = IF v \in DOMAIN results THEN results
                ELSE Set(results, [w \in {v} |-> Emptied])
  /\ UNCHANGED <<kind, campaigns, all, cap, out>>

\* prepare_variant_results_dir: rm -rf.
PrepareVariant(v) ==
  /\ phase = "variant" /\ v \in script.todo
  /\ script' = Begun(v) /\ phase' = "runs"
  /\ results' = Set(results, [w \in {v} |-> Emptied])
  /\ UNCHANGED <<kind, campaigns, all, cap, out>>

\* run_scenario.sh, then write_variant_status, which names all runs from the first
\* on.  A run that cannot be analysed ends the campaign without --keep-going.
RunScenario ==
  /\ phase = "runs"
  /\ \E made \in {"analyzable", "not_analyzable", "nothing"} :
       LET v == script.variant
           run == [made |-> made, of |-> campaigns, covered |-> FALSE]
       IN /\ results' = Set(results, [w \in {v} |->
               [expected |-> 1 .. script.asked,
                runs |-> Set(results[v].runs, [r \in {script.next} |-> run]),
                summary |-> results[v].summary]])
          /\ IF made # "analyzable" /\ ~script.keep_going
             THEN phase' = "idle" /\ script' = NoScript
             ELSE /\ phase' = IF script.next = script.asked THEN "status" ELSE "runs"
                  /\ script' = [script EXCEPT !.next = @ + 1]
  /\ UNCHANGED <<kind, campaigns, all, cap, out>>

\* exit 1 when the cleanup barrier does not settle; or an interrupt.
Break ==
  /\ phase \in {"variant", "runs", "status"}
  /\ phase' = "idle" /\ script' = NoScript
  /\ UNCHANGED <<kind, campaigns, results, all, cap, out>>

-----------------------------------------------------------------------------
(* parse_metrics                                                             *)

IterRunDirs(d) == IF d.expected = {} THEN DOMAIN d.runs ELSE d.expected \cap DOMAIN d.runs

Rows(d) == {r \in IterRunDirs(d) : d.runs[r].made = "analyzable"}

\* The coverage of a run is written before its status is looked at.  Without a
\* row the file of the last time stays.
ParseMetrics(v, d) ==
  [expected |-> d.expected,
   runs |-> [r \in DOMAIN d.runs |->
     IF r \in IterRunDirs(d) /\ d.runs[r].made # "nothing"
     THEN [made |-> d.runs[r].made, of |-> d.runs[r].of, covered |-> TRUE] ELSE d.runs[r]],
   summary |-> IF Rows(d) = {} THEN d.summary ELSE {<<v, r, d.runs[r].of>> : r \in Rows(d)}]

\* The end of a variant: its summary, if all its runs can be analysed.
VariantDone ==
  /\ phase = "status"
  /\ LET v == script.variant IN
     results' = IF \A r \in 1 .. script.asked : results[v].runs[r].made = "analyzable"
                THEN Set(results, [w \in {v} |-> ParseMetrics(v, results[v])]) ELSE results
  /\ IF script.todo = {} THEN phase' = "idle" /\ script' = NoScript
     ELSE phase' = "variant" /\ UNCHANGED script
  /\ UNCHANGED <<kind, campaigns, all, cap, out>>

-----------------------------------------------------------------------------
(* gera.sh                                                                   *)

\* The files of the last time are removed, and every directory is parsed again.
Reparse ==
  /\ phase = "idle" /\ results # << >>
  /\ results' = [v \in DOMAIN results |-> ParseMetrics(v, results[v])]
  /\ all' = {} /\ cap' = {} /\ out' = {}
  /\ phase' = "collect"
  /\ UNCHANGED <<kind, campaigns, script>>

\* collect_all_results: every summary, and the coverage of every run, of all
\* variants; a file is written only if there are rows for it.
Collect ==
  /\ phase = "collect"
  /\ all' = LET rows == UNION {results[v].summary : v \in DOMAIN results} IN
            IF rows # {} THEN rows ELSE all
  /\ cap' = LET covered(v) == {r \in DOMAIN results[v].runs : results[v].runs[r].covered}
                rows == UNION {{<<v, r, results[v].runs[r].of>> : r \in covered(v)} : v \in DOMAIN results}
            IN IF rows # {} THEN rows ELSE cap
  /\ phase' = "aggregate"
  /\ UNCHANGED <<kind, campaigns, script, results, out>>

-----------------------------------------------------------------------------
(* aggregate_results                                                         *)

\* The scenario of a variant, and what is derived from it or read from the name of
\* the variant's directory.
Params(v) == Set(Base, v)
Density(v) == (Params(v).count * 4) \div Params(v).area
FromName(v) == IF "error" \in DOMAIN v THEN <<v.error>> ELSE << >>

\* The column of a variant's group, << >> for a row that is dropped.
GroupKey(v) ==
  IF kind = "density" THEN <<Density(v)>>
  ELSE IF kind = "nodes" THEN <<Params(v).count>> ELSE FromName(v)

Keys(rows) == {GroupKey(x[1]) : x \in rows} \ {<< >>}
Group(rows, k) == {x \in rows : GroupKey(x[1]) = k}

\* The coverage is joined on the columns of the group; its mean over the runs is
\* one over run numbers, whatever variants of the group they are of.
CapRuns(k) == {x[2] : x \in Group(cap, k)}

\* Without all_results.csv the script raises.
Aggregate ==
  /\ phase = "aggregate"
  /\ out' = {[key |-> k, runs |-> Group(all, k), cap_node |-> Group(cap, k),
              cap_run_n |-> Cardinality(CapRuns(k))] : k \in Keys(all)}
  /\ phase' = "idle"
  /\ UNCHANGED <<kind, campaigns, script, results, all, cap>>

Next ==
  \/ Expand \/ RunScenario \/ Break \/ VariantDone \/ Reparse \/ Collect \/ Aggregate
  \/ \E e \in Experiments : \E v \in Expanded(e) : PrepareVariant(v)

-----------------------------------------------------------------------------
\* Through campaigns for other variants and of other sizes, given up in the middle
\* and begun anew, and figures drawn in between: whatever a figure says of a
\* variant, of its runs or of their coverage, comes from one campaign.
OneCampaignEach ==
  \A g, h \in out : \A x \in g.runs \union g.cap_node, y \in h.runs \union h.cap_node :
    x[1] = y[1] => x[3] = y[3]
==============================================================================
