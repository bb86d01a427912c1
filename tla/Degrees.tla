------------------------------- MODULE Degrees -------------------------------
(* evaluation/compute_degree_sample.py: for every time of a run the nodes     *)
(* with a position, the neighbours of each, and the component each is in, by  *)
(* a union-find with path halving; plot_degree_ecdf.py turns the rows into    *)
(* cumulative counts.                                                         *)
EXTENDS Integers, Sequences, FiniteSets

CONSTANTS
  Nodes,     \* the nodes are 1 .. Nodes
  Place,     \* positions <<x, y>> a sample may have
  RangeM     \* range_m

VARIABLES
  step,      \* "bin", "union", "table" or "ecdf"
  pos,       \* the last ok sample of each node in this time
  edges,     \* the pairs in range that are still to be united
  parent, size,
  table,     \* the rows of this time
  ecdf       \* the points of component_size

vars == <<step, pos, edges, parent, size, table, ecdf>>

Node == 1 .. Nodes
NoFix == << >>
Valid == {n \in Node : pos[n] # NoFix}
InRange(a, b) ==
  LET dx == pos[a][1] - pos[b][1]
      dy == pos[a][2] - pos[b][2]
  IN dx * dx + dy * dy <= RangeM * RangeM
Adj == {e \in Valid \X Valid : e[1] # e[2] /\ InRange(e[1], e[2])}
Upper == {e \in Adj : e[1] < e[2]}

Init ==
  /\ step = "bin" /\ pos = [n \in Node |-> NoFix] /\ edges = {}
  /\ parent = [n \in Node |-> n] /\ size = [n \in Node |-> 1]
  /\ table = << >> /\ ecdf = << >>

-----------------------------------------------------------------------------
\* UnionFind.find: the root of a, and parent with the path halved.  A path to the
\* root has fewer than Nodes steps; at the root nothing more happens.
Find(p, a) ==
  LET Climb(w) == IF w.parent[w.root] = w.root THEN w
                  ELSE LET up == w.parent[w.parent[w.root]]
                       IN  [root |-> up, parent |-> [w.parent EXCEPT ![w.root] = up]]
      walk[k \in 0 .. Nodes] == IF k = 0 THEN [root |-> a, parent |-> p] ELSE Climb(walk[k - 1])
  IN  walk[Nodes]

Joined(p, ra, rb) ==
  LET big == IF size[ra] < size[rb] THEN rb ELSE ra
      small == IF size[ra] < size[rb] THEN ra ELSE rb
  IN /\ parent' = [p EXCEPT ![small] = big]
     /\ size' = [size EXCEPT ![big] = @ + size[small]]

\* Slip: two nodes of one component are united once more.
UniteAlways(a, b) ==
  LET fa == Find(parent, a)
      fb == Find(fa.parent, b)
  IN Joined(fb.parent, fa.root, fb.root)

Unite(a, b) ==
  LET fa == Find(parent, a)
      fb == Find(fa.parent, b)
  IN IF fa.root = fb.root THEN parent' = fb.parent /\ UNCHANGED size
     ELSE Joined(fb.parent, fa.root, fb.root)

\* _load_run_gps: the samples with ok = 1; a later one of the same time takes
\* the place of an earlier one.
ReadBin ==
  /\ step = "bin"
  /\ pos' \in [Node -> Place \union {NoFix}]
  /\ edges' = {e \in Node \X Node : /\ e[1] < e[2] /\ pos'[e[1]] # NoFix /\ pos'[e[2]] # NoFix
                                    /\ InRange(e[1], e[2])'}
  /\ step' = "union"
  /\ UNCHANGED <<parent, size, table, ecdf>>

\* The pairs are taken row by row of the upper triangle.
NextEdge ==
  /\ step = "union" /\ edges # {}
  /\ LET e == CHOOSE e \in edges : \A f \in edges : e[1] < f[1] \/ (e[1] = f[1] /\ e[2] <= f[2])
     IN Unite(e[1], e[2]) /\ edges' = edges \ {e}
  /\ UNCHANGED <<step, pos, table, ecdf>>

Root(n) == Find(parent, n).root

Tabulate ==
  /\ step = "union" /\ edges = {}
  /\ table' = [n \in Valid |->
       [degree |-> Cardinality({e \in Adj : e[1] = n}), component_size |-> size[Root(n)],
        components_count |-> Cardinality({Root(m) : m \in Valid}),
        valid_nodes |-> Cardinality(Valid)]]
  /\ step' = "table"
  /\ UNCHANGED <<pos, edges, parent, size, ecdf>>

\* The values met, in order, and how many are not larger.
EcdfPoints(value) ==
  [x \in {value[n] : n \in DOMAIN value} |-> Cardinality({n \in DOMAIN value : value[n] <= x})]

Plot ==
  /\ step = "table" /\ DOMAIN table # {}
  /\ ecdf' = EcdfPoints([n \in DOMAIN table |-> table[n].component_size])
  /\ step' = "ecdf"
  /\ UNCHANGED <<pos, edges, parent, size, table>>

\* The next time starts from nothing.
NextBin ==
  /\ step = "ecdf" \/ (step = "table" /\ DOMAIN table = {})
  /\ step' = "bin" /\ pos' = [n \in Node |-> NoFix] /\ edges' = {}
  /\ parent' = [n \in Node |-> n] /\ size' = [n \in Node |-> 1]
  /\ table' = << >> /\ ecdf' = << >>

Next == ReadBin \/ NextEdge \/ Tabulate \/ Plot \/ NextBin

-----------------------------------------------------------------------------
\* A node's component in the graph of the pairs united so far: the nodes in every
\* set with n that no such pair leaves.
United == Upper \ edges
Closed(S) == \A e \in United : e[1] \in S <=> e[2] \in S
Component(n) == {m \in Valid : \A S \in SUBSET Valid : n \in S /\ Closed(S) => m \in S}

\* After every pair, whatever the order and the halved paths: two nodes have
\* one root exactly if pairs united so far connect them and its size is that of
\* their component; the rows count the components, and the curve counts each
\* node in its own.
ComponentsRight ==
  /\ step \in {"union", "table"} =>
       \A n \in Valid :
         /\ {m \in Valid : Root(m) = Root(n)} = Component(n)
         /\ size[Root(n)] = Cardinality(Component(n))
  /\ step = "table" =>
       \A n \in Valid : table[n].components_count = Cardinality({Component(m) : m \in Valid})
  /\ step = "ecdf" =>
       \A x \in DOMAIN ecdf :
         ecdf[x] = Cardinality({n \in Valid : Cardinality(Component(n)) <= x})
==============================================================================
