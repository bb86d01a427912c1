SPECIFICATION FairSpec
CONSTANTS
  n1 = n1
  n2 = n2
  Node <- Pair
  Hears <- PairHears
  K = 1
  Imax = 3
  MaxOps <- OneOfOne
  Buffer <- One
  Disorder = FALSE
  Stoppers = {}
INVARIANTS
  OneDecision
PROPERTIES
  Convergence
