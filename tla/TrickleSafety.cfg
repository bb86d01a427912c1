SPECIFICATION Spec
CONSTANTS
  n1 = n1
  n2 = n2
  Node <- Pair
  Hears <- PairHears
  K = 1
  Imax = 1
  MaxOps <- TwoOfOne
  Buffer <- TwoRepairs
  Disorder = TRUE
  Stoppers = {n2}
CHECK_DEADLOCK FALSE
INVARIANTS
  CounterAgrees
PROPERTIES
  ImplementsCounter
