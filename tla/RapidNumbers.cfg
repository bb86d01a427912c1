SPECIFICATION Spec
CONSTANTS
  n1 = n1
  n2 = n2
  n3 = n3
  Node <- Pair
  Hears <- PairHears
  MaxOps <- TwoOfOne
  Buffer = 1
  Beta = 1
  Headers = 1
  Expiry = {}
  Repeats = TRUE
  Stoppers = {n1}
CHECK_DEADLOCK FALSE
INVARIANTS
  OneMeaning
PROPERTIES
  ImplementsCounter
