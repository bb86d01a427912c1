SPECIFICATION FairSpec
CONSTANTS
  n1 = n1
  n2 = n2
  Node <- Two
  Peers <- AllOfTwo
  Budget = 1
  MaxLost = 1
  MaxOps <- ThreeOfOne
  Stoppers = {n1}
CHECK_DEADLOCK FALSE
INVARIANTS
  HandedOver
PROPERTIES
  ImplementsCounter
  Convergence
