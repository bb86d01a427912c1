SPECIFICATION FairSpec
CONSTANTS
  n1 = n1
  n2 = n2
  n3 = n3
  Node <- Chain
  Hears <- ChainHears
  MaxOps <- OneAtTheEnd
  Buffer = 1
  Beta = 1
  Headers = 50
  Expiry = {n3}
  Repeats = FALSE
  Stoppers = {}
INVARIANTS
  CachedIsCounted

PROPERTIES
  Relayed
  Convergence
