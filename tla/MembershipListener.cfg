SPECIFICATION Spec
CONSTANTS
  n1 = n1
  n2 = n2
  Self = self
  Neighbour <- Two
  Timeout = 1
  App = FALSE
INVARIANTS
  ListenerRuns
