SPECIFICATION FairSpec
CONSTANTS
  leader = leader
  a = a
  Peer <- MCPeer
  Other <- MCOther
  Subscriber <- MCOther
  Slot <- MCSlot
  Leader = leader
  SampleSize = 1
  EchoThreshold = 1
  Tries = 2
  MaxFlaps = 1
  MaxEchoes = 1
  MaxLost = 1
  MaxDisabled = 1

CHECK_DEADLOCK FALSE
INVARIANTS Tracked
PROPERTIES FaultFound AnswersFix LeaderReported
