SPECIFICATION Spec

CONSTANTS
  Programs = {"traffic", "swarm", "visibility", "positions", "pcaps", "convergence",
              "degrees", "results", "timer", "harness"}
  s1 = s1
  s2 = s2
  w1 = w1
  Server = {s1, s2}
  Turbine = {w1}
  Fallback = w1
  Instances = {1}
  MaxOutages = 1
  Client = {"c1", "c2"}
  Buffer = 1
  Job = {"j1"}
  Count = 2
  Fleet = {0, 1}
  Heading <- Headings
  Divisor = 2
  MaxRounds = 3
  Cloudlet = {"c1", "c2"}
  Sizes = {1, 2}
  Rep = {1, 2}
  Partitions = 1
  MaxCuts = 1
  Loads = 2
  Runtime = 1
  MaxRuns = 1
  OldNodes = 2
  OldDelay = 1
  TimeLimit = 1
  Visitor = {"p", "q"}
  VisibleTimeout = 0
  MaxLosses = 2
  Nodes = 2
  Logger = {2}
  MaxSteps = 2
  Retries = 1
  MaxPolls = 1
  Pcap = {"p1", "p2"}
  Sorted <- InOrder
  Contents = {"good", "cut", "bad", "empty"}
  MaxStarts = 2
  Base <- ScenarioBase
  Experiments <- TwoExperiments
  Kinds = {"density", "nodes", "error"}
  CampaignSizes = {1, 2}
  MaxCampaigns = 2
  K = 2
  Imax = 6
  MaxCount = 1
  MaxLines = 3
  Vertices = 4
  Place <- Line
  RangeM = 1
  Host = {1, 2}
  Duration = 1
  Cooldown = 1

\* Scripts end, and so may the applications.
CHECK_DEADLOCK FALSE

INVARIANTS
  JobCounts
  Enclosed
  LossesPaired
  GpsFollows
  OverheadWhole
  ConvergenceMeasured
  ComponentsRight
  OneCampaignEach
  NewsDecidesNext
  
