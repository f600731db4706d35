SPECIFICATION Spec
CONSTANTS
  Apps <- HomeOnly
  Takeover <- HomeOnly
  Home = "home"
  MaxWindow = 1
  MaxCluster = 2
  MaxPane = 2
  MaxOrdinal <- TwoTerms
  MaxAutoPanes = 2
  StaleDrops = FALSE
  OwnEdgeDrops = TRUE
  ForeignCloses = TRUE
  WorkerSpawns = FALSE
  Restarts = TRUE
INVARIANTS
  TerminalsReachable
CHECK_DEADLOCK FALSE
