SPECIFICATION Spec
CONSTANTS
  Apps <- HomeOnly
  Takeover <- HomeOnly
  Home = "home"
  MaxWindow = 1
  MaxCluster = 2
  MaxPane = 3
  MaxOrdinal <- One
  MaxAutoPanes = 2
  StaleDrops = FALSE
  OwnEdgeDrops = FALSE
  ForeignCloses = FALSE
  WorkerSpawns = FALSE
  Restarts = FALSE
INVARIANTS
  BandOrTree
CHECK_DEADLOCK FALSE
