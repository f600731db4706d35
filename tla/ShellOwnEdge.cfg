SPECIFICATION Spec
CONSTANTS
  Apps <- HomeAndFiles
  Takeover <- HomeOnly
  Home = "home"
  MaxWindow = 0
  MaxCluster = 2
  MaxPane = 4
  MaxOrdinal <- TwoFiles
  MaxAutoPanes = 2
  StaleDrops = FALSE
  OwnEdgeDrops = TRUE
  ForeignCloses = FALSE
  WorkerSpawns = FALSE
  Restarts = FALSE
INVARIANTS
  InstancesPlaced
CHECK_DEADLOCK FALSE
