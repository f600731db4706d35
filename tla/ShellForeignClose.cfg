SPECIFICATION Spec
CONSTANTS
  Apps <- HomeAndFiles
  Takeover <- HomeOnly
  Home = "home"
  MaxWindow = 0
  MaxCluster = 2
  MaxPane = 3
  MaxOrdinal <- One
  MaxAutoPanes = 2
  StaleDrops = FALSE
  OwnEdgeDrops = FALSE
  ForeignCloses = TRUE
  WorkerSpawns = FALSE
  Restarts = FALSE
INVARIANTS
  TabsResolve
CHECK_DEADLOCK FALSE
