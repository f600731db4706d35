SPECIFICATION Spec
CONSTANTS
  Apps <- HomeAndFiles
  Takeover <- HomeOnly
  Home = "home"
  MaxWindow = 1
  MaxCluster = 2
  MaxPane = 3
  MaxOrdinal <- One
  MaxAutoPanes = 2
  StaleDrops = TRUE
  OwnEdgeDrops = TRUE
  ForeignCloses = TRUE
  WorkerSpawns = TRUE
  Restarts = FALSE
INVARIANTS
  TypeOK
  TreesStand
  ShowsItsOwn
  DrawnOnce
PROPERTIES
  NeighbourShown
CHECK_DEADLOCK FALSE
