SPECIFICATION Spec
CONSTANTS
  Apps <- HomeAndFiles
  Takeover <- HomeOnly
  Home = "home"
  MaxWindow = 1
  MaxCluster = 2
  MaxPane = 3
  MaxOrdinal <- TwoFiles
  MaxAutoPanes = 2
  StaleDrops = FALSE
  OwnEdgeDrops = FALSE
  ForeignCloses = FALSE
  WorkerSpawns = TRUE
  Restarts = TRUE
INVARIANTS
  IdsUnique
  TabsResolve
  InstancesPlaced
  NothingReminted
PROPERTIES
  ArrivalDismisses
  WindowsLoseNothing
CHECK_DEADLOCK FALSE
