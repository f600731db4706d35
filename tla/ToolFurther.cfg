SPECIFICATION FairSpec
CONSTANTS
  c1 = c1
  c2 = c2
  c3 = c3
  Calls <- TwoAndShutdown
  Closers <- Shutdown
  MaxLines = 2
  Capacity = 3
  GarbledLines = FALSE
  StdinClosesFirst = TRUE
INVARIANTS
  TypeOK
  EntriesAwaited
  ExitedMeansExited
PROPERTIES
  ExitReleases
  DropEnds
CHECK_DEADLOCK FALSE
