SPECIFICATION FairSpec
CONSTANTS
  MaxViews = 2
  Streams <- WellFormed
  MaxChunks = 3
  Budget = 3
  ListensInOrder = TRUE
INVARIANTS
  HistoryKept
PROPERTIES
  ShowsTheStream
  EverythingShown
  ExitReaps
CHECK_DEADLOCK FALSE
