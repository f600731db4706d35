SPECIFICATION FairSpec
CONSTANTS
  MaxViews = 2
  Streams <- Garbled
  MaxChunks = 3
  Budget = 3
  ListensInOrder = TRUE
INVARIANT
  PendingIsATail
CHECK_DEADLOCK FALSE
