SPECIFICATION FairSpec
CONSTANTS
  c1 = c1
  c2 = c2
  c3 = c3
  Calls <- TwoAndShutdown
  Closers <- Shutdown
  MaxLines = 2
  Capacity = 1
  GarbledLines = FALSE
  StdinClosesFirst = TRUE
INVARIANTS
  SentOnce
  NobodyForgotten
PROPERTIES
  AnswersFindTheirCall
  WrittenReturns
CHECK_DEADLOCK FALSE
