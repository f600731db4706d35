SPECIFICATION Spec
CONSTANTS
  c1 = c1
  c2 = c2
  d1 = d1
  d2 = d2
  Main = main
  Worker = worker
  Callers <- TwoCallers
  Debouncers <- TwoThreads
  MaxCores = 2
  MaxBuilds = 2
  MaxOps = 1
INVARIANT
  RebuildReloads
CHECK_DEADLOCK FALSE
