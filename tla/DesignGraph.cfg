SPECIFICATION Spec
CONSTANTS
  s1 = s1
  l1 = l1
  f1 = f1
  d1 = d1
  d2 = d2
  Ids <- Four
  Kind <- Kinds
  Tree <- Contained
  Screens = {s1}
  Libraries = {l1}
  Decisions = {d1, d2}
  Flows = {f1}
  SlugRank <- Slugs
  Names <- Fields
  BackedBy <- Backing
  Steps <- Path
  Links <- Succession
  Unprobed = {}
  Exported = {}
  Life <- Lives
  EdgeFiles <- EdgesOf
  HandWritten <- Merged
  MaxChanges = 4
INVARIANTS
  WalksAgree
  SharedAtTheLca
  CyclesAreReported
  CleanMeansSound
  QuarantineIsLinted
CHECK_DEADLOCK FALSE
