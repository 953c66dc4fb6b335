CONSTANTS
  Plans = {1, 2}
  Paths = {1, 2}
  Bytes = {"old", "made"}
  Missing = "missing"
  WriteSet <- OverlapWriteSet
  Target <- OverlapTarget
  InitialTree <- MoveTree
  Ageing = TRUE
  MaxCrashes = 2
  MaxFaults = 2
  MaxExternal = 1
  MaxEvents = 3
SPECIFICATION Spec
INVARIANTS SettledWhole
PROPERTIES AtomicCommit  OnlyJournaledImagesReplaced EventuallyOpens
CHECK_DEADLOCK FALSE
