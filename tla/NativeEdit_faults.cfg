CONSTANTS
  Paths = {p1, p2}
  Missing = missing
  Unseen = unseen
  NoOne = noone
  Broken = broken
  Images <- Files
  MaxHistory = 2
  MaxSuperseded = 1
  MaxEpoch = 1
  GoPaths = {p1}
  Formatted <- Tidy
  Writes <- Sent
  Old = "x"
  New <- Replacement
  Foreign <- Saved
  Kinds = {"range", "literal", "create", "replace", "delete", "move", "copy"}
  MaxCells = 2
  AnchorCells = 1
  MaxCalls = 1
  MaxOperations = 2
  MaxDisturbances = 2
SPECIFICATION Spec
CHECK_DEADLOCK FALSE
INVARIANTS MoveKeepsContent RevisionsAccounted
PROPERTIES AckedStays 
