CONSTANTS
  Paths = {"a", "b"}
  Parsed = {"a"}
  Plans <- MCPlans
  Projects <- MCProjects
  UserCaps <- MCUserCaps
  ToolWrites = {"nice", "odd", "huge"}
  TrustRoots = {"root"}
  Pids = {1, 2}
  MaxEvents = 2
SPECIFICATION Spec
INVARIANTS SealedIsSnapshot  LiveScratchStays
PROPERTIES LeftoversReaped
