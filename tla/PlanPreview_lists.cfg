SPECIFICATION Spec
CONSTANTS
  pa = pa
  pb = pb
  tx = tx
  tw = tw
  ty = ty
  tz = tz
  nf = nf
  ng = ng
  PathSeq <- TwoPaths
  Tokens = {tx, tw, ty, tz}
  Name <- Names
  Node <- Bodies
  Sig <- Layout
  Long = {tz}
  Query = {tx, tz}
  Texts <- Documents
  Binary = Binary
  Link = Link
  Missing = Missing
  Unseen = Unseen
  Tracked = {pa}
  Anchor = 1
  MaxHandles = 4
  MaxSets = 1
  MaxMatches = 3
  MaxFiles = 2
  MaxCalls = 2
  MaxFaults = 2
  MaxEvents = 3
  Start <- Trees
  Plans <- PlanLists
  Edits <- PlanEdits
INVARIANTS  ResolvedStood  
CHECK_DEADLOCK FALSE
