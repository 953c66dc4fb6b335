CONSTANTS
  c1 = c1
  c2 = c2
  ra = ra
  rb = rb
  Roots = {ra, rb}
  Callers = {c1, c2}
  Requests = {c1, c2}
  Asked <- AskPairs
  MaxIds = 2
  MaxSeq = 1
  MaxFaults = 2
  MaxRestarts = 1
SYMMETRY Symmetry
SPECIFICATION Spec
INVARIANTS OneRecordPerDefinition CreatedIsKept ProxyTransparent
CHECK_DEADLOCK FALSE
