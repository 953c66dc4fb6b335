CONSTANTS
  p1 = p1
  p2 = p2
  s1 = s1
  s2 = s2
  Preparers = {p1}
  Canonical = canonical
  Stagers = {s1}
  Variants = {plain}
  Plain = plain
  Verdicts = {"READY"}
  None = none
  MaxRevision = 2
  MaxCanon = 1
  MaxFaults = 1
  Restarts = FALSE
  Sweeps = TRUE
SPECIFICATION Spec
CONSTRAINT EditOrFault
INVARIANTS  ApplyIsDurable
CHECK_DEADLOCK FALSE
