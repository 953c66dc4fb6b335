CONSTANTS
  p1 = p1
  p2 = p2
  s1 = s1
  s2 = s2
  Preparers = {p1, p2}
  Canonical = canonical
  Stagers = {s1, s2}
  Variants = {plain, formatted}
  Plain = plain
  Verdicts = {"READY"}
  None = none
  MaxRevision = 1
  MaxCanon = 2
  MaxFaults = 0
  Restarts = TRUE
  Sweeps = FALSE
SPECIFICATION Spec
SYMMETRY CallSymmetry
INVARIANTS PreparationExclusive 
CHECK_DEADLOCK FALSE
