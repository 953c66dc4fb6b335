CONSTANTS
  k1 = k1
  k2 = k2
  Calls = {c1, c2, c3}
  Keys = {k1, k2}
  Hashes = {h1, h2}
  None = none
  Kind <- EditAndPrepare
  PerWorkspace = 0
  Tombstones = 1
  MaxRestarts = 1
  WritesFail = TRUE
SPECIFICATION Spec

SYMMETRY Symmetry
INVARIANTS OneRunner WaiterHasRunner
PROPERTIES NotRemade
CHECK_DEADLOCK FALSE
