CONSTANTS
  Callers = {c1, c2}
  Ids = {i1}
  Kernels <- Both
  MinAPILevel = 13
  ProtocolMin = 2
  ProtocolMax = 2
  KernelMethods = {"cancel"}
  KnownCapabilities = {"execute"}
  NoOne = noone
  MaxGenerations = 3
  MaxCalls = 2
  MaxMishaps = 1
SPECIFICATION Spec
INVARIANTS ResultIsOwn LockCoversTree
 
CHECK_DEADLOCK FALSE
