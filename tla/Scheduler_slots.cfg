CONSTANTS
  Callers = {c1, c2, c3}
  Workspaces = {w1}
  Lanes = {l1, l2}
  SandboxLanes = {b1, b2}
  Nil = nil
  ProviderQuota = 1
  SandboxQuota = 1
  SandboxLaneQuota = 1
SPECIFICATION SchedulerSpec
INVARIANTS TokensAreHeld LaneExclusive
PROPERTIES WaitEnds
