CONSTANTS
  Workspaces = {w1, w2}
  Lessees = {c1, c2}
  Reaper = reaper
  NoOne = noone
  MaxProviders = 1
  MaxCalls = 3
  MaxMishaps = 1
SPECIFICATION PoolSpec
INVARIANTS LeasedStaysOpen ReservationsExact
PROPERTIES EpochsAdvance RequestsEnd
CHECK_DEADLOCK FALSE
