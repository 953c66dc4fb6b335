CONSTANTS
  Findings = {f1}
  Analyses <- MCAnalyses
  Calls = {c1, c2}
  Clients = {s1, s2}
  Nobody = nobody
  NoticeCap = 2
  RefCap = 2
  ClientCap = 2
  MaxVersions = 2
  MaxEvents = 4
SYMMETRY Symmetric
SPECIFICATION LedgerSpec
INVARIANTS  ResolvedWasWithdrawn NoticesReachClients
CHECK_DEADLOCK FALSE
