SPECIFICATION FairSpec
CONSTANTS
  a1 = a1
  a2 = a2
  r1 = r1
  r2 = r2
  r3 = r3
  Agents = {a1, a2}
  Reports = {r1, r2, r3}
  Origin <- TwoAgents
  Limit = 2
  MaxQueued = 3
  MaxCrashes = 1
  MaxLate = 1
INVARIANTS NothingLost InOrder
PROPERTIES EventuallyLogged OutboxDrains ImplementsAuditLog
CHECK_DEADLOCK FALSE
