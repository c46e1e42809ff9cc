SPECIFICATION FairSpec
CONSTANTS
  a1 = a1
  a2 = a2
  old = old
  alice = alice
  Monitor = {a1, a2, old}
  Owner = {alice}
  Worker = {w1}
  Client = {c1}
  None = None
  OwnerOf <- MCOwnerOf
  Batch = 2
  RunQuota = 2
  MonitorQuota = 2
  MaxCalls = 2
CHECK_DEADLOCK FALSE
INVARIANTS
  OneActiveRunPerMonitor
  QuotaKept
PROPERTIES
  A1Served
