SPECIFICATION QueueSpec
CONSTANTS
  Worker = {w1, w2}
  Run = {r1}
  Client = {c1, c2}
  None = None
  MaxJobs = 2
  MaxAttempts = 2
  MaxClaims = 3
SYMMETRY Symmetry
INVARIANTS
  NoStrandedJob
  OneExecuteJob
  FailedOnlyAfterMaxAttempts
PROPERTIES
  HeldUntilLeaseEnds
  DeliversAtLeastOnce
