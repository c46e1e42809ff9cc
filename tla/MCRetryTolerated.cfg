SPECIFICATION Spec
CONSTANTS
  s1 = s1
  s2 = s2
  p = p
  q = q
  Source = {s1, s2}
  Statement = {p, q}
  None = None
  Says <- MCSays
  Loose = {}
  Disagree <- MCDisagree
  FetchCap = 1
  MaxRounds = 1
  MaxRewrites = 2
  MaxAttempts = 2
  MaxEdits = 1
CHECK_DEADLOCK FALSE
INVARIANTS
  RetryTolerated
