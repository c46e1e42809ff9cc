SPECIFICATION Spec
CONSTANTS
  Worker = {w1, w2}
  Run = {r1}
  Client = {c1}
  None = None
  MaxJobs = 2
  MaxAttempts = 1
  MaxClaims = 2
  MaxReviews = 2
  ReviewsExpire = FALSE
SYMMETRY WorkerSymmetry
CONSTRAINT TwoClaims
INVARIANTS
  PausedHasReview
  BudgetExtendedOnce
  OnePendingPerReason
