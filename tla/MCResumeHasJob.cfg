SPECIFICATION Spec
CONSTANTS
  Worker = {w1}
  Run = {r1}
  Client = {c1}
  None = None
  MaxJobs = 3
  MaxAttempts = 2
  MaxClaims = 2
  MaxReviews = 2
  ReviewsExpire = FALSE
INVARIANT ResumeHasJob
