SPECIFICATION FairSpec
CONSTANTS
  Worker = {w1, w2}
  Run = {r1}
  Client = {c1}
  None = None
  MaxJobs = 1
  MaxAttempts = 2
  MaxClaims = 2
  MaxReviews = 1
  ReviewsExpire = TRUE
PROPERTIES
  PauseReleasesWorker
  CancelDrainsJobs
  JobsSettle
