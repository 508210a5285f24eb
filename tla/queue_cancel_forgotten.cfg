\* A cancel request on a running job whose worker then fails transiently.
CONSTANTS
  w1 = w1
  w2 = w2
  Workers <- OneWorker
  Pinned = {}
  MaxJobs = 1
  MaxAttempts = 2
  Stalls = FALSE
  MaxCrashes = 0
  MaxUnacked = 0
  MaxChanges = 0
  MaxCancels = 1
SPECIFICATION FairSpec
PROPERTIES
  CancelEndsTheJob
