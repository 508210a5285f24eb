\* The requester loses the grant or the library, and a worker crashes.
CONSTANTS
  w1 = w1
  w2 = w2
  Workers <- TwoWorkers
  Pinned = {}
  MaxJobs = 1
  MaxAttempts = 2
  Stalls = FALSE
  MaxCrashes = 1
  MaxUnacked = 0
  MaxChanges = 2
  MaxCancels = 1
SPECIFICATION FairSpec
INVARIANTS
  RunsAlone
  DeletedIsQuiet
PROPERTIES
  EveryJobEnds
  FinishedStaysFinished
