\* A pinned and a rotating worker, a crash, lapsing leases, a lost answer.
CONSTANTS
  w1 = w1
  w2 = w2
  Workers <- TwoWorkers
  Pinned = {w2}
  MaxJobs = 1
  MaxAttempts = 2
  Stalls = TRUE
  MaxCrashes = 1
  MaxUnacked = 1
  MaxChanges = 0
  MaxCancels = 2
SPECIFICATION FairSpec
INVARIANTS
  ClaimsAreExclusive
  FailedHonestly
  CancelledOnlyWhenAsked
PROPERTIES
  EveryJobEnds
  OnlyTheHolderFinishes
