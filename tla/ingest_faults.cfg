\* One worker that crashes once, lapsing leases, a lost answer and a change of
\* access; two jobs on bytes that do not change, the second forced.
CONSTANTS
  Sources <- OneSource
  SourceOf <- SameSource
  SlugOf <- OneSlug
  Digests = {"v1"}
  Forced = {2}
  Batches = 2
  Workers = {"w1"}
  Pinned = {}
  MaxJobs = 2
  MaxAttempts = 2
  Stalls = TRUE
  MaxCrashes = 1
  MaxUnacked = 1
  MaxChanges = 1
  MaxCancels = 0
SPECIFICATION IngestSpec
INVARIANTS
  NothingLeftBehind
  OneDocumentPerSource
  ReadyIsWhole
