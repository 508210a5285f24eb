\* One pinned worker that crashes once, two jobs on one source that changes.
CONSTANTS
  Sources <- OneSource
  SourceOf <- SameSource
  SlugOf <- OneSlug
  Digests = {"v1", "v2"}
  Forced = {2}
  Batches = 2
  Workers = {"w1"}
  Pinned = {"w1"}
  MaxJobs = 2
  MaxAttempts = 2
  Stalls = FALSE
  MaxCrashes = 1
  MaxUnacked = 0
  MaxChanges = 0
  MaxCancels = 1
SPECIFICATION IngestSpec
INVARIANTS
  DoneHasDocument
PROPERTIES
  ImplementsLibraryView
