\* Two links and two requests, which may race for one of them; two documents in Paperless.
CONSTANTS
  Links = {"l1", "l2"}
  Requests = {"q1", "q2"}
  Files = {"f1", "f2"}
  Unreadable = {"f2"}
  Keys = {"f1", "f2", "d1", "d2"}
  NoBytes = NoBytes
  Docs = {"d1", "d2"}
  Copies <- MCCopies
  PreferArchive = FALSE
  AllowEmpty = FALSE
  Racing = FALSE
  MaxChanges = 2
  MaxFaults = 1
SPECIFICATION MCSpec
CHECK_DEADLOCK FALSE
INVARIANTS
  LinkSpentOnce
PROPERTIES
  LibraryMirrors
  SyncSettles
  RetirementWaits
