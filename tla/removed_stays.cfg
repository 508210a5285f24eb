\* Two founders and one other person.
CONSTANTS
  Users = {"u1", "u2", "u3"}
  Founders = {"u1", "u2"}
  MaxCalls = 3
SPECIFICATION SharingSpec
CHECK_DEADLOCK FALSE
INVARIANT RemovedIsOut
