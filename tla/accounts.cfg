CONSTANTS
  Browsers = {b1, b2}
  Clients = {c1, c2}
  Threshold = 2
  ConcurrentChecks = 4
  MaxResets = 1
  MaxTokens = 3
  MaxGuesses = 3
  Requests = {"r1", "r2", "r3"}
  TokenOf <- MCTokenOf
  Servers = {"s1", "s2"}
  DefaultOwner = "owner"
  SignUp = TRUE
  UsernameClaim = "none"
  Required = FALSE
  OrderedInserts = TRUE
  Users = {"u1", "u2", "u3"}
  Founders = {"u1", "u2"}
  MaxCalls = 3
INIT AccountsInit
NEXT AccountsNext
SYMMETRY Alike
CHECK_DEADLOCK FALSE
INVARIANTS
  GuessesAreBounded
  RefreshSpentOnce
  RemovedNeverRenews
  OneAccountPerIdentity
  KeysAgree
PROPERTIES
  LastAdminGoesBeside
  MaintainerGoesWithAccount
