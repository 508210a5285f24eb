CONSTANTS
  Users = {"ann", "bob", "eve"}
  Names = {"Atlas", "Charts"}
  GroupCreators = "administrators"
  Passwords = TRUE
  MaxCalls = 2
SPECIFICATION MCSpec
INVARIANTS
  HiddenLooksAbsent
  ListedIsReachable
  AnswersAreNamed
PROPERTIES
  ChangesNeedTheRole
CHECK_DEADLOCK FALSE
