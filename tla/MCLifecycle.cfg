CONSTANTS
  c1 = c1
  c2 = c2
  c3 = c3
  Launch = {c1, c2, c3}
  Scenarios <- MCScenarios
SPECIFICATION FairSpec
CHECK_DEADLOCK FALSE
INVARIANTS
  TypeOK
  Served
  LockHolderOnly
PROPERTIES
  OrphansLeave
