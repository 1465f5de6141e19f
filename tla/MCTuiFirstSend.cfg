CONSTANTS
  Peer = {"ann", "bob"}
  None = "none"
  Scenarios <- MCScenarios
SPECIFICATION Spec
CHECK_DEADLOCK FALSE
INVARIANTS
  OpenThreadIsKnown
