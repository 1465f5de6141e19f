CONSTANTS
  Peer = {"ann", "bob"}
  None = "none"
  Scenarios <- MCScenarios
SPECIFICATION FairSpec
CHECK_DEADLOCK FALSE
INVARIANTS
  NoGhosts
  SettledShowsAll
PROPERTIES
  LoadingEnds
