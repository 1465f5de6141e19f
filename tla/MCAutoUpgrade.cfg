CONSTANTS
  Launch <- MCLaunch
  Pkg = {"cli", "tui"}
  Scenarios <- MCScenarios
  MaxReleases = 2
  MaxFaults = 2
SPECIFICATION Spec
CHECK_DEADLOCK FALSE
INVARIANTS
  TypeOK
  RuntimeWholeIfSolo
  Recoverable
PROPERTIES
  LaunchIsCurrent
