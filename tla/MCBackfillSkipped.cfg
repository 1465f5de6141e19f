CONSTANTS
  Thread = {"t1"}
  SyncTask = {s1, s2}
  Overlap = TRUE
  MaxMessages = 2
  MaxCuts = 0
  MaxFailures = 0
  MaxLost = 0
  MaxActs = 0
SPECIFICATION Spec
SYMMETRY SyncSymmetry
INVARIANTS MissedAreBackfilled
CHECK_DEADLOCK FALSE
