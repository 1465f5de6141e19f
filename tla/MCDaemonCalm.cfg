CONSTANTS
  Thread = {"t1", "t2"}
  SyncTask = {s1, s2}
  Overlap = FALSE
  MaxMessages = 2
  MaxCuts = 1
  MaxFailures = 2
  MaxLost = 1
  MaxActs = 1
SPECIFICATION FairSpec
CONSTRAINT FirstInT1
INVARIANTS TypeOK CursorIsStored CursorNeverSkips CountAgrees CountsMatchRelay DrainKeepsAll
PROPERTIES CursorAdvances UnreadArrives
CHECK_DEADLOCK FALSE
