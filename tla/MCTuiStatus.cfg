CONSTANTS
  Daemon = "daemon"
  Peer = {"bob"}
  Sock = {s1, s2, s3}
  None = none
  MaxEvents = 3
  MaxStops = 1
  MaxRefused = 1
SPECIFICATION FairSpec
CHECK_DEADLOCK FALSE
INVARIANTS
  QuietIsTrue
PROPERTIES
  StatusSettles
