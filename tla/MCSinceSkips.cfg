CONSTANTS
  Peer = {p1, p2}
  Request = {x1, x2}
  SerialModes = {FALSE}
  MaxPosts = 3
  MaxUpsets = 0
SPECIFICATION Spec
CHECK_DEADLOCK FALSE
INVARIANT
  SinceComplete
