CONSTANTS
  Peer = {p1, p2}
  Request = {x1, x2}
  SerialModes = {TRUE, FALSE}
  MaxPosts = 3
  MaxUpsets = 1
SPECIFICATION Spec
SYMMETRY Symmetry
CHECK_DEADLOCK FALSE
INVARIANTS
  TypeOK
  ThreadsWhole
  LastMessageIsLatest
  SinceCompleteIfSerial
PROPERTIES
  OneActiveThread
