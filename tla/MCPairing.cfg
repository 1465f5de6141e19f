CONSTANTS
  Person = {"p1", "p2"}
  Code = {"c1", "c2"}
  Name = {"n1", "n2"}
  Spelling = {"ann", "Ann"}
  Mailbox <- MCMailbox
  Request = {x1, x2}
  Command = {"u1", "u2", "u3", "old lyy", "lyy"}
  Matcher = {"m", "none"}
  Edits <- MCEdits
  None = "none"
  MaxRuns = 2
  MaxFaults = 1
SPECIFICATION FairSpec
CHECK_DEADLOCK FALSE
INVARIANTS
  TypeOK
  InviteOnce
  IdentityIsOwn
PROPERTIES
  HooksKept
  PairEnds
