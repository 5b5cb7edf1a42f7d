\* Three members.  Each step of the schedule is one of Next.
SPECIFICATION LateSpec
CONSTANTS
  n1 = n1
  n2 = n2
  n3 = n3
  n4 = n4
  n5 = n5
  Node = {n1, n2, n3}
  None = None
  MaxTerm = 5
  MaxLog = 2
  Slot = {1, 2, 3, 4}
  MaxRounds = 1
  Electable <- Anyone
  LateVotes = TRUE
  Lossy = FALSE
  LateMarshal = FALSE
INVARIANTS
  CommittedOnMajority
CHECK_DEADLOCK FALSE
