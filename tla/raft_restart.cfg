SPECIFICATION RestartSpec
CONSTANTS
  n1 = n1
  n2 = n2
  n3 = n3
  Node = {n1, n2, n3}
  None = None
  MaxTerm = 1
  MaxLog = 0
  Slot = {}
  MaxRounds = 1
  Electable <- Anyone
  LateVotes = TRUE
  Lossy = FALSE
  LateMarshal = TRUE
INVARIANTS
  OneLeaderPerTerm
CHECK_DEADLOCK FALSE
