SPECIFICATION ElectionSpec
CONSTANTS
  n1 = n1
  n2 = n2
  n3 = n3
  s1 = s1
  Node = {n1, n2, n3}
  None = None
  MaxTerm = 1
  MaxLog = 0
  Slot = {s1}
  MaxRounds = 1
  Electable <- Anyone
  LateVotes = TRUE
  Lossy = TRUE
  LateMarshal = TRUE
INVARIANTS
  TypeOK
  OneLeaderPerTerm
  ElectionInv
PROPERTIES
  PreVoteEnds
CHECK_DEADLOCK FALSE
