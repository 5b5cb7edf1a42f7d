\* Two successive leaders with conflicting logs.
\* The bounds end the behaviours: deadlock at them is no fault.
SPECIFICATION Spec
CONSTANTS
  n1 = n1
  n2 = n2
  n3 = n3
  Node = {n1, n2, n3}
  None = None
  MaxTerm = 2
  MaxLog = 1
  Slot = {s1}
  MaxRounds = 1
  Electable <- InTurn
  LateVotes = FALSE
  Lossy = FALSE
  LateMarshal = TRUE
INVARIANTS
  StateMachineSafety
  CommittedOnMajority
PROPERTIES
  NothingTakenBack
CHECK_DEADLOCK FALSE
