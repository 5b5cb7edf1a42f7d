SPECIFICATION LinkSpec
CONSTANTS
  MaxConn = 2
  MaxOrder = 1
  MaxRotate = 1
  MaxCut = 1
  AuthToken = FALSE
  Late = FALSE
  Crossing = FALSE
INVARIANTS
  AgentCanReturn
CHECK_DEADLOCK FALSE
