SPECIFICATION RecoverySpec
CONSTANTS
  Gateway = {1, 2}
  Container = {"c"}
  FirstEdge = 1
  MaxChange = 2
  MaxFault = 2
  Overlap = FALSE
  Peer = {1, 2}
  Key = {"k"}
  MaxWrite = 2
  MaxRestart = 1
  Reached = {1}
  Edge = {1, 2}
  Document = {"a", "b"}
  MaxEdit = 2
  MaxBreak = 1
  PushOverlap = FALSE
INVARIANTS
  RecoveryTypeOK
  JournalIsApplied
PROPERTIES
  RoutesFollow
  NewestWins
  MembersAgree
  DocumentReaches
CHECK_DEADLOCK FALSE
