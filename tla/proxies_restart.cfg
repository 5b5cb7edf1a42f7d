SPECIFICATION FairSpec
CONSTANTS
  g1 = g1
  g2 = g2
  g3 = g3
  Member = {g1, g2}
  MaxClock = 2
  MaxPulls = 2
  MaxRestarts = 1
  Enabled = {1}
  Concurrent = FALSE
INVARIANTS
  TypeOK
  MergeInv
  DeletedStaysDeleted
  NothingLost
PROPERTIES
  AdoptsNewer
  NeverGoesBack
  NewestReachesAll
CHECK_DEADLOCK FALSE
