SPECIFICATION FairSpec
CONSTANTS
  g1 = g1
  g2 = g2
  g3 = g3
  Member = {g1, g2}
  MaxClock = 2
  MaxPulls = 2
  MaxRestarts = 0
  Enabled = {1, 2}
  Concurrent = TRUE
PROPERTIES
  Converges
CHECK_DEADLOCK FALSE
