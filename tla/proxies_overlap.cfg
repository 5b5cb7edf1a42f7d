SPECIFICATION Spec
CONSTANTS
  g1 = g1
  g2 = g2
  g3 = g3
  Member = {g1, g2}
  MaxClock = 3
  MaxPulls = 2
  MaxRestarts = 0
  Enabled = {1, 2, 3}
  Concurrent = TRUE
PROPERTIES
  AdoptsNewer
CHECK_DEADLOCK FALSE
