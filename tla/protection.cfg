SPECIFICATION ProtectionSpec
CONSTANTS
  Guard = {1, 2}
  Watcher = {1, 2}
  MaxBan = 1
  MaxUnban = 1
  MaxOutage = 1
  MaxTime = 2
  Backend = {1, 2}
  Request = {1, 2}
  Up = 1
  Down = 2
  Threshold = 1
  Timeout = 1
  MaxClock = 2
  Fragile = {1}
  MaxFlip = 1
  MaxConf = 1
INVARIANTS
  ProtectionTypeOK
  BlockedIsStored
  OneProbe
PROPERTIES
  BanSpreads
  RotationFollows
CHECK_DEADLOCK FALSE
