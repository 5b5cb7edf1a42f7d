SPECIFICATION ComponentsSpec
CONSTANTS
  Writer = {w1, w2}
  RouteId = {1, 2, 3}
  Discovered = {2, 3}
  TableHost = {"h1", "h2"}
  MaxObject = 3
  Relabel = FALSE
  MaxConn = 3
  MaxOrder = 1
  MaxRotate = 2
  MaxCut = 2
  AuthToken = FALSE
  Late = FALSE
  Crossing = FALSE
  Rev = {"r1", "r2", "r3"}
  Proxy = {"p1", "p2"}
  Adopted = {"r2"}
  NoRev = NoRev
  ProxyOf <- Owner
  Claims <- Hosts
  Sound = {"r1", "r2", "r3"}
  MaxCalls = 4
  Deployment = {"d1", "d2"}
  Networks <- TheNetworks
  Volumes <- TheVolumes
  Containers <- TheContainers
  Existing <- TheExisting
  MaxError = 3
  Node = {1, 2, 3}
  MaxUpset = 2
INVARIANTS
  ComponentsTypeOK
  OwnersClaim
  ReachableWhileRead
  AgentCanReturnUnlessCut
  NoConflict
  OnlyValidated
  FailureLeavesNothing
  ReportedOnce
PROPERTIES
  HostNeverDropped
  OthersKept
CHECK_DEADLOCK FALSE
