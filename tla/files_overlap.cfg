SPECIFICATION FilesSpec
CONSTANTS
  a = a
  b = b
  Id = {a, b}
  Host = {1, 2}
  HostOf <- OwnHost
  StemOf <- Stems
  MaxOps = 4
  Serial = FALSE
  Client = {1, 2}
  Field = {1, 2}
  Ttl = 1
  Swr = 1
  Sie = 2
  Coalesce = TRUE
  MaxCacheTime = 1
  MaxUpset = 1
INVARIANTS
  FilesTypeOK
  ListingFresh
  RightVariant
PROPERTIES
  RequestsEnd
CHECK_DEADLOCK FALSE
