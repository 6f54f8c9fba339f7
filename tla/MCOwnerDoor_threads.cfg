SPECIFICATION FairDoorSpec
CONSTANTS
  Threads = {th1, th2}
  Kids = {a, b}
  MaxVersions = 2
  BadEntry = BadEntry
  NoKid = NoKid
  Requests = {r1}
  Tenants = {t1, t2}
  NoTenant = NoTenant
  Ttl = 1
  Leeway = 1
  Skews = {0, 2}
  Past = 2
  MaxTime = 1
  MaxRebinds = 1
INVARIANTS
  DoorTypeOK
  CacheIsOneVersion
PROPERTIES
  KeepsSettledKeys
  RotationHeals
  TenantIsBound
  GoodLoginServed
  EveryVerifyEnds
CHECK_DEADLOCK FALSE
VIEW NoLeftovers
