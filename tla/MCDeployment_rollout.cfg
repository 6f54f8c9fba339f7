SPECIFICATION FairDeploySpec
CONSTANTS
  Runners = {m1, m2}
  Clients = {c1}
  TenantTables <- OneTable
  KeyTable = "widget_keys"
  Db = "db"
  MaxRuns = 3
  MaxStarts = 2
INVARIANTS
  DeployTypeOK
  Protected
  SuccessMeansMigrated
  PoolOutlivesRequests
  NothingLeftOpen
PROPERTIES
  EveryRunEnds
  ShutdownEnds
