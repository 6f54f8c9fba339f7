SPECIFICATION FairSpec
CONSTANTS
  Requests = {r1, r2}
  Tenants = {t1, t2}
  AllowedHosts <- MCHosts
  AllowedOrigins <- MCOrigins
  Clients <- CallClients
  Ttl = 1
  Leeway = 1
  MaxSkew = 2
  MaxTime = 3
  MaxTokens = 2
  Garbled = Garbled
  Absent = Absent
  NoTenant = NoTenant
INVARIANTS
  TypeOK
  AnswersItsCaller
  AdmittedFromListed
PROPERTIES
  AdmittedInLifetime
  EveryRequestEnds
CHECK_DEADLOCK FALSE
