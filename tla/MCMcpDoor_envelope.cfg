SPECIFICATION Spec
CONSTANTS
  Requests = {r1}
  Tenants = {t1, t2}
  AllowedHosts <- MCHosts
  AllowedOrigins <- MCOrigins
  Clients <- EnvelopeClients
  Ttl = 1
  Leeway = 1
  MaxSkew = 0
  MaxTime = 0
  MaxTokens = 2
  Garbled = Garbled
  Absent = Absent
  NoTenant = NoTenant
INVARIANTS
  RefusalsAreProblems
