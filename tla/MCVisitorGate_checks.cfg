SPECIFICATION FairSpec
CONSTANTS
  Requests = {r1}
  Keys = {w1}
  Tenants = {t1, t2}
  Hosts <- MCHosts
  Values <- MCValues
  Shapes <- ChecksShapes
  MaxBody = 1
  MaxSent = 2
  RateAnswers = {TRUE, FALSE}
  Absent = Absent
  NoRecord = NoRecord
  NoShape = NoShape
  NoTenant = NoTenant
INVARIANTS
  TypeOK
  OneVersionDecides
PROPERTIES
  CompleteIsAnswered
