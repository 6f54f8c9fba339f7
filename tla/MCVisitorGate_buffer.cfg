SPECIFICATION Spec
CONSTANTS
  Requests = {r1}
  Keys = {w1}
  Tenants = {t1}
  Hosts <- MCHosts
  Values <- MCValues
  Shapes <- BufferShapes
  MaxBody = 1
  MaxSent = 3
  RateAnswers = {TRUE}
  Absent = Absent
  NoRecord = NoRecord
  NoShape = NoShape
  NoTenant = NoTenant
INVARIANTS
  BufferBounded
