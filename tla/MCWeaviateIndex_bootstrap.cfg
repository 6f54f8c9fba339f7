SPECIFICATION Spec
CONSTANTS
  Boots = {b1, b2}
  Tenants <- ThreeTenants
  Asked <- TwoTenants
  MaxInserts = 2
INVARIANTS
  TypeOK
  ReturnedMeansReady
