SPECIFICATION Spec
CONSTANTS
  Callers = {c1, c2}
  Conns = {k1, k2}
  Tenants = {t1, t2}
  Slugs = {s1}
  Hashes = {h1, h2}
  NoConn = NoConn
  NoRow = NoRow
  NoStmt = NoStmt
  Unset = Unset
  Empty = Empty
SYMMETRY Symmetry
INVARIANTS
  TypeOK
  SeesOwnRows
  NoTenantLeft
  WaitsOnOwnTenant
  NoUnscopedRows
PROPERTIES
  CommitsOwnRows
  ImplementsStore
