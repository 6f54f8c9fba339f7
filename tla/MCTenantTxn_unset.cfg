SPECIFICATION Spec
CONSTANTS
  Callers = {c1, c2}
  Conns = {k1}
  Tenants = {t1}
  Slugs = {}
  Hashes = {h1}
  NoConn = NoConn
  NoRow = NoRow
  NoStmt = NoStmt
  Unset = Unset
  Empty = Empty
INVARIANTS
  UnsetIsFalse
