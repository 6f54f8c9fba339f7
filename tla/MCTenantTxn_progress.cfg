SPECIFICATION FairSpec
CONSTANTS
  Callers = {c1, c2, c3}
  Conns = {k1, k2}
  Tenants = {t1}
  Slugs = {}
  Hashes = {h1, h2}
  NoConn = NoConn
  NoRow = NoRow
  NoStmt = NoStmt
  Unset = Unset
  Empty = Empty
PROPERTIES
  EveryCallerLeaves
VIEW NoHistory
