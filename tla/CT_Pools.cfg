SPECIFICATION Spec
CONSTANTS
  Users = {u1, u2}
  Conns = {c1}
  Plugins = {p1}
  Requests = {r1, r2}
  CatalogFaults <- CatalogFaultKinds
  MaxVersion = 2
  Nothing = Nothing
  u1 = u1
  u2 = u2
  c1 = c1
  p1 = p1
  r1 = r1
  r2 = r2
SYMMETRY CatalogSymmetry
INVARIANTS
  ToldMeansDone
  SnapshotsHaveConnection
  SchemasAreOwn
  SnapshotsAreBounded
  PreparedFindsPool
  PoolsAreShared
CHECK_DEADLOCK FALSE
