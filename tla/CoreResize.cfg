SPECIFICATION Spec
CONSTANTS
  c1 = c1
  c2 = c2
  k1 = k1
  k2 = k2
  r1 = r1
  r2 = r2
  Maintainer = Maintainer
  Closer = Closer
  NoConn = NoConn
  Nobody = Nobody
  Callers = {c1, c2}
  Conns = {k1, k2}
  Resizers = {r1, r2}
  Evictors = {}
  MayClose = FALSE
  HealthChecks = FALSE
  ShardCount = 1
  MinConns = 0
  InitLimit = 1
  Ceiling = 2
  Targets = {1, 2}
  Parkers <- MCParkers
SYMMETRY Symmetry
INVARIANTS
  Inv
PROPERTIES
  ImplementsPermits
