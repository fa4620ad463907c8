SPECIFICATION FairSpec
CONSTANTS
  c1 = c1
  c2 = c2
  k1 = k1
  k2 = k2
  e1 = e1
  Maintainer = Maintainer
  Closer = Closer
  NoConn = NoConn
  Nobody = Nobody
  Callers = {c1, c2}
  Conns = {k1, k2}
  Resizers = {}
  Evictors = {e1}
  MayClose = TRUE
  HealthChecks = TRUE
  ShardCount = 2
  MinConns = 1
  InitLimit = 1
  Ceiling = 1
  Targets = {}
  Parkers <- MCParkers
CHECK_DEADLOCK FALSE
INVARIANTS
  Inv
  ClosedIsEmpty
PROPERTIES
  ImplementsPermits
  CloseReturns
  AcquireEndsWhileOpen
