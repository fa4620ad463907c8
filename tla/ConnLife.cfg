SPECIFICATION FairSpec
CONSTANTS
  c1 = c1
  k1 = k1
  k2 = k2
  Maintainer = Maintainer
  Callers = {c1}
  Conns = {k1, k2}
  MinConns = 1
  HealthChecks = TRUE
  MaxConnLifetime = 2
  MaxConnIdleTime = 1
  NeedsSetup = TRUE
  Resolution = 1
  MaxTime = 2
INVARIANTS
  Inv
  NoEarlyExpiry
PROPERTIES
  OnlyFitIsReturned
  StaleIsReaped
