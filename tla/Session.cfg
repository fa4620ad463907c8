SPECIFICATION FairSpec
CONSTANTS
  Conns = {"c"}
  MaxHandles = 2
  MaxTxs = 2
CHECK_DEADLOCK FALSE
INVARIANTS
  Inv
  NextCallerClean
  OwnTransaction
PROPERTIES
  ReleaseEnds
