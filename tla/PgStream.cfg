SPECIFICATION FairSpec
CONSTANTS
  Log <- Interleaved
  WalEnd = 12
  Keepalives = {7, 10, 12}
  Buffer = 1
  MayFail = TRUE
  MaxRestarts = 2
CHECK_DEADLOCK FALSE
INVARIANTS
  Inv
  AtLeastOnce
PROPERTIES
  CloseEnds
