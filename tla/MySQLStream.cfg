SPECIFICATION FairSpec
CONSTANTS
  Log <- Mixed
  Tables = {"a", "b"}
  Configured = {"a"}
  Buffer = 1
  MayPurge = TRUE
  MayClose = TRUE
  MaxFailures = 1
CHECK_DEADLOCK FALSE
INVARIANTS
  Inv
  AtLeastOnce
  PositionIsServed
PROPERTIES
  Delivered
