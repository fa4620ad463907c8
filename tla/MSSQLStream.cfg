SPECIFICATION FairSpec
CONSTANTS
  Log <- Mixed
  Tables = {"a", "b"}
  Configured = {"a"}
  Buffer = 1
  MayClose = TRUE
  MayClean = TRUE
  MaxManaged = 1
  MaxFailures = 1
CHECK_DEADLOCK FALSE
INVARIANTS
  Inv
  AtLeastOnce
PROPERTIES
  ResumeIsRetained
  Delivered
