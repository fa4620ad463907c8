SPECIFICATION FairSpec
CONSTANTS
  Callers = {c1, c2}
  Tables = {"a", "b"}
  Configured = {"a"}
  StartLSN = 0
  CreatePublicationOpt = TRUE
  CreateSlotOpt = TRUE
  Lossy = TRUE
  MaxLsn = 2
  MaxStreams = 2
CHECK_DEADLOCK FALSE
INVARIANTS
  Inv
  BeginsWhereAsked
  SyncedIsPublished
PROPERTIES
  CloseReturns
