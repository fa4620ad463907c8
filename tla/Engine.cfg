SPECIFICATION EngineFairSpec
CONSTANTS
  Names = {"a", "b"}
  Pools = {"P"}
  Subs = {"s", "t"}
  None = "none"
  Closers = {"k", "l"}
CHECK_DEADLOCK FALSE
INVARIANTS
  Accounted
  SameResult
PROPERTIES
  CloseReturns
