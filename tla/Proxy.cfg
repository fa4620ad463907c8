SPECIFICATION ProxySpec
CONSTANTS
  Clients = {"c", "d"}
  Backends = {"b"}
  Earlier = "x"
  Leftover = {"n"}
  Veterans = {"c"}
  Names = {"n", "m"}
  None = "none"
  Limit = 1
  MaxClients = 2
  Menu <- Shared
  Cancelled = {"c"}
  Room = 1
  Errors = TRUE
  MayClose = TRUE
  MaxMessages = 3
  MaxDeaths = 1
CHECK_DEADLOCK FALSE
INVARIANTS
  ProxyInv
  
  ReadyGoesHome
  RunsOwnUnlessDrift
  CancelNamesHolder
