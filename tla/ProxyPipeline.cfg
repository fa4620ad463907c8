SPECIFICATION ProxySpec
CONSTANTS
  Clients = {"c", "d"}
  Backends = {"b"}
  Earlier = "x"
  Leftover = {}
  Veterans = {}
  Names = {"n"}
  None = "none"
  Limit = 1
  MaxClients = 2
  Menu <- SameName
  Cancelled = {}
  Room = 1
  Errors = FALSE
  MayClose = FALSE
  MaxMessages = 3
  MaxDeaths = 0
CHECK_DEADLOCK FALSE
INVARIANT RepliesGoHome
