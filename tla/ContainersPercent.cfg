SPECIFICATION Spec
CONSTANTS
  Ids <- OneId
  Inside <- Flat
  Pids = {p}
  Host = Host
  None = None
  Versions = {"v2"}
  Cores = 1
  MaxChurn = 3
  MaxClock = 1
  Window = 1
  NameOf <- Names
  Known = {}
  Files = {}
  Layer <- Layers
  Sealed = {}
  InodeOf <- Links
  Requests <- ListAll
  SocketTimeout = 0
INVARIANT PercentWithinHost
