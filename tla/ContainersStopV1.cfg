SPECIFICATION Spec
CONSTANTS
  Ids <- OneId
  Inside <- Flat
  Pids = {p}
  Host = Host
  None = None
  Versions = {"v1"}
  Cores = 1
  MaxChurn = 4
  MaxClock = 1
  Window = 1
  NameOf <- Names
  Known <- OneId
  Files = {}
  Layer <- Layers
  Sealed = {}
  InodeOf <- Links
  Requests <- ListAll
  SocketTimeout = 1
INVARIANT StopNeverFails
