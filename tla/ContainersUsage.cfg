SPECIFICATION Spec
CONSTANTS
  Ids <- Nested
  Inside <- NInsideA
  Pids = {p, q}
  Host = Host
  None = None
  Versions = {"v2", "none"}
  Cores = 1
  MaxChurn = 3
  MaxClock = 2
  Window = 1
  NameOf <- Names
  Known = {}
  Files = {}
  Layer <- Layers
  Sealed = {}
  InodeOf <- Links
  Requests <- ListAll
  SocketTimeout = 0
INVARIANTS
  TypeOK
  TotalWithinHost
  SteadyReported
SYMMETRY PidSymmetry
