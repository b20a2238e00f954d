SPECIFICATION Spec
CONSTANTS
  Ids <- TwoIds
  Inside <- Flat
  Pids = {p, q}
  Host = Host
  None = None
  Versions = {"v1"}
  Cores = 1
  MaxChurn = 2
  MaxClock = 0
  Window = 1
  NameOf <- Names
  Known <- JustB
  Files = {1, 2, 3}
  Layer <- Layers
  Sealed = {3}
  InodeOf <- Links
  Requests <- Calls
  SocketTimeout = 1
INVARIANTS
  LookupFindsSteady
  FailsOnlyIfDisturbed
  LayerCounted
PROPERTY CallReturns
