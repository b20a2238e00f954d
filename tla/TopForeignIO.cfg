SPECIFICATION Spec
CONSTANTS
  Pids = {1}
  Private = {1}
  Mems = {1}
  Cores = 1
  Uptime0 = 1
  MaxClock = 2
  MaxGen = 0
  Window = 1
  Counts = {1}
  SortOrders = {"cpu"}
  Modes = {"instant", "average"}
  Word = 64
  None = None
INVARIANT AccessibleMeansRead
