SPECIFICATION Spec
CONSTANTS
  Pids = {1}
  Private = {}
  Mems = {1}
  Cores = 1
  Uptime0 = 1
  MaxClock = 2
  MaxGen = 1
  Window = 1
  Counts = {1}
  SortOrders = {"cpu"}
  Modes = {"instant"}
  Word = 64
  None = None
INVARIANT RowsWithinCapacity
