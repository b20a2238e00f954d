SPECIFICATION EitherSpec
CONSTANTS
  Pids <- ThreePids
  Private <- OneForeign
  Mems = {1, 2}
  Cores = 1
  Uptime0 = 1
  MaxClock = 2
  MaxGen = 1
  Window = 1
  Counts <- SomeCounts
  SortOrders = {"cpu", "memory", "memroy"}
  Modes = {"instant", "average"}
  Word = 64
  None = None
INVARIANTS
  TypeOK
  UsageWithinWindow
  OwnerlessOnlyIfRecycled
  CancelStopsCollection
  RankedByUsage
PROPERTY CallReturns
