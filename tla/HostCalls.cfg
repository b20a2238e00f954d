SPECIFICATION Spec
CONSTANTS
  Groups = {"a", "b"}
  Accounts <- TheAccounts
  Meminfos <- TheMeminfos
  NoLimit = NoLimit
  Host = Host
  KiB = 2
  Devices = {1, 2}
  Starts = {2}
  Cap = 1
  Loads <- TheLoads
  Interval = 1
  MaxOver = 1
  MaxSlack = 1
  MaxMoves = 2
  Pids <- OnePid
  Private <- OnePid
  Mems = {1}
  Cores = 1
  Uptime0 = 1
  MaxClock = 2
  MaxGen = 2
  Window = 1
  Word = 64
  Procs <- TwoProcs
  Numbers = {0, 1}
  Sockets4 = {"s4"}
  Sockets6 = {"s6"}
  MaxChanges = 3
  Timeout = 2
  Linger = 1
  Disks = {"root", "data", "over", "inner"}
  Root = "root"
  Paths = {"/", "/d", "/d/x"}
  Below <- IsBelow
  Point <- ThePoints
  Excluded = {"over"}
  Blockless = {"inner"}
  MaxMounts = 2
  Tables <- TheTables
  MaxColumns = 2
INVARIANTS
  CallsTypeOK
  MemoryOfOneSource
  FailsForCause
  PressureOfOneSource
  RateWithinSpan
  TotalWithinSpan
  SteadyRowsExact
  RowOfOneProcess
  LookupAnswers
  
  StatesReconcile
  VerdictHeard
  WithinTimeouts
  SteadyDisksListed
  CountersPaired
PROPERTY
  RunReturns
