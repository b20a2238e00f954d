SPECIFICATION Spec
CONSTANTS
  Cpus = {0, 1}
  Stat0 <- TwoCpus
  Hotplug = TRUE
  Requests <- Asked
  Word = 1048576
  MaxClock = 1
  Window = 1
  None = None
INVARIANTS
  TypeOK
  SteadyCores
  QuotaWithinHost
  LimitedIsOfQuota
  PanicsOnlyOnChange
