SPECIFICATION Spec
CONSTANTS
  Cpus = {0, 1}
  Stat0 <- TwoCpus
  Hotplug = FALSE
  Requests <- Plain
  Word = 1048576
  MaxClock = 1
  Window = 1
  None = None
INVARIANT CoresMatch
