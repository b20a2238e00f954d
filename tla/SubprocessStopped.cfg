SPECIFICATION SubprocessSpec
CONSTANTS
  Timeout = 2
  Linger = 1
INVARIANT StoppedInFull
CHECK_DEADLOCK FALSE
