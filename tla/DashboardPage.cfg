SPECIFICATION Spec
CONSTANTS
  Workers <- Readers
  Aware <- Readers
  Naps <- ReaderNaps
  Shared <- TwoShared
  Limiters <- OneLimiter
  Rank <- PanelOrder
  Modes = {"serve", "file"}
  None = None
INVARIANTS
  TypeOK
  EveryReaderSettledOnce
  NoCancelledPanelServed
PROPERTIES
  PageStillAfterWait
  KeepsPromise
  RenderingEnds
