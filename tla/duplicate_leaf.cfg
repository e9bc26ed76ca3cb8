SPECIFICATION Spec
CONSTANTS
  MaxUint32 = 15
  WindowSize = 1
  ProbeBuffer = 1
  FallbackDepth = 2
  MaxLedger = 2
  LedgerContents <- MixedContents
  BufferDepth = 1
  PageLimit = 2
  MaxLeaves = 6
  StartLedger = 1
  Faults = {}
INVARIANT TreeIsReplayOfStore
