SPECIFICATION ServiceSpec
CONSTANTS
  MaxUint32 = 15
  WindowSize = 1
  ProbeBuffer = 1
  FallbackDepth = 2
  MaxLedger = 2
  LedgerContents <- PairContents
  BufferDepth = 1
  PageLimit = 3
  MaxLeaves = 8
  StartLedger = 1
  Faults = {}
  Tolerance = 0
  Depth = 3
  Modulus = 16
  Value <- LedgerValues
INVARIANT PathAndRootOfOneTree
