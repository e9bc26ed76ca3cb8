SPECIFICATION ServiceFairSpec
CONSTANTS
  MaxUint32 = 15
  WindowSize = 1
  ProbeBuffer = 1
  FallbackDepth = 2
  MaxLedger = 3
  LedgerContents <- SingleContents
  BufferDepth = 1
  PageLimit = 3
  MaxLeaves = 8
  StartLedger = 1
  Faults = {}
  Tolerance = 1
  Depth = 3
  Modulus = 16
  Value <- LedgerValues
PROPERTY Resynchronises
