SPECIFICATION Spec
CONSTANTS
  MaxUint32 = 15
  WindowSize = 1
  ProbeBuffer = 0
  FallbackDepth = 0
  MaxLedger = 3
  LedgerContents <- SparseContents
  BufferDepth = 2
  PageLimit = 1
  MaxLeaves = 3
  StartLedger = 0
  Faults = {"rpc", "range", "prune", "power", "save"}
INVARIANTS
  TypeOK
  TreeMirrorsStore
  CursorBoundsStore
  NoSilentLoss
  LeavesInChainOrder
PROPERTY
  CursorMonotone
