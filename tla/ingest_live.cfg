SPECIFICATION FairSpec
CONSTANTS
  MaxUint32 = 15
  WindowSize = 1
  ProbeBuffer = 1
  FallbackDepth = 2
  MaxLedger = 3
  LedgerContents <- DenseContents
  BufferDepth = 1
  PageLimit = 2
  MaxLeaves = 3
  StartLedger = 1
  Faults = {"rpc", "crash"}
PROPERTY
  EveryCommitmentIndexed
  CancelledRunEnds
  ImplementsPermanentIndex
