SPECIFICATION ServiceSpec
CONSTANTS
  MaxUint32 = 15
  WindowSize = 1
  ProbeBuffer = 1
  FallbackDepth = 2
  MaxLedger = 3
  LedgerContents <- SingleContents
  BufferDepth = 1
  PageLimit = 3
  MaxLeaves = 4
  StartLedger = 1
  Faults = {"rpc", "save", "cursor"}
  Tolerance = 1
  Depth = 2
  Modulus = 16
  Value <- LedgerValues
INVARIANTS
  ServiceTypeOK
  PathOfCommitment
  ProofMissesOnePageAtMost
  RootMissesOnePageAtMost
  ServedProofVerifies
