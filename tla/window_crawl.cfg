SPECIFICATION Spec
CONSTANTS
  MaxUint32 = 12
  WindowSize = 3
  ProbeBuffer = 1
  FallbackDepth = 5
  LastClosed = 11
INVARIANTS
  TypeOK
  NothingSkipped
  NothingFetchedTwice
PROPERTY
  EveryLedgerPassed
CHECK_DEADLOCK FALSE
