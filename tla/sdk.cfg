SPECIFICATION SdkFairSpec
CONSTANTS
  Burst = 1
  MaxTicks = 1
  Calls = {c1, c2}
  Timeout = 1
  HexWidth = 4
INVARIANTS
  SdkTypeOK
  BurstThenRate
  TypedErrorsAreTrue
  NeverBadRequest
  OverdueOnlyInBody
  LedgerMissingOnlyInUpperCase
  WitnessIsFixedWidth
PROPERTY EveryCallSettles
