SPECIFICATION Spec
CHECK_DEADLOCK FALSE
INVARIANTS
  TypeOK
  CrossFades
  TreeGrowsUpward
  CompleteBeforeItGoes
  NothingReturns
  CounterTracksLeaves
  VerdictFollowsProof
  HexLinesDiffer
