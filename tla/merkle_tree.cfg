CONSTANTS
  Depth = 3
  Modulus = 3
  Values = {0, 1, 2, 3}
SPECIFICATION Spec
INVARIANTS
  TypeOK
  IndexFindsLastLeaf
  RootIsOfFullTree
  InsertClimbsToRoot
  ProofVerifies
  PathBindsTree
