CONSTANTS
  A = A
  B = B
  C = C
  D = D
  NoAddress = NoAddress
  NoRotation = NoRotation
  Address <- MCAddress
  SignerSets <- MCSignerSets
  MaxOps = 2
SPECIFICATION Spec
PROPERTY DistinctSignersApproved
CHECK_DEADLOCK FALSE
