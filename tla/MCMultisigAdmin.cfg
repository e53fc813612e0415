CONSTANTS
  A = A
  B = B
  C = C
  D = D
  NoAddress = NoAddress
  NoRotation = NoRotation
  Address <- MCAddress
  SignerSets <- MCDuplicateSets
  MaxOps = 2
SPECIFICATION Spec
INVARIANTS
  TypeOK
  PendingCanComplete
  OneBitPerKey
PROPERTIES
  RotationIsApproved
  ExecutedIsFinal
CHECK_DEADLOCK FALSE
