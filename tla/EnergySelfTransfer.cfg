CONSTANTS
  A = A
  B = B
  C = C
  H1 = H1
  H2 = H2
  H3 = H3
  NoAddress = NoAddress
  Address = {A, B, C}
  MaxI128 = 2
  Approving <- MCApproving
  MaxGranted = 2
  Hash <- MCHash
  Nonce = {1, 2}
  Version = {"1.0.0", "2.0.0"}
  InitialVersion = "1.0.0"
  BucketId = {0, 1}
  GetBucketId <- MCGetBucketId
  Unanchored = Unanchored
  MaxU32 = 2
  MaxLedger = 2
SPECIFICATION Spec
CONSTRAINT OneContractAtATime
PROPERTIES
  TransferKeepsHoldings
CHECK_DEADLOCK FALSE
