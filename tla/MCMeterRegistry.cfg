CONSTANTS
  m1 = m1
  m2 = m2
  m3 = m3
  lower = lower
  upper = upper
  garbled = garbled
  Serial <- Meters
  Text <- Texts
  Pubkey = {"k1"}
  KeyOf <- Decode
  Registration = {r1, r2}
  Batch = {"b"}
  None = None
SPECIFICATION Spec
SYMMETRY Symmetry
CONSTRAINT GarbledOnce
INVARIANTS
  TypeOK
  DuplicatesExplained
  RevokedKeyIsOut
CHECK_DEADLOCK FALSE
