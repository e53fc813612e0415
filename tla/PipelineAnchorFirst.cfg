CONSTANTS
  Q1 = Q1
  Q2 = Q2
  Q3 = Q3
  B1 = B1
  B2 = B2
  R1 = R1
  R2 = R2
  M1 = M1
  Request = {Q1}
  Batch = {B1}
  Reading = {R1}
  Meter = {M1}
  BatchOf <- MCBatchOf
  ReadingOf <- MCReadingOf
  MeterOf <- MCMeterOf
  MintCall <- MCMintCall
  Signed = {Q1}
  Second = {1}
  NoTx = NoTx
  MaxSequence = 2
SPECIFICATION Spec
INVARIANT AnchoredBeforeMinted
CHECK_DEADLOCK FALSE
