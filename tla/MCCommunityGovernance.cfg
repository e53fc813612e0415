CONSTANTS
  A = A
  B = B
  C = C
  H1 = H1
  H2 = H2
  NoAddress = NoAddress
  NoUpgrade = NoUpgrade
  Address <- Voters
  MaxProposals = 2
  Hash <- Hashes
  Version = {"1.0.0"}
  InitialVersion = "1.0.0"
  VotingPeriods = {0, 1}
  Bps = {2}
  Timelocks = {2}
  DefaultQuorumBps = 2
  DefaultThresholdBps = 3
  ExecuteTimelockLedgers = 1
  UpgradeTimelockLedgers = 1
  Scale = 4
  WordBits = 2
  MaxU32 = 11
  MaxLedger = 2
SPECIFICATION Spec
SYMMETRY Symmetry
CONSTRAINT OneHalfAtATime
INVARIANTS
  TypeOK
  BitmapRecordsVoters
  TallyCountsBallots
  OutcomeMatchesTally
  ExecutionIsDelayed
  FinalizeFitsVoters
PROPERTIES
  DecidedIsFrozen
  UpgradeIsAnnounced
  ImplementsBallotBox
CHECK_DEADLOCK FALSE
