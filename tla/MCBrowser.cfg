CONSTANTS
  Address = {"G"}
  None = None
  Certificate = {"c1"}
  Request = {"r1", "r2"}
  Proposal = {"p1", "p2"}
  SeedActive = {}
  SeedClosed = {"p2"}
  VoteChoice = {"for", "against"}
  Submission = {"s1", "s2"}
  Meter = {"m1"}
SPECIFICATION Spec
INVARIANTS
  TypeOK
  RequestsNameWallet
  BusyMatchesRequests
PROPERTIES
  SpinnersEnd
CHECK_DEADLOCK FALSE
