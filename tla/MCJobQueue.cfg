CONSTANTS
  Job = {"j1"}
  MAX_ATTEMPTS = 3
  MaxRun = 4
  THRESHOLD = 2
  MaxFailures = 2
SPECIFICATION Spec
INVARIANTS
  TypeOK
  BreakerMatchesCount
  RestIsSettled
  OneMintOnceAnchored
PROPERTIES
  ComesToRest
CHECK_DEADLOCK FALSE
