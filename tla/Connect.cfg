CONSTANTS
  Kinds = {"plain", "tls"}
  Timeout = 3
  MaxSetBack = 2
SPECIFICATION FairSpec
INVARIANTS TypeOK OutcomeAllowed WaitsWithinTimeout SuccessMeansConnected
PROPERTY Returns
CHECK_DEADLOCK FALSE
