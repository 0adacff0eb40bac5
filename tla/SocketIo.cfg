CONSTANTS
  MaxRetryCount = 6
  Units = 3
SPECIFICATION FairSpec
INVARIANTS TypeOK OutcomeAllowed MovedOnce FatalEnds
PROPERTY Returns
CHECK_DEADLOCK FALSE
