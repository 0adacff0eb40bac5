SPECIFICATION FairSpec
CONSTANTS
  w1 = w1
  w2 = w2
  w3 = w3
  Threads = {w1, w2, w3}
  Hooks = {"configure", "reset", "throw"}
  MaxSockets = 4
INVARIANTS
  TypeOK
  ConfiguredBeforeUse
  NullHasCause
PROPERTIES
  ContextFixed
  CreateReturns
CHECK_DEADLOCK FALSE
