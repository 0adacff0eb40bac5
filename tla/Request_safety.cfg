CONSTANTS
  EnableHttps = TRUE
  RedirectMaxCount = 1
  CounterModulus = 4
  Int64Max = 100
  Urls = {"invalid", "unsupported", "http", "https"}
  HandlerSets <- SomeHandlers
  RequestUnits = 2
  MaxHeaderReads = 2
  MaxBody = 2
  MaxRedirects = 2
  Ticks = 1
  MaxClockSets = 1
SPECIFICATION Spec
INVARIANTS TypeOK NoNullDereference CancelBound BodyIntact
CHECK_DEADLOCK FALSE
