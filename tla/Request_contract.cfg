CONSTANTS
  EnableHttps = TRUE
  RedirectMaxCount = 2
  CounterModulus = 4
  Int64Max = 100
  Urls = {"https"}
  HandlerSets <- EveryHandlerSet
  RequestUnits = 1
  MaxHeaderReads = 1
  MaxBody = 2
  MaxRedirects = 2
  Ticks = 1
  MaxClockSets = 0
SPECIFICATION Spec
PROPERTY FollowsContract
CHECK_DEADLOCK FALSE
