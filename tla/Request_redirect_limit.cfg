CONSTANTS
  EnableHttps = TRUE
  RedirectMaxCount = 1
  CounterModulus = 4
  Int64Max = 100
  Urls = {"http"}
  HandlerSets <- AllHandlers
  RequestUnits = 1
  MaxHeaderReads = 1
  MaxBody = 0
  MaxRedirects = 2
  Ticks = 1
  MaxClockSets = 0
SPECIFICATION Spec
INVARIANT DisconnectedOnce
CHECK_DEADLOCK FALSE
