CONSTANTS
  EnableHttps = TRUE
  RedirectMaxCount = 1
  CounterModulus = 4
  Int64Max = 100
  Urls = {"https"}
  HandlerSets <- AllHandlers
  RequestUnits = 1
  MaxHeaderReads = 1
  MaxBody = 1
  MaxRedirects = 0
  Ticks = 1
  MaxClockSets = 0
SPECIFICATION Spec
INVARIANT DescriptorsReleased
CHECK_DEADLOCK FALSE
