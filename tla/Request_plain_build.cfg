CONSTANTS
  EnableHttps = FALSE
  RedirectMaxCount = 1
  CounterModulus = 4
  Int64Max = 100
  Urls = {"http", "https"}
  HandlerSets <- AllHandlers
  RequestUnits = 1
  MaxHeaderReads = 2
  MaxBody = 2
  MaxRedirects = 2
  Ticks = 1
  MaxClockSets = 2
SPECIFICATION FairSpec
INVARIANT DescriptorsReleased
PROPERTIES Termination Concluded
CHECK_DEADLOCK FALSE
