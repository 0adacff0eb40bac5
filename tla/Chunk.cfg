CONSTANTS
  Payload = {"0", "CR", "LF"}
  MaxBody = 3
  Hex <- HexDigits
SPECIFICATION FairSpec
INVARIANTS TypeOK DeliveredIsPrefix CompletedIsWhole
PROPERTY Completes
CHECK_DEADLOCK FALSE
