CONSTANTS
  Payload = {"x"}
  MaxBody = 3
  Hex <- HexDigits
SPECIFICATION Spec
INVARIANT NoExceptionEscapes
CHECK_DEADLOCK FALSE
