SPECIFICATION Spec
SYMMETRY Symmetry
CONSTANTS
  o1 = o1
  o2 = o2
  b1 = b1
  b2 = b2
  b3 = b3
  Objects = {o1, o2}
  Blocks = {b1, b2, b3}
  Null = Null
  Bytes = {"zero", "a"}
  MaxSize = 3
INVARIANTS
  TypeOK
  Ownership
  NoGarbage
  StaleOnlyByMoveAssign
PROPERTIES
  OperationsShow
CHECK_DEADLOCK FALSE
