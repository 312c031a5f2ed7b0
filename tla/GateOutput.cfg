SPECIFICATION Spec
CONSTANTS
  GateCount = 2
  Cap = 3
  MaxPrinted = 4
  MaxPiece = 2
  Names <- SomeNames
INVARIANTS
  TypeOK
  BufferIsLeading
  FindingsAreExact
  OneTaskPerFindingSet
CHECK_DEADLOCK FALSE
