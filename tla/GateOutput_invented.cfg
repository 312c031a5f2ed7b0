SPECIFICATION Spec
CONSTANTS
  GateCount = 2
  Cap = 3
  MaxPrinted = 4
  MaxPiece = 2
  Names <- SomeNames
INVARIANTS
  OnlyPrintedMarkers
CHECK_DEADLOCK FALSE
