SPECIFICATION Spec
CONSTANTS
  MaxLength = 5
  Bytes = {1, 2, 3, 4, 5}
  Bodies <- Numbered
  PeekBytes = 3
INVARIANTS
  TypeOK
  VerdictUnharmed
PROPERTIES
  ImplementsPlainBody
