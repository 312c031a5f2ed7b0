SPECIFICATION Spec
CONSTANTS
  Values = {Empty, c1, c2}
  Empty = Empty
  Missing = Missing
  Torn = Torn
INVARIANTS
  TypeOK
  OnlyDamageTears
  NoTmpAfterSave
PROPERTIES
  ImplementsDurableCursor
