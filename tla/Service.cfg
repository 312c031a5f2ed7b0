SPECIFICATION FairSpec
CONSTANTS
  Intervals <- SomeIntervals
  MaxInterval = 4
  CycleBound = 3
INVARIANTS
  TypeOK
  DetectionBound
  TicksNotQueued
  OnlyConfiguredPolls
PROPERTIES
  ShutdownEnds
\* The process may end.
CHECK_DEADLOCK FALSE
