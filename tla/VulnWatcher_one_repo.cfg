SPECIFICATION FairSpec
CONSTANTS
  Repos = {r1}
  Ids = {v1, v2}
  None = None
  Loop = Loop
  Triggers = {t1}
  Listings <- UpToTwo
  Faults <- FaultKinds
INVARIANTS
  CursorTracksFiled
  NoRefileWithoutLoss
PROPERTIES
  GateIsFreed
  FindingsAreFiled
  ForcedCyclePublishes
