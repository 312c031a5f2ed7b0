SPECIFICATION Spec
CONSTANTS
  Repos = {r1, r2}
  Ids = {v1}
  None = None
  Loop = Loop
  Triggers = {t1, t2}
  Listings <- UpToTwo
  Faults <- FaultKinds
SYMMETRY SafetySymmetry
INVARIANTS
  TypeOK
  OneCycleAtATime
  CursorSound
  CursorTracksFiled
  NoRefileWithoutLoss
  SuccessIsDurable
PROPERTIES
  SaveKeepsEntries
