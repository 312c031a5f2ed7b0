SPECIFICATION Spec
CONSTANTS
  Repos = {r1, r2}
  Ids = {v1, v2}
  None = None
  Loop = Loop
  Triggers = {t1}
  Listings <- UpToTwo
  Faults <- HarmlessFaults
SYMMETRY SafetySymmetry
INVARIANTS
  NeverRefiled
