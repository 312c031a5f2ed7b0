SPECIFICATION Spec
CONSTANTS
  Repos = {r1, r2}
  Ids = {v1}
  None = None
  Loop = Loop
  Triggers = {t1}
  Listings <- UpToTwo
  Faults <- RateLimitOnly
INVARIANTS
  NeverRefiled
