SPECIFICATION FairSpec
CONSTANTS
  Repos = {r1, r2}
  Hubs <- SomeHubs
  Answers = {"scan_failed", "create"}
  PageSize = 1
  MaxListPages = 3
INVARIANTS
  TypeOK
  InventoryComplete
  VerdictsAreDeserved
  RateLimitEndsCycle
  MetricsReconcile
PROPERTIES
  CycleEnds
