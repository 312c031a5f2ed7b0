SPECIFICATION Spec
CONSTANTS
  GateCount = 2
  MaxRepos = 2
INVARIANTS
  ScanFailedMeansGateFailed
