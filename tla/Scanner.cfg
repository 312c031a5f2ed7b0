SPECIFICATION FairSpec
CONSTANTS
  GateCount = 2
  MaxRepos = 2
INVARIANTS
  TypeOK
  VerdictIsEarned
  CloneDirRemoved
  OverrunBounded
PROPERTIES
  ScanReturns
