SPECIFICATION Spec
CONSTANTS
  n1 = n1
  n2 = n2
  NoVersion = NoVersion
  Workers = {w1}
  Papers = {1, 2}
  Keys = {k1}
  Values = {1, 2}
  Versions = {v1, v2}
  Passages = {n2}
  PassagePaper <- MCPassagePaper
  MaxClaims = 3
  MaxBatch = 2
  MaxRuns = 2
  MaxRebuilds = 0
  MaxSubscriptions = 0
INVARIANTS
  EvidenceOnRoots
  CheckedRootsWereCompared
  ExtractionStateIsTrue
PROPERTY LinkedClaimsAreKept
CHECK_DEADLOCK FALSE
