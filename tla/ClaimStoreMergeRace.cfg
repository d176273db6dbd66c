SPECIFICATION Spec
CONSTANTS
  n1 = n1
  n2 = n2
  NoVersion = NoVersion
  Workers = {w1, w2}
  Papers = {1, 2}
  Keys = {k1}
  Values = {1}
  Versions = {v1}
  Passages = {n2}
  PassagePaper <- MCPassagePaper
  MaxClaims = 2
  MaxBatch = 1
  MaxRuns = 2
  MaxRebuilds = 0
  MaxSubscriptions = 0
INVARIANT EvidenceOnRoots
CHECK_DEADLOCK FALSE
