SPECIFICATION Spec
CONSTANTS
  n1 = n1
  n2 = n2
  NoVersion = NoVersion
  Workers = {w1, w2}
  Papers = {1, 2}
  Keys = {k1}
  Values = {1}
  Versions = {v1}
  Passages = {}
  PassagePaper <- MCPassagePaper
  MaxClaims = 3
  MaxBatch = 1
  MaxRuns = 2
  MaxRebuilds = 1
  MaxSubscriptions = 1
SYMMETRY WorkerSymmetry
INVARIANTS
  TypeOK
  CanonicalPointsToRoot
  DuplicatesAreChecked
CHECK_DEADLOCK FALSE
