SPECIFICATION FairSpec
CONSTANTS
  x = x
  y = y
  z = z
  ta = ta
  tb = tb
  k = k
  None = None
  Workers = {w1, w2}
  Scopes = {s1, s2}
  Sightings <- TwoWorks
  Ceiling = 1
  MaxPapers = 2
  MaxRuns = 2
  MaxLosses = 1
INVARIANT SectionsFollowTei
PROPERTY RunsEnd
CHECK_DEADLOCK FALSE
