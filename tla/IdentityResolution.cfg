SPECIFICATION ResolveSpec
CONSTANTS
  x = x
  z = z
  y = y
  t = t
  k = k
  plain = plain
  url = url
  None = None
  Candidates <- AllCandidates
  MaxCandidates = 4
INVARIANTS
  DoiNamesPaper
  ArxivNamesPaper
CHECK_DEADLOCK FALSE
