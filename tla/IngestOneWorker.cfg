SPECIFICATION Spec
CONSTANTS
  x = x
  y = y
  z = z
  ta = ta
  tb = tb
  k = k
  None = None
  Workers = {w1}
  Scopes = {s1}
  Sightings <- FourSightings
  Ceiling = 3
  MaxPapers = 3
  MaxRuns = 2
  MaxLosses = 1
INVARIANTS
  InsertsAreNew
  JobsAddUp
PROPERTIES
  TerminalStaysTerminal
  CompletedRunsLeaveNothingPending
CHECK_DEADLOCK FALSE
