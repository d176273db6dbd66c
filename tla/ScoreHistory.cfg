SPECIFICATION Spec
CONSTANTS
  Claims = {1, 2}
  PaperOf <- mcPaperOf
  Facts <- mcFacts
  Valid <- mcValid
  Nodes = {1, 2}
  NodePaper <- mcNodePaper
  Cover <- mcCover
  Direct = {2}
  Readings = {"one", "other"}
  Scorers = {"s1"}
  Subscribed = {1}
  Threshold = 10
  MaxTime = 5
  MaxObservations = 2
  MaxLinks = 2
  MaxDigests = 1
INVARIANTS
  ScoresAreCurrent
  SupportNeverHurts
INVARIANT DigestsCompareStates
CHECK_DEADLOCK FALSE
