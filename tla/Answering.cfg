SPECIFICATION Spec
CONSTANTS
  Papers = {1, 2}
  Nodes = {1, 2, 3, 4, 5}
  PaperOf <- mcPaperOf
  ParentOf <- mcParentOf
  DepthOf <- mcDepthOf
  BuildOf <- mcBuildOf
  NoParent = 0
  ShortlistLimit = 2
  Limits = {0, 2, 3}
  Relevances = {20, 90}
  Paged = {1, 2, 4, 5}
  Identified = {1}
  LinkLimit = 2
INVARIANTS
  BudgetIsKept
  OpenedOnRequest
  TraceIsTrue
  AnswersAreGrounded
  EvidenceIsLinked
PROPERTIES
  RequestEnds
CHECK_DEADLOCK FALSE
