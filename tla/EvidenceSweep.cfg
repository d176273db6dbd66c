SPECIFICATION Spec
CONSTANTS
  Subscribers = {"u", "v"}
  Scopes = {"a", "b"}
  Claims = {"claim", "duplicate"}
  RootOf <- mcRootOf
  Papers = {1, 2}
  Matching <- mcMatching
  Ceiling = 2
  MaxSubscriptions = 2
  Nothing = "nothing"
INVARIANTS
  OneActivePerTarget
  EveryScopeIsAttempted
PROPERTIES
  BacklogDrains
CHECK_DEADLOCK FALSE
