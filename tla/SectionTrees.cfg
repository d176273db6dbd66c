SPECIFICATION Spec
CONSTANTS
  Indexers = {a, b}
  Papers = {1, 2}
  AbstractOnly = {2}
  Documents <- mcDocuments
  MaxTreeDepth = 2
  Models = {"claude_cli", "codex_cli"}
  NoParent = none
  MaxRuns = 3
  MaxParses = 3
SYMMETRY mcSymmetry
INVARIANTS
  SkippedTreesAreWhole
  TreeShape
  RepeatBuildsNothing
CHECK_DEADLOCK FALSE
