SPECIFICATION FairSpec
CONSTANT Claims = {1, 2, 3, 4, 5}
INVARIANTS
  GroupsPartition
  GroupsAreCliques
  RootIsLeast
  GroupsAreMaximal
PROPERTIES
  ImplementsPromise
  Returns
CHECK_DEADLOCK FALSE
