SPECIFICATION FairSpec
INVARIANTS
  WalksDefined
  UserIsolated
  Backed
PROPERTIES
  Reaches
CHECK_DEADLOCK FALSE
