CONSTANTS
  Clients = {c1, c2, c3}
SPECIFICATION FairSpec
INVARIANTS
  CallsOnLiveInstance
  CallsAfterSetup
  FailedLoadClean
PROPERTIES
  WakeupTooLate
  Unloads
CHECK_DEADLOCK FALSE
