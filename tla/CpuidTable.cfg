CONSTANTS
  MAX = 6
  Limits = {3, 5, 14, 20}
  ExtBase = 32
  ExtLimits = {3, 32, 33}
  SubLeaves = 3
  MaxTimes = 2
SPECIFICATION FairSpec
INVARIANTS
  InTable
  Ascending
  Complete
PROPERTIES
  Terminates
CHECK_DEADLOCK FALSE
