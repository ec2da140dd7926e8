CONSTANTS
  Cpus = {c1, c2}
  msrpm_ranges <- MCRanges
  MSRS_RANGE_SIZE = 8
  Msrs = {15, 16, 31, 32, 64, 128}
  MaxCalls = 1
  GPRs = {"rax", "rdx"}
  Values = {g1, g2}
  Depths = {4, 5}
SPECIFICATION Spec
INVARIANTS
  
  Permissions
  RegsSurvive
  ReturnsToCaller
SYMMETRY Symmetry
CHECK_DEADLOCK FALSE
