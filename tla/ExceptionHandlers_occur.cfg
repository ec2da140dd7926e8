CONSTANTS
  Raised = {"DE", "NMI", "OF", "UD", "NM", "MC"}
  MaxTaken = 1
SPECIFICATION Spec
INVARIANT OccurAt
CHECK_DEADLOCK FALSE
