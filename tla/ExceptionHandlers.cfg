CONSTANTS
  Raised = {"DE", "NMI", "OF", "UD", "NM", "DF", "TS", "NP", "GP", "MC", "PF", "DB"}
  MaxTaken = 3
SPECIFICATION Spec
INVARIANT CodedReports
PROPERTY BreakpointResumes
CHECK_DEADLOCK FALSE
