SPECIFICATION Spec
INVARIANT ClosesAll
CHECK_DEADLOCK FALSE
