CONSTANTS
  Requests <- MCRequests
  MaxStray = 2
SPECIFICATION Spec
INVARIANT AllocFailureReturns
CHECK_DEADLOCK FALSE
