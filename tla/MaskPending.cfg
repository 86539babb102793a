CONSTANTS
  Counts = {2}
  MaxClocks = 1
SPECIFICATION Spec
INVARIANT MaskedIrqWithdrawn
CHECK_DEADLOCK FALSE
