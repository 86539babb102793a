CONSTANTS
  Counts = {2}
  MaxClocks = 1
SPECIFICATION Spec
INVARIANT UserModeInterruptible
CHECK_DEADLOCK FALSE
