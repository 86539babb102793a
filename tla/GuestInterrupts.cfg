CONSTANTS
  Counts = {0, 1, 2}
  MaxClocks = 1
SPECIFICATION FairSpec
INVARIANTS IntTypeOK NoIrqForgotten LineMeansRequest PendingTrapsSTI OnlyGuestPanics
PROPERTY HltIsInterrupted
CHECK_DEADLOCK FALSE
