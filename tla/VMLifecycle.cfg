CONSTANTS
  Requests <- MCRequests
  MaxStray = 2
SPECIFICATION Spec
CONSTRAINT FewStray
INVARIANTS LifecycleTypeOK HostBalance MonitorEnteredReady GuestLoadedOnce StateTellsMemory
CHECK_DEADLOCK FALSE
