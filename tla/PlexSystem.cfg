SPECIFICATION FairSpec
CONSTANTS
  bWrite = bWrite
  bAhead = bAhead
  bMissing = bMissing
  Bufs = {bWrite, bAhead, bMissing}
  Req <- MCReq
  EnabledUnits = {0}
  NumSectors = 2
  PartStart = 1
  PartSize = 1
  Vals = {0, 1}
  MaxQueue = 2
  MaxOpens = 1
  NImages = 2
  Requests <- MCRequests
  QuietDisk = TRUE
INVARIANTS
  SysTypeOK
  FreedMemoryNotHeld ExecuteFindsReady FreedOnce DeadWriteOnlyAfterDiskError
  RequestIsOwn SilentOnlyAfterTooLong
  BusyMeansTimer CallsAnswered EverythingGivenBack
PROPERTIES
  DeviceSpec WholeOrNothing InterruptEnds AwaitedEnds
CHECK_DEADLOCK FALSE
