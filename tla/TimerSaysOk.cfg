SPECIFICATION FairSpec
CONSTANTS
  bWrite = bWrite
  bAhead = bAhead
  bMissing = bMissing
  Bufs = {bWrite, bAhead, bMissing}
  Req <- MCReq
  EnabledUnits = {0}
  NumSectors = 2
  PartStart = 1
  PartSize = 1
  Vals = {0, 1}
  MaxQueue = 2
  MaxOpens = 1
  NImages = 2
  Requests <- MCRequests
  QuietDisk = TRUE
PROPERTIES
  OkMeansMoved
CHECK_DEADLOCK FALSE
