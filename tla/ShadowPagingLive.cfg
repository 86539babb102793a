SPECIFICATION FairSpec
CONSTANTS
  NPages = 4
  MaxPhyPagesPinned = 3
  Frames = {f1, f2, f3}
  NoFrame = NoFrame
  NIndex = 3
  MonPdi = 2
  NTables = 1
  LinPages <- LiveLinPages
  InitMem <- MCInitMem
  InitCR3 = 0
  GuestStores = {}
  CR3Values = {0}
  CR0Values <- LiveCR0Values
  ROPages = {3}
  MMIOPages = {}
PROPERTIES
  FaultSettles
