SPECIFICATION Spec
CONSTANTS
  NPages = 4
  MaxPhyPagesPinned = 3
  Frames = {f1, f2, f3}
  NoFrame = NoFrame
  NIndex = 3
  MonPdi = 2
  NTables = 2
  LinPages <- MCLinPages
  InitMem <- MCInitMem
  InitCR3 = 0
  GuestStores <- MCGuestStores
  CR3Values = {0}
  CR0Values <- MCCR0Values
  ROPages = {}
  MMIOPages = {}
SYMMETRY FrameSymmetry

INVARIANTS
  OpenPagesStayPinned
