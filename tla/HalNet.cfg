CONSTANT MaxPackets = 4
SPECIFICATION FairSpec
INVARIANTS NetTypeOK ExactlyOnce FullIsSignalled TapIsSignalled
PROPERTY PacketsReachGuest
CHECK_DEADLOCK FALSE
