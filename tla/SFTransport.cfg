\* Two sessions with every fault.
SPECIFICATION FairSpec
CONSTANTS
  MaxSessions = 2
  MaxData = 2
  MaxPackets = 1
  Faults = {"reset", "write", "stall"}
INVARIANTS
  IInv
  PanicNeedsFault
PROPERTIES
  FollowsProtocol
  StopIsFinal
  LossIsReported
  StopReturnsUnlessHung
\* The transport stops.
CHECK_DEADLOCK FALSE
