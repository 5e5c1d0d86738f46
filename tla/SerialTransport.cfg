\* Batches of every kind of frame, a port that may stall or go away.
SPECIFICATION FairSpec
CONSTANTS
  MaxData = 2
  MaxFrames = 3
  MaxBatch = 2
  Faults = {"lost", "stall", "unknown"}
INVARIANTS
  IInv
  StopFailsOnlyByFault
PROPERTIES
  FollowsProtocol
  StopIsFinal
  StopReturns
\* The transport stops.
CHECK_DEADLOCK FALSE
