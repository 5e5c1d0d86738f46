\* A receiving AMDispatcher and a RawDispatcher.
SPECIFICATION FairSpec
CONSTANTS
  am1 = am1
  raw1 = raw1
  AM = {am1}
  Raw = {raw1}
  TransportWorker = tw
  Held <- MCHeld
  MaxEvents = 2
  MaxSends = 1
  Dropped = {am1}
  TransportFails = FALSE
INVARIANTS
  IInv
  InOrder
  NobodyPanics
  StopFailsOnlyByFault
PROPERTIES
  StopIsFinal
  NothingHeldBack
  StopReturns
  DropEndsWorkers
\* The connection stops.
CHECK_DEADLOCK FALSE
