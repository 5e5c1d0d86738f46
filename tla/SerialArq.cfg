\* Four sequence numbers: the fifth packet reuses the first one's.
SPECIFICATION FairSpec
CONSTANTS
  SeqMod = 4
  AckLag = 3
  MaxData = 5
  MaxQueue = 2
INVARIANTS
  NoOverwrite
  AtMostThreeInflight
  SettledIsAckedOrSpent
  IInv
PROPERTIES
  QuietAfterAck
  EventuallySettled
  StopEndsWriter
\* The writer thread stops.
CHECK_DEADLOCK FALSE
