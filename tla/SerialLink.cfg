\* Four packets over three sequence numbers, the first of which comes again.
SPECIFICATION FairSpec
CONSTANTS
  SeqMod = 3
  Cooldown = 1
  Span = 1
  MaxUser = 4
  MaxMade = 4
  MaxReplies = 0
  MaxLine = 1
  MaxLosses = 3
  MaxTime = 2
INVARIANTS
  IInv
  AtMostOnce
PROPERTIES
  OnlyRepeatsDropped
  HandedOn
\* The run ends with its last packet.
CHECK_DEADLOCK FALSE
