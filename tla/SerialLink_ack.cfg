\* One packet of the user and the Ack for it.
SPECIFICATION Spec
CONSTANTS
  SeqMod = 3
  Cooldown = 1
  Span = 1
  MaxUser = 1
  MaxMade = 1
  MaxReplies = 1
  MaxLine = 1
  MaxLosses = 0
  MaxTime = 1
INVARIANT AckSettles
CHECK_DEADLOCK FALSE
