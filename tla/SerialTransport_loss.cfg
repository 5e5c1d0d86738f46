\* The reader ends without a word.
SPECIFICATION FairSpec
CONSTANTS
  MaxData = 2
  MaxFrames = 3
  MaxBatch = 2
  Faults = {"lost"}
PROPERTY LossIsReported
\* The transport stops.
CHECK_DEADLOCK FALSE
