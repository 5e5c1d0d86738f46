\* Two packets of every kind with one fault of the line.
SPECIFICATION Spec
CONSTANTS
  Others <- MCOthers
  Packets <- MCPackets
  CrcLow <- MCCrcLow
  CrcHigh <- MCCrcHigh
  Frames <- MCFrames
  MaxFrames = 2
  MaxFaults = 1
INVARIANTS
  NothingInvented
  DataNeverEmpty
PROPERTIES
  FrameArrives
  PacketArrives
\* The sender stops.
CHECK_DEADLOCK FALSE
