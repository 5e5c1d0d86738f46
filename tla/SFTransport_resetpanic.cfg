\* shutdown of a connection the peer has reset.
SPECIFICATION Spec
CONSTANTS
  MaxSessions = 2
  MaxData = 2
  MaxPackets = 1
  Faults = {"reset"}
INVARIANT NoPanicOnShutdown
\* The transport stops.
CHECK_DEADLOCK FALSE
