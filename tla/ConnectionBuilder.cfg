\* Two AMDispatchers (both of byte 0) and a RawDispatcher of either byte.
SPECIFICATION FairSpec
CONSTANTS
  AMs = {am1, am2}
  Raws = {raw}
  Bytes = {0, 1}
  Known = {host}
  Unknown = {nohost}
  Timeouts = {t1, t2}
  None = None
  MaxCalls = 2
INVARIANTS
  IInv
  StartedAsConfigured
PROPERTY ThreadFollowsHandle
\* The caller may panic, and nobody has to call anything.
CHECK_DEADLOCK FALSE
