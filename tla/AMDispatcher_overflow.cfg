\* A stated length of 249 in a message that is long enough.
SPECIFICATION Spec
CONSTANTS
  Receivers = {r1, r2}
  Ids = {1}
  Default = default
  Groups = {34}
  Group = 34
  NoGroup = none
  OddShapes <- MCOddShapes
  MaxCalls = 1
  MaxEvents = 1
INVARIANT MismatchIsOnlyLogged
\* The thread stops.
CHECK_DEADLOCK FALSE
