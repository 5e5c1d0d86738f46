\* Two receivers that take over each other's slots, and a group of its own.
SPECIFICATION Spec
CONSTANTS
  Receivers = {r1, r2}
  Ids = {1, 2}
  Default = default
  Groups = {34, 35}
  Group = 34
  NoGroup = none
  OddShapes <- MCOddShapes
  MaxCalls = 2
  MaxEvents = 2
INVARIANTS
  IInv
  RoutedAsRegistered
  PanicNeedsFault
\* The thread stops.
CHECK_DEADLOCK FALSE
