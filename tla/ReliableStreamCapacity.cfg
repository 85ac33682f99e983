SPECIFICATION Spec
CONSTANTS
  Half = 8
  Depth = 2
  MaxFragments = 2
  NackBits = 3
  Lifetime = 4
  MaxSubmessages = 2
  Capacity = 2
INVARIANT
  NoMoreThanDepth
CHECK_DEADLOCK FALSE
