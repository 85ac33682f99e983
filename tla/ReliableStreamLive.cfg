SPECIFICATION FairSpec
CONSTANTS
  Half = 6
  Depth = 1
  MaxFragments = 2
  NackBits = 2
  Lifetime = 3
  MaxSubmessages = 1
  Capacity = 99
PROPERTIES
  EventuallyAcknowledged
  ImplementsFairFifo
CHECK_DEADLOCK FALSE
