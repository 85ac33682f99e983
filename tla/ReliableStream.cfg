SPECIFICATION Spec
CONSTANTS
  Half = 8
  Depth = 2
  MaxFragments = 2
  NackBits = 3
  Lifetime = 4
  MaxSubmessages = 4
  Capacity = 2
INVARIANTS
  WholeSubmessages
  UndeliveredIsKept
  BoundedOutput
  InOrderDelivery
  NextToSendIsKept
  NacksAreOutstanding
PROPERTIES
  ImplementsFifo
  HandledOnlyByPop
CHECK_DEADLOCK FALSE
