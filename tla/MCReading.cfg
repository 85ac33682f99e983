SPECIFICATION Spec
CONSTANTS
  Second = 2
  Half = 3
  HistorySize = 2
  IdMod = 65536
  RequestIds <- MCRequestIds
  RawId = 3
  Me = me
  Other = other
  MaxRequests <- MCMaxRequests
  MaxReplies = 3
  ReadAccesses = {"COMPLETE", "EXTERNAL"}
  Controls <- MCControls
  Unlimited = 3
  CountMod = 4
  Sizes <- MCSizes
  Window = 1
  MaxReads = 2
  MaxWrites = 5
INVARIANTS
  ReadsWhatExists
  RateIsKept
  ReplyNamesItsRequest
PROPERTIES
  ThreadIsJoined
  JoinEnds
  TakenInOrder
  PushedUnlessStopped
CHECK_DEADLOCK FALSE
