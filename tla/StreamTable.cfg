SPECIFICATION FairSpec
CONSTANTS
  Threads = {reader, processing, heartbeat}
  NoThread = NoThread
  Streams = {s1}
  All = All
  MaxCalls = 2
INVARIANTS
  NoDataRace
  OneStreamObject
  NoLostWakeup
PROPERTY
  EveryCallReturns
CHECK_DEADLOCK FALSE
