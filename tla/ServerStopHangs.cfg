SPECIFICATION RecoverySpec
CONSTANTS
  MaxSize = 1
  MaxArrivals = 0
  MaxOutputs = 0
  MaxStarts = 1
  Errors = TRUE
  Stops = TRUE
PROPERTY
  StopReturns
CHECK_DEADLOCK FALSE
