SPECIFICATION RecoverySpec
CONSTANTS
  MaxSize = 1
  MaxArrivals = 0
  MaxOutputs = 1
  MaxStarts = 1
  Errors = TRUE
  Stops = TRUE
PROPERTY
  ErrorsAreHandled
  StopReturnsOrSleeps
CHECK_DEADLOCK FALSE
