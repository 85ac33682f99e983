SPECIFICATION Spec
CONSTANTS
  MaxSize = 2
  MaxArrivals = 3
  MaxOutputs = 3
  MaxStarts = 1
  Errors = TRUE
  Stops = FALSE
INVARIANTS
  BoundedQueues
PROPERTIES
  ProcessedInOrder
  SentInOrder
