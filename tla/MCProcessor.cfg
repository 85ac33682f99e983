SPECIFICATION Spec
CONSTANTS
  Openings <- MCOpenings
  Messages <- MCMessages
  Pings <- MCPings
  Samples <- MCSamples
  Requests <- MCRequests
  Times <- MCTimes
  Numbers <- MCNumbers
  Addresses <- MCAddresses
INVARIANTS
  ReadAsWritten
  SentAsMeant
