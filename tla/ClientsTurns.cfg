SPECIFICATION FairSpec
CONSTANTS
  Keys = {1, 2}
  EndPoints = {e1, e2}
  None = None
  Sessions = {129}
  Proxies = {p1, p2, p3, p4}
  End = End
  TriesMod = 4
  Garbage = {0}
  HardLiveliness = FALSE
  LocalCalls = FALSE
PROPERTY
  EveryClientHasItsTurn
INVARIANTS
  IteratorValid
  MapsAgree
  RoutedToClients
