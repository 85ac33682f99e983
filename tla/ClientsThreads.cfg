SPECIFICATION FairSpec
CONSTANTS
  Keys = {1}
  EndPoints = {e1}
  None = None
  Sessions = {1, 129}
  Proxies = {p1, p2}
  End = End
  TriesMod = 5
  Garbage = {4}
  HardLiveliness = TRUE
  LocalCalls = TRUE
INVARIANTS
  ReferencedIsAlive
PROPERTY
  SilentClientIsRemoved
