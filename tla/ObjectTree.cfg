SPECIFICATION Spec
CONSTANTS
    None = None
    Dangling = Dangling
    Clients = {c1, c2}
    c1 = c1
    c2 = c2
    Names = {a, b}
    Domains = {d}
    a = a
    b = b
    d = d
    Creations <- MCCreations
    MaxParticipants <- MCMaxParticipants
INVARIANTS
    EntitiesMatchObjects
    OneGlobalTopic
    RegisterIsExact
    RegistryIsExact
    WritersStayHome
PROPERTIES
    ReplacedAsAsked
CHECK_DEADLOCK FALSE
