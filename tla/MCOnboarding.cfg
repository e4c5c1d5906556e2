SPECIFICATION FairSpec
CONSTANTS
    Users = {a, b}
    Dummy = Dummy
    NodeIds = {n1, n2}
    Mac = Mac
    None = None
    Builds = {TRUE, FALSE}
    Fragments = 2
    MaxSessions = 3
    MaxMaps = 3
    MaxFailures = 1
    MaxResets = 2
INVARIANTS
    IdentityInv
    OwnersKnown
PROPERTIES
    ComesOnline
    MappingReaches
CHECK_DEADLOCK FALSE
