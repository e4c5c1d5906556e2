SPECIFICATION FairSpec
CONSTANTS
    Images = {v1, v2, v3, corrupt, foreign}
    Corrupt = {corrupt}
    Foreign = {foreign}
    First = v1
    Partial = Partial
    NoUrl = NoUrl
    FlashErrors = FALSE
    MaxRequests = 3
    MaxRestarts = 2
INVARIANTS
    JobInv
    ReportsTrue
PROPERTIES
    AtomicUpdateSpec
    UpdatesEnd
CHECK_DEADLOCK FALSE
