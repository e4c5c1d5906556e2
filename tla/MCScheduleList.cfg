SPECIFICATION FairSpec
CONSTANTS
    Ids = {a, b}
    MAX_SCHEDULES = 2
    QueueFree = 2
    BeforeSync = FALSE
    MaxAdds = 2
    MaxFired = 2
INVARIANTS
    ListInv
    NoStaleTrigger
    OnceTriggersOnce
PROPERTIES
    SyncCompletes
