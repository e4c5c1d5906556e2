SPECIFICATION FairSpec
CONSTANTS
    Params = {power, name}
    Persist = {name}
    Values = {1, 3}
    Default = 1
    None = None
    Tasks = {mqtt, mcu}
    Size = 2
    Margin = 1
    Overlap = FALSE
    MaxUpdates = 3
    MaxRestarts = 1
INVARIANTS
    StorageInv
    CloudHasValues
    NotifiesOnlyWhatIsAsked
PROPERTIES
    ValueReachesCloud
CHECK_DEADLOCK FALSE
