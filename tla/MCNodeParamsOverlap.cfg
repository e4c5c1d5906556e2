SPECIFICATION Spec
CONSTANTS
    Params = {power, name}
    Persist = {name}
    Values = {1, 2, 3}
    Default = 1
    None = None
    Tasks = {mqtt, mcu}
    Size = 2
    Margin = 1
    Overlap = TRUE
    MaxUpdates = 3
    MaxRestarts = 1
INVARIANTS UpdateIsReported
CHECK_DEADLOCK FALSE
