SPECIFICATION FairSpec
CONSTANTS
    BriData = {}
    MaxPct = 100
    CloudOverlap = TRUE
    McuActs = TRUE
    WifiDrops = FALSE
INVARIANTS
    SenderInv
    SentWasAsked
    NothingLeftBehind
PROPERTIES
    Settles
