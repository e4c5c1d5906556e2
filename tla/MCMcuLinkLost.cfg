SPECIFICATION Spec
CONSTANTS
    BriData = {10, 90}
    MaxPct = 100
    CloudOverlap = TRUE
    McuActs = FALSE
    WifiDrops = FALSE
INVARIANTS
    LightAgrees
