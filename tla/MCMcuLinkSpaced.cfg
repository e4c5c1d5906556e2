SPECIFICATION Spec
CONSTANTS
    BriData = {10, 90, 120}
    MaxPct = 100
    CloudOverlap = FALSE
    McuActs = TRUE
    WifiDrops = TRUE
INVARIANTS
    LightAgrees
    CloudAgrees
