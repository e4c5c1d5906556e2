SPECIFICATION ScheduleSpec
CONSTANTS
    Triggers <- Repeating
    TicksPerDay = 2
    DaysPerMonth = 5
    PeriodRange = 17
    Preempted = FALSE
    MaxQueued = 1
    MaxNow = 130
INVARIANTS
    NoTriggerMissed
    NoStrayTrigger
    LayersAgree
