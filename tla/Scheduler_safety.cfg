\* Four days, three windows, every request in every instant.
SPECIFICATION Spec
CONSTANTS
    DayLength = 4
    Horizon = 15
    SignAt = 2
    Windows <- AllWindows
    None = None
INVARIANTS
    TypeOK
    CronFollowsRow
PROPERTIES
    PlanHasJob
    PausedGainsNoPlan
    DailyRun
CHECK_DEADLOCK FALSE
