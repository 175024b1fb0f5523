\* The plan's recovery after a restart, against a run earlier that day.
SPECIFICATION Spec
CONSTANTS
    DayLength = 4
    Horizon = 12
    SignAt = 2
    Windows <- BothWindows
    None = None
PROPERTIES
    PlanRestored
CHECK_DEADLOCK FALSE
