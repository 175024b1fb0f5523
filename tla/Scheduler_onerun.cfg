\* One execution per day's window, against requests about other tasks.
SPECIFICATION Spec
CONSTANTS
    DayLength = 4
    Horizon = 12
    SignAt = 2
    Windows <- BothWindows
    None = None
PROPERTIES
    OneRunPerWindow
CHECK_DEADLOCK FALSE
