\* A rescue scan goes on after the run timed out.
SPECIFICATION Spec
CONSTANTS
    Versions = {1, 2, 3}
    IdOf <- Messages
    Offers <- Bot
    Result = {3}
    Chats <- Programs
    AIFallback = TRUE
    History = TRUE
    MaxRetries = 1
    Presses = 2
    FailureThreshold = 1
    Run = Run
    Scan = Scan
    Retry = Retry
    Free = Free
INVARIANTS
    RescueStopsWithRun
CHECK_DEADLOCK FALSE
