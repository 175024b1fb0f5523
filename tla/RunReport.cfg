SPECIFICATION Spec
CONSTANTS
    MaxChats = 2
    Attempts = 2
    Interactions <- Asks
    WindowLengths <- MCWindows
    KeptLengths <- MCPrefixes
    Mishaps = 2
INVARIANTS PassIsEarned SummaryTold NoFalseAlarm
CHECK_DEADLOCK FALSE
