\* Two programs: a captcha and a text, then the AI fallback until the result
\* comes; and a button, a text, a pause and a poem without an assertion.
SPECIFICATION Spec
CONSTANTS
    Versions = {1, 2, 3}
    IdOf <- Messages
    Offers <- Bot
    Result = {3}
    Chats <- Programs
    AIFallback = TRUE
    History = TRUE
    MaxRetries = 2
    Presses = 2
    FailureThreshold = 2
    Run = Run
    Scan = Scan
    Retry = Retry
    Free = Free
INVARIANTS
    TypeOK
    LockHeldInside
    HandledOnce
    GivenUpCanBeRetried
PROPERTIES
    QuietAfterResult
    ResultNotMissed
    FollowUpsDone
CHECK_DEADLOCK FALSE
