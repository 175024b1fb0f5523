\* Two logins of one account, two requests at once, each session's deadline moved twice.
SPECIFICATION FairSpec
CONSTANTS
    a = a
    b = b
    o1 = o1
    o2 = o2
    Ops = {o1, o2}
    Sessions = {a, b}
    TTL = 1
    Extension = 2
    Renewals = 2
    Free = Free
    Other = Other
    None = None
INVARIANTS
    TypeOK
    LockHeldInside
    ClientsAccountedFor
    DiscardedStaysOut
PROPERTIES
    StartEnds
CHECK_DEADLOCK FALSE
