\* Two logins with one number, two requests at once.
SPECIFICATION FairSpec
CONSTANTS
    a = a
    b = b
    phone1 = phone1
    o1 = o1
    o2 = o2
    Ops = {o1, o2}
    Sessions = {a, b}
    PhoneOf <- PhoneOfBoth
    TTL = 1
    Renewals = 1
    Free = Free
    Other = Other
    None = None
INVARIANTS
    TypeOK
    LockHeldInside
    ClientsAccountedFor
PROPERTIES
    NeverTakesReplacement
    RequestEnds
    SessionEnds
CHECK_DEADLOCK FALSE
