\* One account, runs contending for its lock; a longer cooldown and fairness.
SPECIFICATION FairSpec
CONSTANTS
    s1 = s1
    b1 = b1
    s2 = s2
    s3 = s3
    t1 = t1
    t2 = t2
    t3 = t3
    acc1 = acc1
    acc2 = acc2
    Free = Free
    Runs = {s1, b1, s2}
    BackgroundRuns = {b1}
    Tasks = {t1, t2}
    Accounts = {acc1}
    TaskOf <- TaskOfThree
    AccountOf <- AccountOfTwo
    GlobalLimit = 1
    RetryCount = 1
    SessionRetries = 2
    Cooldown = 2
PROPERTIES
    RunEnds
    ImplementsFairSlots
CHECK_DEADLOCK FALSE
