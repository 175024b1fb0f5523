\* Two accounts share one slot; every path of three runs.
SPECIFICATION Spec
CONSTANTS
    s1 = s1
    b1 = b1
    s2 = s2
    s3 = s3
    t1 = t1
    t2 = t2
    t3 = t3
    acc1 = acc1
    acc2 = acc2
    Free = Free
    Runs = {s1, b1, s2, s3}
    BackgroundRuns = {b1}
    Tasks = {t1, t2, t3}
    Accounts = {acc1, acc2}
    TaskOf <- TaskOfAll
    AccountOf <- AccountOfAll
    GlobalLimit = 1
    RetryCount = 1
    SessionRetries = 2
    Cooldown = 1
INVARIANTS
    TypeOK
    StatusTruthful
    LockHeldByLiveRun
    SlotsConserved
    SignersExclusive
PROPERTIES
    CooldownRespected
    NoRetryBesideLateSigner
    ImplementsSlots
CHECK_DEADLOCK FALSE
