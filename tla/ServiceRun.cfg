SPECIFICATION FairSpec
CONSTANTS
    Tasks = {t1}
    Service = service
    Operators = {o1}
    t1 = t1
    t2 = t2
    service = service
    o1 = o1
    PoolSize = 1
    MaxAttempts = 2
CHECK_DEADLOCK FALSE
INVARIANTS OutcomeIsEarned
PROPERTIES WorkSettles EarlyCancelIsHonoured
