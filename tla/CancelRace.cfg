SPECIFICATION Spec
CONSTANTS
    Tasks = {t1}
    Service = service
    Operators = {}
    t1 = t1
    t2 = t2
    service = service
    o1 = o1
    PoolSize = 1
    MaxAttempts = 2
CHECK_DEADLOCK FALSE
INVARIANTS CancelledMeansGone
