SPECIFICATION Spec
CONSTANTS
    Tasks = {t1}
    Clients = {c1, c2}
    WorkItems = {i1}
    Providers = {p1, p2}
    t1 = t1
    c1 = c1
    c2 = c2
    i1 = i1
    p1 = p1
    p2 = p2
    MaxAttempts = 2
    MaxReviews = 1
SYMMETRY Symmetry
CHECK_DEADLOCK FALSE
INVARIANTS TypeOK OneRunningPerItem QuietWhenStopped ReviewsAreIndependent CompletedHasApproval RememberedFactsHold
PROPERTIES AuditIsHistory OutcomesAreFinal SettledTaskIsNotStranded LiveOwnerIsPreserved
