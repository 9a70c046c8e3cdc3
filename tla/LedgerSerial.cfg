SPECIFICATION Spec
CONSTANTS
    Tasks = {t1}
    Clients = {c1}
    WorkItems = {i1, i2}
    Providers = {p1, p2}
    t1 = t1
    c1 = c1
    i1 = i1
    i2 = i2
    p1 = p1
    p2 = p2
    MaxAttempts = 2
    MaxReviews = 2
SYMMETRY Symmetry
CHECK_DEADLOCK FALSE
PROPERTIES ImplementsReviewGate
