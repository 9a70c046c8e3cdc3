SPECIFICATION Spec
CONSTANTS
    c = c
    b = b
    v = v
    o = o
    Task = task
    Runs = {c, b}
    RuntimeOf <- RuntimeOfRuns
    Interrupted = {}
    Items = {"primary"}
    Builders = {"anthropic"}
    Reviewers = {}
    MaxAttempts = 2
    MaxReviews = 0
CHECK_DEADLOCK FALSE
PROPERTIES OthersAreSpared
