SPECIFICATION Spec
CONSTANTS
    c = c
    b = b
    v = v
    o = o
    Task = task
    Runs = {c, v, o}
    RuntimeOf <- RuntimeOfRuns
    Interrupted = {v}
    Items = {"primary", "docs"}
    Builders = {"anthropic"}
    Reviewers = {"anthropic", "openai"}
    MaxAttempts = 4
    MaxReviews = 2
CONSTRAINT OneReview
CHECK_DEADLOCK FALSE
INVARIANTS TypeOK EndedRunsLeaveNothingRunning AllowedReviewIsRecordable DecisionCoversTargets
