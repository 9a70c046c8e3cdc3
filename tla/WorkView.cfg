SPECIFICATION ReadsSpec
CONSTANTS
    Amounts = {0, 5}
    References = {"r1", "r2"}
    MaxAttempts = 2
    MaxMoves = 3
    MaxReviews = 1
    MaxLines = 1
    Directory = "d"
    Loose = {"a"}
    Nested = {"b", "c"}
CONSTRAINT RouteBound
CHECK_DEADLOCK FALSE
INVARIANTS ReadsTypeOK CostIsAccountedFor AnswerAgrees ListingIsOfTheTree
PROPERTIES LaterAnswersAgree
