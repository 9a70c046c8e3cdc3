SPECIFICATION FairSpec
CONSTANTS
    MaxMembers = 2
    MaxLines = 2
    MaxSignals = 2
CHECK_DEADLOCK FALSE
INVARIANTS ClaimsAreProven ScratchOutlivesProcess
PROPERTIES RecordIsFinal RunEnds ImplementsSupervisedRun
