SPECIFICATION Spec
CONSTANTS
    Required = {"write_outside", "network"}
INVARIANTS BlockedIsEarned ReportIsMeasured ZeroMeansHeld
CHECK_DEADLOCK FALSE
