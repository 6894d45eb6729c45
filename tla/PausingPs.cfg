SPECIFICATION FairSpec
CONSTANTS
    Call = {c1, c2}
    Faults = {"ps"}
    MaxCrashes = 1
CHECK_DEADLOCK FALSE
PROPERTIES PauseEnds
