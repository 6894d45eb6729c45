SPECIFICATION FairSpec
CONSTANTS
    Call = {c1, c2}
    Faults = {}
    MaxCrashes = 1
INVARIANTS StoppedIsRecorded
PROPERTIES LockPasses PauseEnds
