SPECIFICATION FairSpec
CONSTANTS
    MaxGen = 2
    MaxOut = 1
    MaxCrashes = 2
INVARIANTS OneLiveBody ReleasedClean OnceFacts TableTotal
PROPERTIES SaidBeforeEnded StartedOnce StopOnRecord SettledIsReleased
