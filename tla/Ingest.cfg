SPECIFICATION FairSpec
CONSTANTS
    letter = letter
    verb = verb
    File = {letter}
    Outward = {letter}
    Verb = verb
    Width <- Widths
    Stall = FALSE
    MaxGen = 2
    MaxFaults = 1
INVARIANTS NothingLost
PROPERTIES IsALog Ingested Folded
CHECK_DEADLOCK FALSE
