SPECIFICATION Spec
CONSTANTS
    Installs = 2
    Thread = {th}
    Letter = {ask}
    th = th
    ask = ask
    Strand <- Strands
    Worlds <- AllWorlds
INVARIANTS OneAtATime ReleaseCounts NoteCounts GensClimb
