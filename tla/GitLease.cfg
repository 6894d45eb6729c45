SPECIFICATION Spec
CONSTANTS
    Install = {a, b}
    None = None
    Ttl = 2
    Margin = 1
    Drift = 1
    Window = 2
    Strict = FALSE
    FetchFails = FALSE
    MaxClock = 4
    MaxCommits = 3
    MaxBeats = 1
SYMMETRY Machines
INVARIANTS OneInsideTerm GracedIsOlder GenNamesOneHolder
PROPERTIES TakeoverBumpsGen
