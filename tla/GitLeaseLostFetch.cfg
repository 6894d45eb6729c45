SPECIFICATION Spec
CONSTANTS
    Install = {a, b}
    None = None
    Ttl = 2
    Margin = 1
    Drift = 1
    Window = 2
    Strict = TRUE
    FetchFails = TRUE
    MaxClock = 6
    MaxCommits = 3
    MaxBeats = 0
SYMMETRY Machines
INVARIANTS OneAuthorizedStrict
