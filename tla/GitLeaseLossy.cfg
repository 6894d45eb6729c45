SPECIFICATION Spec
CONSTANTS
    Install = {a, b}
    None = None
    Ttl = 1
    Margin = 1
    Drift = 1
    Window = 1
    Strict = TRUE
    FetchFails = TRUE
    MaxClock = 4
    MaxCommits = 3
    MaxBeats = 0
SYMMETRY Machines
INVARIANTS TypeOK RenewsOwnLease
