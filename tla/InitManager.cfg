\* Three handlers over four refresh intervals.
SPECIFICATION IMSpec
CONSTANTS
    Requests = {p1, p2, p3}
    InitRefreshInterval = 2
    InitJitter = 2
    MaxTime = 9
SYMMETRY Symmetry
INVARIANTS
    NoEarlyRefresh
