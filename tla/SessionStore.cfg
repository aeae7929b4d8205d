\* Two requests, two keys, an expiry during a cleanup.
SPECIFICATION Spec
CONSTANTS
    Requests = {p1, p2}
    Keys = {k1, k2}
    Duration = 1
    Jitter = 0
    MaxTime = 2
    MaxIds = 2
INVARIANTS
    OwnSession
    AnswerWasLive
PROPERTIES
    DroppedOnlyByRace
    ExpiredReclaimed
\* With every ID used up and the clock at its bound, nothing may be left to do.
CHECK_DEADLOCK FALSE
