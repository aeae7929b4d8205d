\* Time in units of 15 s.
SPECIFICATION DLSpec
CONSTANTS
    ReadTimeout = 2
    WriteTimeout = 6
    RequestDeadline = 6
    InitTimeout = 2
    StreamIdle = 2
    NonStreamIdle = 6
    Buffer = 2
    MaxLines = 5
INVARIANTS
    HandledInTime
    LateIdleUnheard
    RefusedAfterSlowInit
    LostOnlyAtDeadline
\* A handler that has returned does nothing more.
CHECK_DEADLOCK FALSE
