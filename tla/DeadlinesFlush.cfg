\* Time in units of 15 s; a stream must hand on its events.
SPECIFICATION DLSpec
CONSTANTS
    ReadTimeout = 2
    WriteTimeout = 6
    RequestDeadline = 6
    InitTimeout = 2
    StreamIdle = 2
    NonStreamIdle = 6
    Buffer = 2
    MaxLines = 5
INVARIANTS
    EventsFlushed
\* A handler that has returned does nothing more.
CHECK_DEADLOCK FALSE
