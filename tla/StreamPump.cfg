\* Bodies of up to three lines: one held by the scanner, one being handled,
\* one still in the body.
SPECIFICATION Spec
CONSTANTS
    Blank = Blank
    Bad = Bad
    Events = {e1, e2}
    MaxLines = 3
    IdleOn = TRUE
INVARIANTS
    OkMeansComplete
PROPERTIES
    HandlerEnds
    NoGoroutineLeak
    RefinesLineStream
\* The response ends: there is nothing to do after the handler has returned.
CHECK_DEADLOCK FALSE
