\* Can a streaming client tell two tool calls apart?
SPECIFICATION Spec
CONSTANTS
    a = a
    b = b
    Fragments = {a, b}
    ToolIDs = {"call1", "call2"}
    Reasons <- SomeReasons
    Inputs <- SomeEvents
    MaxEvents = 3
INVARIANTS
    ToolCallsSeparate
CHECK_DEADLOCK FALSE
