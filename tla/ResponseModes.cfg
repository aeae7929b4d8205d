\* Up to four events in every order.
SPECIFICATION Spec
CONSTANTS
    a = a
    b = b
    Fragments = {a, b}
    ToolIDs = {"call1", "call2"}
    Reasons <- SomeReasons
    Inputs <- SomeEvents
    MaxEvents = 4
INVARIANTS
    MessagesModesAgree
    ChatModesAgree
    ResponsesModesAgree
PROPERTIES
    RefinesAnthropicWire
\* The stream ends.
CHECK_DEADLOCK FALSE
