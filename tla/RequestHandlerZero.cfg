\* One request to each endpoint, in each mode.
SPECIFICATION Spec
CONSTANTS
    Requests = {1}
    Calls <- AllCalls
    UpstreamCodes = {500}
    IdleIn = {TRUE, FALSE}
    Threshold = 1
    MaxEvents = 1
INVARIANTS
    ZeroTokensRetryable
\* Handlers return: the system may stop.
CHECK_DEADLOCK FALSE
