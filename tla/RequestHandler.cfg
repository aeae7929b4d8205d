\* One request through every endpoint and mode, or three that share
\* consecutiveTimeouts.
SPECIFICATION MCSpec
CONSTANTS
    Requests = {1, 2, 3}
    Calls <- AllCalls
    UpstreamCodes = {402, 500, 503}
    IdleIn = {TRUE, FALSE}
    Threshold = 2
    MaxEvents = 3
ACTION_CONSTRAINTS
    MCSteps
INVARIANTS
    OneStatus
    SuccessIsUpstreams
    DoneMeansComplete
    SilentOnlyWhenCut
    AdviceJustified
PROPERTIES
    EveryRequestEnds
\* Handlers return: the system may stop.
CHECK_DEADLOCK FALSE
