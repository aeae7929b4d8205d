\* Two handlers and the background goroutine; a fetch takes up to an interval.
SPECIFICATION Spec
CONSTANTS
    Handlers = {h1, h2}
    Background = background
    Interval = 2
    FetchTimeout = 2
INVARIANTS
    AnswerFresh
    CacheAgeBounded
PROPERTIES
    ReplacedOnlyByOverlap
    Recovers
