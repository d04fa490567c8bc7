\* Four pages, an interval of two ticks, a callback reused for a second call.
CONSTANTS
    Pages = 4
    MinInterval = 2
    MaxTime = 4
    MaxCalls = 2
SPECIFICATION Spec
INVARIANTS TypeOK RateLimited StageEndsShown
PROPERTY NotStarved
CHECK_DEADLOCK FALSE
