\* Documented: a graceful exit leaves at most one interval to replay.
CONSTANTS
    MaxEvents = 4
    Capacity = 2
    Interval = 2
    CursorMode = "numeric"
    NumericCursor = 1
    Malformed = {}
    Untimed = {}
    SavesFail = FALSE
    MaxAttempts = 2
    MaxCrashes = 0
    BackoffBase = 1
    BackoffMax = 3
SPECIFICATION Spec
INVARIANT GracefulExitReplaysOneInterval
CHECK_DEADLOCK FALSE
