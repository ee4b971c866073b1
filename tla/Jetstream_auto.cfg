\* Cursor mode auto: safety, the promise of ResumableFeed, and progress.
CONSTANTS
    MaxEvents = 4
    Capacity = 1
    Interval = 2
    CursorMode = "auto"
    NumericCursor = 0
    Malformed = {2}
    Untimed = {3}
    SavesFail = TRUE
    MaxAttempts = 3
    MaxCrashes = 1
    BackoffBase = 1
    BackoffMax = 3
SPECIFICATION FairSpec
INVARIANTS TypeOK CheckpointCovered CapacityCheckSuffices CountersAddUp
PROPERTIES FeedSpec AbortDrains QueuedIsHandled
CHECK_DEADLOCK FALSE
