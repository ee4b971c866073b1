\* The firehose consumer: five frames on up to three connections.
CONSTANTS
    Frames <- RelayFrames
    FailsOn = {3}
    PanicsOn = {5}
    Capacity = 2
    Cursor = 1
    BaseMs = 500
    MaxMs = 1000
    MaxAttempts = 3
SPECIFICATION FairSpec
INVARIANTS TypeOK FramesAddUp
PROPERTIES HandlerSpec QueuedIsDelivered AbortDrains
CHECK_DEADLOCK FALSE
