\* Documented: last_seq is the last sequence number processed.
CONSTANTS
    Frames <- RelayFrames
    FailsOn = {3}
    PanicsOn = {}
    Capacity = 1
    Cursor = 1
    BaseMs = 500
    MaxMs = 1000
    MaxAttempts = 1
SPECIFICATION Spec
INVARIANT SeqIsProcessed
CHECK_DEADLOCK FALSE
