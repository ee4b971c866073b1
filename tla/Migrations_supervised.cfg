\* Two replicas under a supervisor, on either backend; one table has guarded files.
CONSTANTS
    a = a
    b = b
    internal = internal
    app = app
    Processes = {a, b}
    Tables = {internal, app}
    Plan <- Replicas
    Top = 2
    Statements = 2
    Backends = {"sqlite", "postgres"}
    Guarded = {internal}
    Faults = 2
SPECIFICATION FairSpec
INVARIANTS TypeOK RecordedIsComplete ExecutedInOrder ReadyIsMigrated
PROPERTY EventuallyReady
CHECK_DEADLOCK FALSE
