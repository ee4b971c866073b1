\* Documented: internal migrations are safe to run on every start-up.
CONSTANTS
    a = a
    b = b
    internal = internal
    app = app
    Processes = {a, b}
    Tables = {internal, app}
    Plan <- Replicas
    Top = 2
    Statements = 2
    Backends = {"sqlite"}
    Guarded = {internal, app}
    Faults = 0
SPECIFICATION Spec
PROPERTY StartupSucceeds
CHECK_DEADLOCK FALSE
