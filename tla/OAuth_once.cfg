\* Documented: an OAuth state is used once.
CONSTANTS
    Users = {alice}
    Callbacks = {h1, h2}
    Requests = {r1}
    None = None
    StateTtl = 1
    TokenTtl = 1
    MaxLogins = 1
    MaxSessions = 1
    MaxTime = 1
SPECIFICATION Spec
INVARIANT StateUsedOnce
CHECK_DEADLOCK FALSE
