\* The sweep of expired states.
CONSTANTS
    Users = {alice}
    Callbacks = {h1}
    Requests = {r1}
    None = None
    StateTtl = 1
    TokenTtl = 1
    MaxLogins = 2
    MaxSessions = 1
    MaxTime = 2
SPECIFICATION FairSpec
PROPERTY ExpiredStatesGo
CHECK_DEADLOCK FALSE
