\* Two callbacks, one request: logins, sessions and logout.
CONSTANTS
    Users = {alice, bob}
    Callbacks = {h1, h2}
    Requests = {r1}
    None = None
    StateTtl = 1
    TokenTtl = 1
    MaxLogins = 2
    MaxSessions = 2
    MaxTime = 1
SPECIFICATION Spec
INVARIANTS TypeOK SessionIsItsLogins OneSessionPerLogin LogoutIsFinal
PROPERTY SessionsLast
SYMMETRY Symmetry
CHECK_DEADLOCK FALSE
