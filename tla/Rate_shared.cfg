\* Documented: the limit is one per IP.
CONSTANTS
    Ips = {c1, c2, local}
    Clients = {c1, c2}
    Localhost = local
    Unit = 3
    Burst = 6
    Rate = 2
    MaxAge = 3
    MaxTime = 4
SPECIFICATION AppSpec
INVARIANT FirstRequestIsServed
CHECK_DEADLOCK FALSE
