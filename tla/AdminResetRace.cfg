SPECIFICATION Spec
CONSTANTS
    Clients = {c1}
    Gateway = gw
    Logins = {"admin"}
    Requests = {r1, r2}
    Window = 4
    MaxDelay = 3
    Lifetime = 4
    Idle = 2
    Absolute = 3
    Outdated = {FALSE}
    MaxTime = 3
    MaxPages = 1
    MaxAttempts = 1
    MaxSessions = 2
    MaxResets = 1
INVARIANTS
    OldPasswordLoggedOut
CHECK_DEADLOCK FALSE
