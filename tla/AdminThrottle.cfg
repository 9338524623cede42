SPECIFICATION Spec
CONSTANTS
    Clients = {c1}
    Gateway = gw
    Logins = {"admin", "ADMIN", "other"}
    Requests = {}
    Window = 2
    MaxDelay = 2
    Lifetime = 2
    Idle = 2
    Absolute = 3
    Outdated = {FALSE}
    MaxTime = 4
    MaxPages = 2
    MaxAttempts = 3
    MaxSessions = 0
    MaxResets = 0
INVARIANTS
    BackoffEnforced
    OneAttemptPerPage
PROPERTIES
    LivePageKept
CHECK_DEADLOCK FALSE
