SPECIFICATION Spec
CONSTANTS
    Clients = {c1}
    Gateway = gw
    Logins = {"admin"}
    Requests = {r1, r2}
    Window = 4
    MaxDelay = 3
    Lifetime = 4
    Idle = 2
    Absolute = 3
    Outdated = {TRUE, FALSE}
    MaxTime = 4
    MaxPages = 1
    MaxAttempts = 1
    MaxSessions = 1
    MaxResets = 2
INVARIANTS
    TypeOK
    SessionsFollowReset
    NewPasswordKept
    SilenceEnds
CHECK_DEADLOCK FALSE
