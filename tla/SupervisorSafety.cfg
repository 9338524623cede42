SPECIFICATION FairSpec
CONSTANTS
    MaxCalls = 2
    MaxCrashes = 2
    MaxFailures = 1
    StartMayFail = TRUE
INVARIANTS
    TypeOK
    SingleChild
    SuccessIsFresh
    NoLateRestart
    CleanExit
PROPERTIES
    CallsEnd
    SignalEnds
CHECK_DEADLOCK FALSE
