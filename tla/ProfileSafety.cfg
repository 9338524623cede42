SPECIFICATION FairSpec
CONSTANTS
    p1 = p1
    p2 = p2
    NoProfile = NoProfile
    Profiles = {p1, p2}
    Clients = {p1}
    FaultKinds = {"rpc", "late", "kick", "restart", "db", "links", "xray", "crash"}
    MaxFaults = 2
    MaxOps = 4
INVARIANTS
    TypeOK
    RevocationSound
    HysteriaRevocationSound
    DisableRestoresOthers
    ReconcileExact
    RecordConsistent
PROPERTIES
    LifecycleSpec
    Convergence
