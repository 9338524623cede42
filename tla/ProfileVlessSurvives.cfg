SPECIFICATION FairSpec
CONSTANTS
    p1 = p1
    p2 = p2
    NoProfile = NoProfile
    Profiles = {p1, p2}
    Clients = {p1}
    FaultKinds = {"crash"}
    MaxFaults = 1
    MaxOps = 2
PROPERTIES
    DisabledVlessCloses
