SPECIFICATION FairSpec
CONSTANTS
    MaxVersion = 3
    Modes = {"update", "reinstall", "install"}
    FaultKinds = {"fail", "kill", "reboot"}
    MaxFaults = 4
    MaxWrites = 1
INVARIANTS
    RestIsWhole
    ServesOwnSchema
PROPERTIES
    AtomicSwitch
    InterruptedOperationEnds
