SPECIFICATION FairSpec
CONSTANTS
    MaxVersion = 2
    Modes = {"update", "reinstall", "install"}
    FaultKinds = {"gap"}
    MaxFaults = 1
    MaxWrites = 0
PROPERTIES
    InterruptedOperationEnds
