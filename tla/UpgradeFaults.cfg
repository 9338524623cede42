SPECIFICATION Spec
CONSTANTS
    MaxVersion = 2
    Modes = {"update", "reinstall", "install"}
    FaultKinds = {"fail", "journal", "tools", "kill", "gap", "torn", "reboot"}
    MaxFaults = 3
    MaxWrites = 1
INVARIANTS
    TypeOK
    JournalUsable
