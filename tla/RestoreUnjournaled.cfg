CONSTANTS
    Addresses = {1, 2}
    Release = 1
    Multiples = {4, 32}
    Faults = {"fail", "kill", "torn", "reboot"}
    MaxFaults = 1
    MaxRebuilds = 1
    MaxWrites = 1
    Flaws = {"none", "checksum", "manifest", "member", "database", "release"}
    MaxArchives = 2
SPECIFICATION Spec
INVARIANT AlwaysOneNode
CHECK_DEADLOCK FALSE
