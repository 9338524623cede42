CONSTANTS
    Addresses = {1, 2}
    Release = 1
    Multiples = {4, 32}
    Faults = {"fail", "kill", "torn", "reboot"}
    MaxFaults = 2
    MaxRebuilds = 1
    MaxWrites = 1
    Flaws = {"none", "checksum", "manifest", "member", "database", "release"}
    MaxArchives = 3
SPECIFICATION Spec
INVARIANTS TypeOK LinksConnect AppliesOnlyWholeNodes SavedMaterialRenders
PROPERTIES IdentityStable ReturnedIsBefore RestoredIsArchive InstallResumes
CHECK_DEADLOCK FALSE
