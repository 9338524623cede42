SPECIFICATION Spec
CONSTANTS
    Places = 2
    Life = 2
    MinValidity = 1
    MaxTime = 2
    MaxRenewals = 2
    MaxFaults = 2
INVARIANTS
    TypeOK
PROPERTIES
    HealthyWasServable
    ExportConverges
