SPECIFICATION FairSpec
CONSTANTS
    Configurations <- MCConfigurations
    HumanEdits <- MCEdits
    MaxAttempts = 1
    MaxCycles = 2
    MaxRetries = 2
    MaxFaults = 1
    MaxEdits = 2
INVARIANTS
    TypeOK
    WorkDoneOnce
    AppliedMeansPublished
    ConflictsAreHuman
PROPERTIES
    HandoffAfterPull
    PublicationsSettle
