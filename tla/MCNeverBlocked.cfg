SPECIFICATION FairSpec
CONSTANTS
    Configurations <- MCAutomatic
    HumanEdits <- MCDeletions
    MaxAttempts = 1
    MaxCycles = 1
    MaxRetries = 2
    MaxFaults = 0
    MaxEdits = 1
PROPERTIES
    FailuresAreBlocked
