SPECIFICATION Spec
CONSTANTS
    Revisions <- TwoHeads
    Findings = {f1}
    Modes <- TwoModes
    MaxAttempts = 2
    MaxReprompts = 1
    HumanEdits <- EditKinds
    MaxFaults = 3
    MaxEdits = 0
INVARIANTS
    CrashesAreCounted
