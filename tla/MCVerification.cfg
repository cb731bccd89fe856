SPECIFICATION Spec
CONSTANTS
    Revisions <- TwoHeads
    Commands = 2
    MaxAttempts = 2
    MaxReprompts = 1
    MaxFaults = 1
    MaxEdits = 1
INVARIANTS
    TypeOK
    VerificationSound
