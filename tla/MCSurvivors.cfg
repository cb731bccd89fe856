SPECIFICATION Spec
CONSTANTS
    Revisions <- TwoHeads
    Commands = 1
    MaxAttempts = 2
    MaxReprompts = 1
    MaxFaults = 2
    MaxEdits = 1
INVARIANTS
    InterruptedAreGone
