SPECIFICATION FairSpec
CONSTANTS
    Revisions <- TwoHeads
    Findings = {f1}
    Modes <- TwoModes
    MaxAttempts = 2
    MaxReprompts = 1
    HumanEdits <- EditKinds
    MaxFaults = 1
    MaxEdits = 2
INVARIANTS
    TypeOK
    WorkDoneOnce
PROPERTIES
    HandoffAfterReview
    PublicationsSettle
