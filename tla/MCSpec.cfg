SPECIFICATION FairSpec
CONSTANTS
    Intake = Intake
    Approved = Approved
    Revise = Revise
    Route = Route
    Triage = Triage
    InitialLabels <- MCLabels
    MaxAttempts = 2
    MaxRequests = 1
    MaxReviewCycles = 1
    MaxRetries = 2
    MaxFaults = 1
    MaxEdits = 2
INVARIANTS
    TypeOK
    WorkDoneOnce
    ApprovedIsPinned
PROPERTIES
    ApprovedMeansRouted
    PublicationsSettle
