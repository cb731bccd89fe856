SPECIFICATION Spec
CONSTANTS
    i1 = i1
    i2 = i2
    Issues = {i1, i2}
    Priority <- MCPriority
    BlockedBy <- Independent
    Excluded = {}
    ActiveStates = {"todo", "in progress"}
    TerminalStates = {"done"}
    OtherStates = {"human review"}
    Hosts = {}
    HostCap = 1
    MaxConcurrent = 1
    CleanupOnDone = TRUE
    StallDetection = TRUE
    Runs = {1, 2, 3, 4}
    MaxAttempt = 2
    MaxEdits = 1
    MaxSilences = 1
    MaxErrors = 1
    NoAttempt = NoAttempt
    NoRetry = NoRetry
    NoTask = NoTask
    Local = Local
INVARIANTS
    TypeOK
    ClaimsMatchRunning
    RetriesCanFire
    SlotsRespected
    AttemptsAreBacked
    EventsHaveSenders
