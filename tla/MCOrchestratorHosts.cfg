SPECIFICATION Spec
CONSTANTS
    i1 = i1
    i2 = i2
    Issues = {i1, i2}
    Priority <- MCPriority
    BlockedBy <- Independent
    Excluded = {}
    ActiveStates = {"in progress", "agent review"}
    TerminalStates = {"done"}
    OtherStates = {}
    Hosts = {h1}
    HostCap = 1
    MaxConcurrent = 2
    CleanupOnDone = TRUE
    StallDetection = TRUE
    Runs = {1, 2, 3, 4}
    MaxAttempt = 2
    MaxEdits = 1
    MaxSilences = 0
    MaxErrors = 1
    NoAttempt = NoAttempt
    NoRetry = NoRetry
    NoTask = NoTask
    Local = Local
INVARIANTS
    HostCapRespected
    DispatchesAwaitOneSpawn
PROPERTIES
    ImplementsAttemptPool
