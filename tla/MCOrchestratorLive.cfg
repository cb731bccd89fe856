SPECIFICATION LiveSpec
CONSTANTS
    i1 = i1
    i2 = i2
    Issues = {i1, i2}
    Priority <- MCPriority
    BlockedBy <- Independent
    Excluded = {}
    ActiveStates = {"in progress"}
    TerminalStates = {"done"}
    OtherStates = {}
    Hosts = {}
    HostCap = 1
    MaxConcurrent = 2
    CleanupOnDone = FALSE
    StallDetection = TRUE
    Runs = {1, 2, 3, 4}
    MaxAttempt = 1
    MaxEdits = 1
    MaxSilences = 0
    MaxErrors = 1
    NoAttempt = NoAttempt
    NoRetry = NoRetry
    NoTask = NoTask
    Local = Local
PROPERTIES
    TerminalIssuesStop
    ActiveIssuesGetAttention
    ScheduledAttemptsResolve
