SPECIFICATION LiveSpec
CONSTANTS
    Issues = {i1, i2}
    Requests = {1, 2}
    Responders = {r1, r2}
    Runs = {1, 2}
    CacheCapacity = 1
    NoRequest = NoRequest
    NoIssue = NoIssue
INVARIANTS
    TypeOK
    OneAnswerPerRequest
    RepliesAreTrue
    AskersAreReachable
    ResolvedCacheSound
PROPERTIES
    WaitsEnd
