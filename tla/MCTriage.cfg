SPECIFICATION FairSpec
CONSTANTS
    r1 = r1
    r2 = r2
    r3 = r3
    t1 = t1
    inbox = inbox
    ready = ready
    InitialIssues <- MCIssues
    Routes = {r1, r2, r3}
    Revisions = {t1, t2}
    Columns = {inbox, ready}
    RouteColumn <- MCRouteColumn
    MaxAttempts = 2
    MaxDisturbances = 2
    Intake = Intake
    NoRevision = NoRevision
    NoRoute = NoRoute
    NoColumn = NoColumn
    NoKey = NoKey
INVARIANTS
    TypeOK
    WorkDoneOnce
PROPERTIES
    OnlyPeopleAreCharged
    AppliedMeansRouted
    PublicationsSettle
