\* Four clients and one agent run; two test runs; two administrators; two tabs.
SPECIFICATION AllSpec
CONSTANTS
    Runs = {r1}
    Clients = {c1, c2, c3, c4}
    Nobody = Nobody
    MaxMishaps = 1
    RunCount = 2
    Requests = {q1}
    BatchSize = 2
    MaxCalls = 2
    MaxDetails = 2
    MaxActions = 2
    MaxSelects = 1
    None = None
    Admins = {a1, a2}
    MaxKey = 3
    LegacyKeys = {3}
    MaxVersion = 2
    MaxWrites = 2
    MaxEvents = 1
    Tabs = {t1, t2}
    MaxTurns = 2
    MaxFailures = 1
    MaxInvestigations = 1
    MaxReviews = 2
    MaxPatches = 1
    Blank = Blank
    Typed = Typed
    MaxRequests = 2
    MaxRefreshes = 1
INVARIANTS
    AllTypeOK
    ReleaseIsReviewed
    WaitingCanGoOn
    CompletedIsWhole
    RunsTheLastSave
    ThreadIsWhole
    ApprovedFixWasSent
    OneEntryPerResponse
PROPERTY RequestsSettle
CHECK_DEADLOCK FALSE
