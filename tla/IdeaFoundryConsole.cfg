\* One process with two rows in a batch; two operators on the screens.
SPECIFICATION Spec
CONSTANTS
    Servers = {s1}
    Owners = {w1, w2}
    Intervals = {1, 2}
    DefaultInterval = 2
    MaxTime = 3
    MaxSaves = 1
    MaxManual = 1
    MaxFaults = 1
    MaxCrashes = 1
    User = User
    Operators = {o1, o2}
    Callers = {pipeline}
    MaxAsks = 2
    Slots = {1, 2}
    MaxRuns = 2
    MaxToggles = 1
    MaxFailures = 1
    MaxRequests = 1
    Unread = Unread
    Calls = {1, 2}
    MaxEvents = 1
    TitleCount = 2
    LabelCount = 2
    MaxQueries = 2
    MaxRepairs = 1
    MaxEdits = 2
    MaxCalls = 1
INVARIANTS
    TypeOK
    OneRunPerSlot
    RunningIsTrue
    RanksFollowOrder
PROPERTIES
    SlotsMoveWithRuns
    BoardIsRecent
    UnusableReviewKeepsSearch
    WaitingEnds
CHECK_DEADLOCK FALSE
