\* Two timers and a request about one configuration; a worker dies.
SPECIFICATION FairSpec
CONSTANTS
    Servers = {s1, s2}
    Requests = {r1}
    Owners = {o1}
    Nobody = nobody
    MaxHour = 2
    MaxCrashes = 1
INVARIANTS LatestResultsKept
PROPERTIES HourlyCadence ElapsedServed
CHECK_DEADLOCK FALSE
