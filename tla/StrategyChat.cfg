\* Three requests about one thread, a server that dies once.
SPECIFICATION FairSpec
CONSTANTS
    RequestCount = 3
    Sections = {s1, s2}
    Seeded = {s1}
    Labels = {"strong", "too vague"}
    MaxUpdates = 1
    MaxCrashes = 1
PROPERTIES
    SectionsBuildOnTheLatest
    UnlocksAreEarned
    ThreadGoesOn
CHECK_DEADLOCK FALSE
