\* Two servers and two files, deleted and removed at any moment; a tick or a request may die.
SPECIFICATION FairSpec
CONSTANTS
    Servers = {s1, s2}
    FileCount = 2
    BatchSize = 2
    MaxMishaps = 1
INVARIANTS
    SearchableIsWhole
PROPERTIES
    DeletedStaysDeleted
    JobsSettle
CHECK_DEADLOCK FALSE
