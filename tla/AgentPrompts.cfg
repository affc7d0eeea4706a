\* One administrator who creates an agent, and its name's older reading.
SPECIFICATION Spec
CONSTANTS
    Admins = {a1}
    MaxKey = 2
    LegacyKeys = {2}
    MaxVersion = 1
    MaxWrites = 1
    MaxEvents = 0
INVARIANT ShownIsRun
CHECK_DEADLOCK FALSE
