\* One process and one owner, three stages (the single-pass one, a middle and a last one), two runs.
SPECIFICATION FairSpec
CONSTANTS
    Servers = {s1}
    Owners = {o1}
    RunIds = {r1, r2}
    StageCount = 3
    MaxStageIterations = 2
    MaxCrashes = 1
    MaxLost = 1
    NoOne = NoOne
INVARIANTS
    EndedRunReport
    HistorySound
    RunningIffExecuting
PROPERTIES
    RunsEnd
    ImplementsOwnerPipeline
CHECK_DEADLOCK FALSE
