\* Two runs in one batch; the second is stopped while the first executes.
SPECIFICATION Spec
CONSTANTS
    RunCount = 2
    Requests = {q1}
    BatchSize = 2
    MaxCalls = 1
    MaxMishaps = 0
PROPERTY StoppedStaysStopped
CHECK_DEADLOCK FALSE
