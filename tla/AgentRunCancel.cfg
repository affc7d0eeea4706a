\* One client cancels the run another one has started.
SPECIFICATION Spec
CONSTANTS
    Runs = {r1}
    Clients = {c1, c2}
    Nobody = Nobody
    MaxMishaps = 0
PROPERTY CompletedIsNotCancelled
CHECK_DEADLOCK FALSE
