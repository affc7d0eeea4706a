\* Two passes of a stage, one of them retrying, one called through the stage's endpoint and
\* one refining an idea by its id, a thrown statement and a crash; and one refinement pass
\* beside two extractions.
SPECIFICATION StagesSpec
CONSTANTS
    Passes = {p1, p2}
    Retriers = {p2}
    Askers = {p1}
    Staged = {p2}
    Prints = {f1, f2}
    SourceCount = 2
    ProtoCount = 2
    CandidateCount = 3
    BatchSize = 1
    MaxIdeas = 2
    MaxFaults = 1
    MaxCrashes = 1
    Nobody = Nobody
INVARIANTS
    OneWorkerPerSource
    IdeasOnlyOfCompleted
    IterationsContiguous
    CandidatesHaveTheirIdea
PROPERTIES
    ClaimedIsSettled
    CandidatesKeepTheirIdea
    PendingServed
CHECK_DEADLOCK FALSE
