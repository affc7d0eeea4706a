\* Two passes that are called again and again, one of them retrying; two mishaps, each a
\* thrown statement or a pass that dies.
SPECIFICATION EagerSpec
CONSTANTS
    ProtoCount = 1
    CandidateCount = 2
    Nobody = Nobody
    Passes = {p1, p2}
    Retriers = {p2}
    Askers = {}
    BatchSize = 1
    MaxMishaps = 2
INVARIANTS
    PromotedHasSnapshot
PROPERTIES
    CandidatesServed
