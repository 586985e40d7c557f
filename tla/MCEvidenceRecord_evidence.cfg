SPECIFICATION Spec
CONSTANTS
    Sources = {1, 2}
    MaxRuns = 3
    MaxFaults = 1
    MaxCrashes = 1
    MaxEdits = 1
INVARIANTS
    TypeOK
    NeverPartial
    EvidenceInPlace
    MixedEvidenceShows
PROPERTIES
    ImplementsStore
    InvocationEnds
