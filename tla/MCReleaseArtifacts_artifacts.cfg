CONSTANTS
    Versions = {v1, v2}
    Sources = {s1, s2}
    Builds = {b1, b2}
    Absent = Absent
    Partial = Partial
    MaxRuns = 2
    MaxBuilds = 2
    MaxKills = 1
    MaxValidations = 1
SYMMETRY Symmetry
SPECIFICATION Spec
INVARIANTS TypeOK AcceptedIsOneRelease GeneratedIsAccepted
