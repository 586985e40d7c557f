SPECIFICATION Spec
CONSTANTS
    Sources = {1, 2}
    MaxRuns = 2
    MaxFaults = 0
    MaxCrashes = 1
    MaxEdits = 0
PROPERTIES
    EvidenceSurvives
