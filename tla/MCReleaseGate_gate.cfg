SPECIFICATION MCSpec
CONSTANTS
    Sources <- MCSources
    Content <- MCContent
    NoSource <- MCNoSource
    SyntheticPrecision = 66
    SyntheticRecall = 50
    RealPrecision = 66
    RealRecall = 66
    ResultPrecision = 66
    MaxEvents = 2
INVARIANTS
    TypeOK
    PassIsOfOneSource
    DangerousRowShows
PROPERTIES
    GateEnds
