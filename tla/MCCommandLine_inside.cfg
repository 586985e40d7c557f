SPECIFICATION MCSpec
CONSTANTS
    Units <- MCUnits
    Algorithm <- MCAlgorithm
    Severe = {"sign", "exchange"}
    Mentions = {"RSA", "X25519"}
    SevereMentions = {"X25519"}
    Dirs = {"inside"}
    MaxLine = 2
    MaxCommands = 3
    MaxEdits = 0
    MaxFaults = 1
INVARIANTS
    BaselineLimitsFailures
