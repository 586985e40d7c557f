SPECIFICATION MCSpec
CONSTANTS
    Units <- MCUnits
    Algorithm <- MCAlgorithm
    Severe = {"sign", "exchange"}
    Mentions = {"RSA", "X25519"}
    SevereMentions = {"X25519"}
    Dirs = {"inside", "outside"}
    MaxLine = 2
    MaxCommands = 3
    MaxEdits = 1
    MaxFaults = 1
INVARIANTS
    TypeOK
    NewerFirst
    VerdictDocumented
    NewIsNews
PROPERTIES
    CommandsEnd
