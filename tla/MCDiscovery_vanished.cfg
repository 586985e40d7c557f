SPECIFICATION Spec
CONSTANTS
    root = root
    pkg = pkg
    vendor = vendor
    a = a
    b = b
    c = c
    v = v
    readme = readme
    Dirs <- MCDirs
    Files <- MCFiles
    Root = root
    Parent <- MCParent
    Ignored <- MCIgnored
    Sources <- MCSources
    Rank <- MCRank
    InitTrees <- RacedTrees
    MaxFiles = 2
    MaxFileBytes = 2
    MaxTotalBytes = 3
    Sizes = {0, 2, 3}
    MaxEdits = 2
INVARIANTS
    DisappearanceRecorded
