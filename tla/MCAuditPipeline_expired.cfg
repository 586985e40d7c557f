SPECIFICATION InventorySpec
CONSTANTS
    Files = {1, 2}
    TestFiles = {2}
    PythonFiles = {1}
    Texts <- RacedTexts
    Configs <- RacedConfigs
    Contexts <- RacedContexts
    MaxDay = 1
    MaxChanges = 0
    LastManifest = 0
    Contents <- MCContents
    Names = {1, 2, 3, 4, 5}
    Spellings = {1, 2}
    Signals = {1, 3, 4}
    LibraryOf <- MCLibraryOf
INVARIANTS
    ExpiredNotAccepted
