SPECIFICATION MCSpec
CONSTANTS
    Files = {1, 2}
    TestFiles = {2}
    PythonFiles = {1}
    Texts <- MCTexts
    Configs <- MCConfigs
    Contexts <- MCContexts
    MaxDay = 1
    MaxChanges = 2
    LastManifest = 2
    Contents <- MCContents
    Names = {1, 2, 3, 4, 5}
    Spellings = {1, 2}
    Signals = {1, 3, 4}
    LibraryOf <- MCLibraryOf
INVARIANTS
    InventoryTypeOK
    LogAgrees
    QuietlyExact
    EachFindingOnce
    TablesAgree
    InventoryExact
PROPERTIES
    AuditEnds
