CONSTANTS
    Names <- MCNames
    Words <- MCWords
    Targets <- MCTargets
    Passed <- MCPassed
    Library <- MCLibrary
    Programs <- MCPrograms
    NoName = NoName
    Other = Other
    Unbound = Unbound
    MaxCalls = 1
SPECIFICATION Spec
INVARIANTS TypeOK UnreachableNeverRuns ClearNamesExact ShadowedRejected
