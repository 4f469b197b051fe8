SPECIFICATION Spec
CONSTANTS
    Routes <- MCRoutes
    Names <- MCNames
    STypes <- MCSTypes
    MaxCalls = 3
INVARIANTS
    TypeOK
    EveryCallHasItsId
    NamesResolve
    SnapshotsAgree
PROPERTIES
    CommitIsFinal
CHECK_DEADLOCK FALSE
