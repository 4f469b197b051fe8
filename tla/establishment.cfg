SPECIFICATION FairSpec
CONSTANTS
    None = None
    c1 = c1
    c2 = c2
    t1 = t1
    t2 = t2
    Conns <- MCConns
    Tasks <- MCTasks
    Tls = TRUE
    WebSocket = TRUE
    SetupTalks = TRUE
    Foreign <- MCForeign
    MaxErrors = 1
INVARIANTS
    TypeOK
    AcceptedIsHeld
    ServedIsVetted
    ConnectedIsTakenUp
PROPERTIES
    EveryPeerDecided
    EveryNewEnds
    RepeatedStopEnds
CHECK_DEADLOCK FALSE
