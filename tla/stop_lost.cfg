SPECIFICATION FairSpec
CONSTANTS
    None = None
    c1 = c1
    c2 = c2
    t1 = t1
    t2 = t2
    Conns <- MCOneConn
    Tasks <- MCOneTask
    Tls = TRUE
    WebSocket = TRUE
    SetupTalks = TRUE
    Foreign <- MCNobody
    MaxErrors = 0
PROPERTIES
    DocStopEnds
CHECK_DEADLOCK FALSE
