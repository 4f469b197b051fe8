SPECIFICATION Spec
CONSTANTS
    None = None
    r1 = r1
    r2 = r2
    r3 = r3
    Requests <- MCRequests
    Names <- MCNames
    HandlerIds <- MCHandlerIds
    STypes <- MCSTypes
    handler_info <- MCInfo
    s_type <- MCTypeNames
    data <- MCBytes
    routes <- MCRoutes
    routes_text_names <- MCTextNames
    max_request_in_time = 1
    Window = 9
    MaxRaw = 1
INVARIANTS
    TypeOK
    ResponseMatchesRequest
    RouteCacheAgrees
    HandlerGetsItsRequest
    AtMostOnce
    InFlightBound
    TrafficInStep
    MoveSignalKept
PROPERTIES
    ImplementsRpc
CHECK_DEADLOCK FALSE
