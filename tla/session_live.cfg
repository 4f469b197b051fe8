SPECIFICATION FairSpec
CONSTANTS
    None = None
    r1 = r1
    r2 = r2
    r3 = r3
    Requests <- MCRequests
    Names <- MCNames
    HandlerIds <- MCHandlerIds
    STypes <- MCSTypes
    handler_info <- MCInfoLive
    s_type <- MCTypeIds
    data <- MCDataLive
    routes <- MCRoutes
    routes_text_names <- MCTextNames
    max_request_in_time = 1
    Window = 1
    MaxRaw = 0
PROPERTIES
    EveryRequestEnds
CHECK_DEADLOCK FALSE
