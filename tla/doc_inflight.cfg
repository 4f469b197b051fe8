SPECIFICATION Spec
CONSTANTS
    None = None
    r1 = r1
    r2 = r2
    r3 = r3
    Requests <- MCRequests
    Names <- MCNames
    HandlerIds <- MCHandlerIds
    STypes <- MCSTypes
    handler_info <- MCInfo
    s_type <- MCType
    data <- MCBytes
    routes <- MCRoutes
    routes_text_names <- MCTextNames
    max_request_in_time = 2
    Window = 9
    MaxRaw = 1
INVARIANTS
    DocMaxInFlight
CHECK_DEADLOCK FALSE
