SPECIFICATION Spec
CONSTANTS
    None = None
    r1 = r1
    r2 = r2
    r3 = r3
    Requests <- MCRequests2
    Names <- MCNames
    HandlerIds <- MCHandlerIds
    STypes <- MCSTypes
    handler_info <- MCInfo2
    s_type <- MCType2
    data <- MCBytes2
    routes <- MCRoutes
    routes_text_names <- MCTextNames
    max_request_in_time = 2
    Window = 9
    MaxRaw = 1
INVARIANTS
    DocReturnedSenderHandsOff
CHECK_DEADLOCK FALSE
