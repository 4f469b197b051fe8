SPECIFICATION ExampleSpec
CONSTANTS
    None = None
    Rounds = 2
    Requests <- ExampleRequests
    Names <- ExampleNames
    HandlerIds <- ExampleIds
    STypes <- ExampleSType
    handler_info <- ExampleInfo
    s_type <- ExampleTags
    data <- ExampleData
    routes <- ExampleRoutes
    routes_text_names <- ExampleTextNames
    Window = 1
    max_request_in_time = 1
    MaxRaw = 0
INVARIANTS
    ServedWhileConnected
PROPERTIES
    PanicsOnlyConnecting
    MainGoesOn
CHECK_DEADLOCK FALSE
