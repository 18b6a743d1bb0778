SPECIFICATION Spec
CONSTANTS
    u1 = u1
    u2 = u2
    u3 = u3
    i1 = i1
    i2 = i2
    message = message
    Dead = {}
    Unset = {}
    Updates = {}
    Items = {i1, i2}
    Posters = {p1}
    Loop = Loop
    MessageOf <- OneMessage
    Endpoint <- Endpoints
    Limit = 1
    Nothing = Nothing
    Faults = FALSE
INVARIANT ItemsProcessedOnce
CHECK_DEADLOCK FALSE
