SPECIFICATION FairSpec
CONSTANTS
    u1 = u1
    u2 = u2
    u3 = u3
    i1 = i1
    i2 = i2
    message = message
    Dead = {i1}
    Unset = {}
    Updates = {u1}
    Items = {i1}
    Posters = {p1}
    Loop = Loop
    MessageOf <- OneMessage
    Endpoint <- Endpoints
    Limit = 1
    Nothing = Nothing
    Faults = TRUE
PROPERTY KeepsPromise
CHECK_DEADLOCK FALSE
