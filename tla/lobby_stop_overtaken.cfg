SPECIFICATION Spec
CONSTANTS
    c1 = c1
    c2 = c2
    c3 = c3
    u1 = u1
    u2 = u2
    u3 = u3
    Client = Client
    None = None
    ServerID = ServerID
    Conns = {c1, c2}
    IDs = {u1, u2}
    Uuid <- MCUuid2
    MaxCalls = 2
INVARIANT
    StoppedIsNotAdvertised
CHECK_DEADLOCK FALSE
