SPECIFICATION FairSpec
CONSTANTS
    c1 = c1
    c2 = c2
    c3 = c3
    u1 = u1
    u2 = u2
    u3 = u3
    Client = Client
    None = None
    ServerID = ServerID
    Conns = {c1, c2, c3}
    IDs = {u1, u2, u3}
    Uuid <- MCUuid3
    MaxCalls = 2
INVARIANTS
    TypeOK
    IdentityRestored
    HostedAfterReconnect
PROPERTIES
    ServerSpec
    EventuallyListed
CHECK_DEADLOCK FALSE
