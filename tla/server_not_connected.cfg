SPECIFICATION Spec
CONSTANTS
    c1 = c1
    c2 = c2
    c3 = c3
    c4 = c4
    k1 = k1
    k2 = k2
    u4 = u4
    u1 = u1
    u2 = u2
    u3 = u3
    None = None
    ServerID = ServerID
    Conns = {c1, c2, c3, c4}
    IDs = {u1, u2, u3, u4}
    Uuid <- MCUuid
    Owner <- MCOwner
    Clients = {k1, k2}
    PeerKinds = {"SolicitAds"}
    TurnCreds = TRUE
    MaxDown = 1
INVARIANT
    NotConnectedIsTrue
CHECK_DEADLOCK FALSE
