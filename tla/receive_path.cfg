SPECIFICATION Spec
CONSTANTS
    Agents = {a1, a2}
    MaxPackets = 2
    TickMod = 4
    MaxAge = 1
    MaxClock = 5
INVARIANTS
    TypeOK
    NoLostWakeup
    InOrder
    OnlyStaleDropped
PROPERTIES
    ChannelSpec
    QueueDrains
CHECK_DEADLOCK FALSE
