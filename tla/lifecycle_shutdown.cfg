SPECIFICATION OnlineSpec
CONSTANTS
    Handles = {s1, s2}
    Zero = Zero
    Invalid = Invalid
    Addresses = 2
INVARIANTS
    TypeOK
    JoinNeverBlocked
PROPERTIES
    ShutdownCompletes
    KeepsReceiving
CHECK_DEADLOCK FALSE
