SPECIFICATION Spec
CONSTANTS
    MaxPackets = 3
    MaxRead = 9
INVARIANTS
    TypeOK
    ServerAccounts
    ClientKeepsWhole
PROPERTY
    ServerGetsAll
CHECK_DEADLOCK FALSE
