SPECIFICATION Spec
CONSTANTS
    Handles = {s1, s2}
    Zero = Zero
    Invalid = Invalid
    Addresses = 1
PROPERTY
    ShutdownCompletes
CHECK_DEADLOCK FALSE
