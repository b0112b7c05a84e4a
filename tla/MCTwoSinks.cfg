SPECIFICATION Spec
CONSTANTS
    Byte = {0, 1, 2}
    Zero = 0
    N = 2
    Chunk = 1
    Check = TRUE
    Crypt = FALSE
    Headers <- FreshHeaders
    InitDests <- MCDests
    Faults = {"write"}
    MaxAttempts = 1
    Hash <- MCHash
INVARIANTS
    NeverMixed
PROPERTIES
    KeptUntilReplaced
CHECK_DEADLOCK FALSE
