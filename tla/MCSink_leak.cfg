SPECIFICATION Spec
CONSTANTS
    Byte = {0, 1, 2}
    Zero = 0
    N = 2
    Chunk = 1
    Check = FALSE
    Crypt = FALSE
    Headers <- GoodHeaders
    InitDests <- MCDests
    Faults = {"setlen"}
    MaxAttempts = 1
    Hash <- MCHash
INVARIANTS
    NoTempLeft
CHECK_DEADLOCK FALSE
