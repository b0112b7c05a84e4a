SPECIFICATION SessionSpec
CONSTANTS
    Byte = {0, 1, 2}
    Zero = 0
    N = 2
    Chunk = 1
    Check = TRUE
    Crypt = TRUE
    Headers <- NoHeaders
    InitDests <- MCDests
    Faults = {"write", "hash"}
    MaxAttempts = 2
    Hash <- MCHash
    Cap = 1
    SendCheck = TRUE
    SendCrypt = TRUE
    Preserve = FALSE
    Contents <- MCContents
    MaxEdits = 1
    Resume = TRUE
    Trouble = {"cut", "stall", "kill", "input"}
INVARIANTS
    DeliveredAsHashed
    NoFalseFailure
    NoTempLeft
CHECK_DEADLOCK FALSE
