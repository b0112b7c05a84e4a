SPECIFICATION SessionSpec
CONSTANTS
    Byte = {0, 1, 2}
    Zero = 0
    N = 2
    Chunk = 1
    Check = FALSE
    Crypt = FALSE
    Headers <- NoHeaders
    InitDests <- GoodDests
    Faults = {}
    MaxAttempts = 1
    Hash <- MCHash
    Cap = 1
    SendCheck = FALSE
    SendCrypt = FALSE
    Preserve = TRUE
    Contents <- OneContent
    MaxEdits = 0
    Resume = TRUE
    Trouble = {"cut", "kill"}
INVARIANTS
    Delivered
PROPERTIES
    BothEnd
    FileArrives
CHECK_DEADLOCK FALSE
