SPECIFICATION Spec
CONSTANTS
    Byte = {0, 1, 2}
    Zero = 0
    N = 2
    Chunk = 1
    Check = FALSE
    Crypt = FALSE
    Headers <- ResumeHeaders
    InitDests <- MCDests
    Faults = {}
    MaxAttempts = 1
    Hash <- MCHash
INVARIANTS
    FailedResumeShrinks
CHECK_DEADLOCK FALSE
