SPECIFICATION Spec
CONSTANTS
    Byte = {0, 1, 2}
    Zero = 0
    N = 2
    Chunk = 2
    Check = FALSE
    Crypt = TRUE
    Headers <- AllHeaders
    InitDests <- MCDests
    Faults = {"open", "setlen", "write", "hash", "preserve", "rename", "remove"}
    MaxAttempts = 2
    Hash <- MCHash
INVARIANTS
    TypeOK
    VerifiedDest
    FailureReported
    GotExact
    PreservedMeta
PROPERTIES
    FreshReplacesWhole
    PrefixTrusted
    KeepsPromise
    Returns
CHECK_DEADLOCK FALSE
