SPECIFICATION SealingSpec
CONSTANTS
    N = 2
    Dialed = 2
    Keys = {"none", "own", "shared"}
    Extra = 3
    Foreign <- LastConn
    Slow = TRUE
    Sizes = {1, 3}
    CtrMax = 3
INVARIANTS
    SealingTypeOK
    SlotsAreThePeers
    SlotsDistinct
    NonceOnce
    OneSource
PROPERTIES
    AcceptEnds
CHECK_DEADLOCK FALSE
