SPECIFICATION TreeSpec
CONSTANTS
    Modes = {"push", "push -z", "pull", "pull -z"}
    Trouble = {"noise", "drop", "kill"}
    MaxFiles = 3
INVARIANTS
    TypeOK
    CpTrue
    CpReaps
    HalvesMeet
    TreePrefix
PROPERTIES
    OneAtATime
    TreeReturns
CHECK_DEADLOCK FALSE
