SPECIFICATION ProgressSpec
CONSTANTS
    N = 2
    Load = 2
    Frame = 3
    Rate = 2
    SleepCap = 3
    Resumed = 0
INVARIANTS
    RateHeld
    NotStarved
    FinalOnce
PROPERTIES
    ShownRises
    Ends
CHECK_DEADLOCK FALSE
