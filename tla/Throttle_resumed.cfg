SPECIFICATION Spec
CONSTANTS
    N = 2
    Frame = 2
    Rate = 2
    SleepCap = 2
    Resumed = 8
    Load = 3
INVARIANTS
    NotStarved
CHECK_DEADLOCK FALSE
