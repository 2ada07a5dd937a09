SPECIFICATION Spec
CHECK_DEADLOCK FALSE
CONSTANTS
    Legs = {stop, profit}
    Start = 3
    Other = 3
    Bounds = {1, 4, 9}
INVARIANTS
    AbandonedUntouched
    RecreateAccepted
    SilentMeansCovered
