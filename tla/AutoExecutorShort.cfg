SPECIFICATION Spec
CONSTANTS
    MaxAdds = 0
    MaxBars = 2
    MaxLag = 1
    MaxOrders = 3
    Faults <- CancelRace
CHECK_DEADLOCK FALSE
INVARIANTS
    NeverShort
