SPECIFICATION Spec
CONSTANTS
    MaxAdds = 0
    MaxBars = 2
    MaxLag = 0
    MaxOrders = 4
    Faults <- OperatorAndFeed
CHECK_DEADLOCK FALSE
INVARIANTS
    OneLotPerBar
    ManualUntouched

    
