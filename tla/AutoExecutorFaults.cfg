SPECIFICATION FairSpec
CONSTANTS
    MaxAdds = 1
    MaxBars = 2
    MaxLag = 0
    MaxOrders = 3
    Faults <- ServiceFaults
CHECK_DEADLOCK FALSE
INVARIANTS
    AttributionBacked
    
PROPERTIES
    WorkerReturns
    SellsWithinAttribution
    
