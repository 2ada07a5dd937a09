SPECIFICATION Spec
CONSTANTS
    Callers = {s1, s2}
    Orders <- MCOrders
    Requests <- MCRequests
    Positions = {1}
    Unreadable = Unreadable
    MaxOpen = 2
    MaxRate = 1
    RequireApproval = TRUE
    Faults = {"lie", "noise", "operator", "unreadable"}
    MaxFaults = 1
SYMMETRY MCSymmetry
CHECK_DEADLOCK FALSE
INVARIANTS
    AllOrNothing
    ExemptWithinPosition
    
    FailedHalfIsDead
    
