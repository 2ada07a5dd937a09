SPECIFICATION Spec
CONSTANTS
    Names = {a, b}
    First = {a}
    Threads = {"loop", "reload"}
    Session = {2}
    MaxBar = 2
    MaxFaults = 2
INVARIANTS
    TypeOK
    BarsInOrder
    
    TickServesAll
PROPERTIES
    DisabledStays
