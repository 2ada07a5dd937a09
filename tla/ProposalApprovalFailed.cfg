SPECIFICATION Spec
CONSTANTS
    Proposals = {p1}
    MetaKeys = {snapshot}
    Clients = {c1, c2}
    Legs <- MCLegs
CHECK_DEADLOCK FALSE
INVARIANTS
    FailedMeansNoOrder
