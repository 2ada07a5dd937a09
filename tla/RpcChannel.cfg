SPECIFICATION FairSpec
CONSTANTS
    Threads = {t1, t2}
    Calls = {c1, c2, c3}
    Polls = 2
    MaxBoot = 2
    HasTimeout = TRUE
    NoCall = NoCall
CHECK_DEADLOCK FALSE
INVARIANTS
    NoGhostRequest
PROPERTIES
    CallsSpec
    HolderReturns
