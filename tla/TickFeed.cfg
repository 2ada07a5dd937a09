SPECIFICATION FairSpec
CONSTANTS
    Conids = {c1, c2}
    First = {c1}
    MaxBoot = 4
    MaxFaults = 3
    EarlyTicks = FALSE
CHECK_DEADLOCK FALSE
INVARIANTS
    PublishedBacked
PROPERTIES
    FeedReturns
