SPECIFICATION CronFairSpec
CONSTANTS
    trader = trader
    strategy = strategy
    timed = timed
    Jobs = {trader, strategy}
    Conf <- Stopped
    Pids = {p1, p2, p3}
    NoPid = NoPid
    Faults = {"exit", "restart", "reboot", "spawn", "garbled"}
    MaxMishaps = 3
    MaxCount = 1
CHECK_DEADLOCK FALSE
INVARIANTS
    OneCopy
    Tracked
    DependencyOrder
PROPERTIES
    StopsWhenDue
    KeptRunning
