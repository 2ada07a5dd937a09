SPECIFICATION FairSpec
CONSTANTS
    cli = cli
    other = other
    service = service
    runtime = runtime
    Writers = {cli, service}
    Kind <- KindOf
    Source <- Massive
    SizeOf <- CliDaily
    Sizes = {"day", "min"}
    Intraday = {"min"}
    LastDay = 4
    Per = 1
    MaxRev = 2
    MaxRevised = 1
    Advances <- BySession
    Faults <- Disturbed
    MaxFaults = 1
CHECK_DEADLOCK FALSE
INVARIANTS
    NothingLost
    

    
    
