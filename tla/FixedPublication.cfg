SPECIFICATION FairSpec
CONSTANTS
    x1 = x1
    Kinds = {"range", "snapshot", "interval"}
    Locations = {x1}
    NumDays = 2
    Requests <- MCRequests
    Blank = {2}
    MaxChunkDays = 1
    Partitions = 1
    CleanupLimit = 1
    MaxRuns = 2
INVARIANTS PublicationSafety
PROPERTIES ImplementsLedger StagingReclaimed
CHECK_DEADLOCK FALSE
