SPECIFICATION MCSpec
CONSTANTS
    Ids = {a, b}
    MaxRuns = 2
    Records <- MCRecords
    Jobs <- MCDetailJobs
    MasterRuns = {1, 2, 3}
    Domain <- MCDomain
    MasterSources <- MCSources
    Blank = "blank"
    MaxMaintenanceRuns = 2
    MaxDate = 2
    Branches = {"b1", "b2"}
    Files <- MCFiles
    Listings <- MCListings
    Headers <- MCHeaders
    HeaderRows <- MCHeaderRows
    Tables <- MCTables
INVARIANTS DetailSafety MasterSafety MaintenanceSafety
PROPERTIES PoolEnds StagedIsReclaimed LockIsFreed
CHECK_DEADLOCK FALSE
