SPECIFICATION MCSpec
CONSTANTS
    Procs = {p1}
    Jobs = {eod}
    Maintenance = {eod}
    NoProc = NoProc
    NoJob = NoJob
    MaxRuns = 2
    NumDates = 2
    MaxLimit = 1
    Lease = 1
    c1 = c1
    c2 = c2
    Coordinators <- TwoCoordinators
    MaxParents = 1
    NumJobs = 3
    Tokens = {1, 2, 3, 4, 5, 6}
SYMMETRY Symmetry
VIEW UpToTokens
INVARIANTS SucceededMeansComplete RunAllSafety
PROPERTIES ImplementsLedger NothingStartsAfterCancellation
