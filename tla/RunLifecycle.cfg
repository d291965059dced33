SPECIFICATION Spec
CONSTANTS
    p1 = p1
    p2 = p2
    fixed = fixed
    eod = eod
    NoProc = NoProc
    NoJob = NoJob
    Jobs <- BothJobs
    Maintenance <- None
    Procs <- TwoProcs
    MaxRuns = 2
    NumDates = 1
    MaxLimit = 2
    Lease = 1
SYMMETRY JobSymmetry
INVARIANTS RunSafety
PROPERTIES NoStaleOverwrite ClaimsRespectLimit
