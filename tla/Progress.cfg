SPECIFICATION FairSpec
CONSTANTS
    Procs = {p1}
    Jobs = {fixed, eod}
    Maintenance = {eod}
    NoProc = NoProc
    NoJob = NoJob
    MaxRuns = 2
    NumDates = 1
    MaxLimit = 1
    Lease = 1
PROPERTIES RunsSettle
