SPECIFICATION MCSpec
CONSTANTS
    Callers = {c1, c2, c3}
    Acquirers = {a1, a2, a3}
    MaxGeneration = 4
    Contexts = {x1, x2}
    Clients = {k1, k2, k3, k4, k5}
    Exporters = {1, 2}
    ExportJobs = {1}
    MaxExportAttempts = 2
    NoClient = NoClient
    NoRequest = NoRequest
    Coordinators = {p1}
    MaxParents = 1
    NumJobs = 2
    Tokens = {1, 2, 3, 4}
INVARIANTS ClientSafety LaneSafety ExportSafety
PROPERTIES NoNeedlessLogin EveryCallReturns EveryCallerIsAnswered ExportsSettle OrphansReclaimed RunAllEnds
CHECK_DEADLOCK FALSE
