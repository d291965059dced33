SPECIFICATION MCSpec
CONSTANTS
    Users = {1, 2}
    Roles = {"admin", "user", "ops"}
    Keys = {"users", "roles"}
    KeySets = {{}, {"users", "roles"}}
    Sessions = {s1}
    Requests = {x1, x2}
    MaxTokens = 1
    People = {1}
    Seats = {z1, z2}
    Tickets = {y1, y2}
    Browsers = {x1, x2}
    MaxFailures = 2
    MaxPeriod = 1
    MaxSerial = 2
    MaxPassword = 2
    Datasources = {d1}
    Configs = {y1, y2}
    Reports = {r1}
    Queries = {z1, z2}
    Readers = {u1}
    Visits = {x1, x2}
    MaxRevision = 3
    Owners = {y1, y2}
    Shown = {r1}
    Folders = {z1, z2}
    Names = {"a", "b"}
    Edits = {x1, x2}
    Profiles = {p1}
    Secrets = {y1, y2}
    JobKeys = {k1}
    Executions = {e1}
    Managers = {x1, x2}
    MaxVersions = 3
SYMMETRY MCSymmetry
INVARIANTS AccountSafety LoginSafety CodesUsedOnce ReportSafety ProfileSafety
PROPERTIES NoSelfEscalation
CHECK_DEADLOCK FALSE
