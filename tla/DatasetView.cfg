SPECIFICATION MCSpec
CONSTANTS
    Workers = {"w1", "w2"}
    Processes = {"p1"}
    Home <- MCHome
    MaxImports = 1
    MaxAttempts = 2
    FileRows = 1
    MaxDataRows = 1
    Uploads = {1}
PROPERTIES ActiveObjectsKept
CHECK_DEADLOCK FALSE
