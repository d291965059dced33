SPECIFICATION MCSpec
CONSTANTS
    Workers = {"w1", "w2"}
    Processes = {"p1"}
    Home <- MCHome
    MaxImports = 2
    MaxAttempts = 2
    FileRows = 2
    MaxDataRows = 3
    Uploads = {1, 2}
INVARIANTS DatasetSafety FilesKept
PROPERTIES ImplementsDataset ImportsSettle
CHECK_DEADLOCK FALSE
