SPECIFICATION ExportSpec
CONSTANTS
    Exporters = {1, 2}
    ExportJobs = {1}
    MaxExportAttempts = 2
INVARIANTS DownloadableHasArtifact
CHECK_DEADLOCK FALSE
