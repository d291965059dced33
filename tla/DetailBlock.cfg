SPECIFICATION Spec
CONSTANTS
    Ids = {a, b}
    MaxRuns = 1
    Records <- MCRecords
    Jobs <- MCBlockJob
INVARIANT AccountFailurePublishesNothing
CHECK_DEADLOCK FALSE
